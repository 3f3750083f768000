----------------------------- MODULE PcSession -----------------------------
(***************************************************************************)
(* The desktop client: one Tk main thread, the threads that list connected *)
(* devices, and the thread of the evaluation, which answer through one     *)
(* queue the main thread polls.  The operator edits the form at any time   *)
(* no message box is open, during an evaluation too; while a message box   *)
(* waits for an answer Tk still runs timers, so the poll of the queue runs *)
(* inside it (except under the error box, which the poll itself opened).   *)
(*                                                                         *)
(* An evaluation and its folder are natural numbers.  A folder holds the   *)
(* journal of model events and report.json, whose content is the number of *)
(* the run that wrote it, Torn when a write was cut short, or NoRun.       *)
(* MaxRuns, MaxEvents, MaxScans and MaxFaults bound evaluations, written   *)
(* events of one evaluation, device listings and failed journal writes.    *)
(***************************************************************************)
EXTENDS Naturals, Sequences, FiniteSets, SequencesExt

CONSTANTS Devices,      \* the devices, in the order of their labels: [platform, serial]
          NoTarget,     \* no detected device is chosen
          MaxRuns, MaxEvents, MaxScans, MaxFaults

Targets == ToSet(Devices)
Serials == {t.serial : t \in Targets}
Platforms == {t.platform : t \in Targets}
\* MANIFEST_REPLAY runs as MOCK does: no device, and a report.
DeviceModes == {"DEVICE_PREFLIGHT", "DEVICE_EXECUTION"}
PcEvaluationMode == DeviceModes \cup {"MOCK"}
NoRun == 0
Torn == MaxRuns + 1
RunIds == 1..MaxRuns
Folders == 1..(MaxRuns + 1)

ASSUME TargetsAssumption ==
    /\ Devices # <<>> /\ Devices \in Seq([platform : STRING, serial : STRING])
    /\ NoTarget \notin Targets /\ "" \notin Serials
ASSUME BoundsAssumption ==
    MaxRuns \in Nat /\ MaxEvents \in Nat /\ MaxScans \in Nat /\ MaxFaults \in Nat

VARIABLES form,        \* [mode, device, serial, tick, folder]: what the widgets hold
          box,         \* the message box: [kind, device, serial]
          running,     \* _running
          polling,     \* is the next poll of the queue scheduled (or in progress)
          refresh,     \* is the refresh button enabled
          detected,    \* the devices of the last listing and the chosen one: [labels, target]
          scans,       \* device listings: [live, made]
          inbox,       \* the queue of the main thread
          started,     \* the number of evaluations started
          request,     \* of each evaluation: what it was asked
          stage,       \* of each evaluation: where its thread is
          saved,       \* of each evaluation: the settings it will restore
          environ,     \* the model settings in os.environ
          counted,     \* _event_count of the journal in use
          folder,      \* of each folder: [journal, report]
          screen,      \* what the operator sees: [status, run, log, report, output]
          faults

window == <<form, box, running, polling, refresh, detected, screen>>
evaluation == <<started, request, stage, saved, environ, counted, folder, faults>>
sessionVars == <<window, scans, inbox, evaluation>>

NoBox == [kind |-> "NONE", device |-> "", serial |-> ""]
NoRequest == [mode |-> "MOCK", device |-> "", serial |-> "", tick |-> FALSE, folder |-> 1,
              shown |-> NoBox]
Blank == [status |-> "READY", run |-> NoRun, log |-> <<>>, report |-> NoRun, output |-> NoRun]
\* The settings this process was started with, and those of evaluation r.
Inherited == NoRun
Working == {"VALIDATED", "WORK", "TELL"}

SessionInit ==
    /\ form = [mode |-> "DEVICE_EXECUTION", device |-> "Harmony", serial |-> "",
               tick |-> FALSE, folder |-> 1]
    /\ box = NoBox /\ running = FALSE /\ polling = TRUE /\ refresh = TRUE
    /\ detected = [labels |-> {}, target |-> NoTarget]
    /\ scans = [live |-> 0, made |-> 0]
    /\ inbox = <<>>
    /\ started = 0
    /\ request = [r \in RunIds |-> NoRequest]
    /\ stage = [r \in RunIds |-> "NEW"]
    /\ saved = [r \in RunIds |-> Inherited]
    /\ environ = Inherited
    /\ counted = 0
    /\ folder = [f \in Folders |-> [journal |-> <<>>, report |-> NoRun]]
    /\ screen = Blank
    /\ faults = 0
-----------------------------------------------------------------------------
\* What plausible mistakes would do; each stands for a definition below.

\* The serial is read again after the answer.
RereadConfirm ==
    /\ box.kind = "CONFIRM"
    /\ request' = [request EXCEPT ![started + 1] =
           [mode |-> form.mode, device |-> form.device, serial |-> form.serial,
            tick |-> form.tick, folder |-> form.folder, shown |-> box]]
    /\ started' = started + 1
    /\ stage' = [stage EXCEPT ![started + 1] = "CALLED"]
    /\ running' = TRUE
    /\ screen' = [Blank EXCEPT !.status = "RUNNING", !.run = started + 1]
    /\ box' = NoBox
    /\ UNCHANGED <<form, polling, refresh, detected, scans, inbox, saved, environ, counted,
                   folder, faults>>

\* The listener is told of an event whose write failed.
TellingLoseEvent(r) ==
    /\ stage[r] = "WORK" /\ faults < MaxFaults
    /\ counted' = counted + 1
    /\ faults' = faults + 1
    /\ stage' = [stage EXCEPT ![r] = "TELL"]
    /\ UNCHANGED <<window, scans, inbox, started, request, saved, environ, folder>>

\* The thread of a failed evaluation dies without an answer.
SilentEnds(r, kind) ==
    /\ stage' = [stage EXCEPT ![r] = "DONE"]
    /\ request' = [request EXCEPT ![r] =
           [NoRequest EXCEPT !.mode = request[r].mode, !.folder = request[r].folder]]
    /\ saved' = [saved EXCEPT ![r] = Inherited]
    /\ counted' = 0
    /\ environ' = IF environ = r THEN saved[r] ELSE environ
    /\ inbox' = IF kind = "error" THEN inbox ELSE Append(inbox, [kind |-> kind, run |-> r])

-----------------------------------------------------------------------------
\* The operator edits the form.

\* _update_mode_fields: leaving execution takes the confirmation back.
SetMode(m) ==
    /\ box.kind = "NONE" /\ m # form.mode
    /\ form' = [form EXCEPT !.mode = m, !.tick = @ /\ m = "DEVICE_EXECUTION"]
    /\ refresh' = (m \in DeviceModes)
    /\ UNCHANGED <<box, running, polling, detected, screen, scans, inbox, evaluation>>

Edits ==
    {[form EXCEPT !.serial = s] : s \in Serials}
        \cup {[form EXCEPT !.device = p] : p \in Platforms}

EditTarget ==
    /\ box.kind = "NONE" /\ form.mode \in DeviceModes
    /\ form' \in Edits /\ form' # form
    /\ UNCHANGED <<box, running, polling, refresh, detected, screen, scans, inbox, evaluation>>

\* _select_detected_device, from the list of detected devices.
SelectDevice ==
    /\ box.kind = "NONE" /\ form.mode \in DeviceModes
    /\ \E t \in detected.labels :
           /\ detected' = [detected EXCEPT !.target = t]
           /\ form' = [form EXCEPT !.device = t.platform, !.serial = t.serial]
    /\ UNCHANGED <<box, running, polling, refresh, screen, scans, inbox, evaluation>>

Tick ==
    /\ box.kind = "NONE" /\ form.mode = "DEVICE_EXECUTION"
    /\ form' = [form EXCEPT !.tick = ~@]
    /\ UNCHANGED <<box, running, polling, refresh, detected, screen, scans, inbox, evaluation>>

\* The operator goes back to a folder an earlier evaluation was given.
ChooseFolder ==
    /\ box.kind = "NONE"
    /\ \E f \in {request[r].folder : r \in 1..started} \ {form.folder} :
           form' = [form EXCEPT !.folder = f]
    /\ UNCHANGED <<box, running, polling, refresh, detected, screen, scans, inbox, evaluation>>

\* The button, and once by itself shortly after the window opens.
RefreshDevices ==
    /\ box.kind = "NONE" /\ ~running /\ refresh /\ scans.made < MaxScans
    /\ refresh' = FALSE
    /\ scans' = [live |-> scans.live + 1, made |-> scans.made + 1]
    /\ UNCHANGED <<form, box, running, polling, detected, screen, inbox, evaluation>>
-----------------------------------------------------------------------------
\* _start_run, up to the question and from the answer on.  The buttons that open
\* the report and the folder of the last evaluation are disabled.  Of a request that
\* operates no device only the mode and the folder matter.

Launch(r, serial) ==
    /\ request' = [request EXCEPT ![r] =
           IF form.mode = "DEVICE_EXECUTION"
           THEN [mode |-> form.mode, device |-> form.device, serial |-> serial,
                 tick |-> form.tick, folder |-> form.folder, shown |-> box]
           ELSE [NoRequest EXCEPT !.mode = form.mode, !.folder = form.folder]]
    /\ started' = r
    /\ stage' = [stage EXCEPT ![r] = "CALLED"]
    /\ running' = TRUE
    /\ screen' = [Blank EXCEPT !.status = "RUNNING", !.run = r]

StartRun ==
    /\ ~running
    /\ box.kind = "NONE" /\ started < MaxRuns
    /\ IF form.mode = "DEVICE_EXECUTION"
       THEN /\ form.serial # "" /\ form.tick
            /\ box' = [kind |-> "CONFIRM", device |-> form.device, serial |-> form.serial]
            /\ UNCHANGED <<request, started, stage, running, screen>>
       ELSE Launch(started + 1, form.serial) /\ UNCHANGED box
    /\ UNCHANGED <<form, polling, refresh, detected, scans, inbox, saved, environ, counted,
                   folder, faults>>

\* The serial was read before the question, the rest of the form is read after it.
Confirm ==
    /\ box.kind = "CONFIRM"
    /\ Launch(started + 1, box.serial)
    /\ box' = NoBox
    /\ UNCHANGED <<form, polling, refresh, detected, scans, inbox, saved, environ, counted,
                   folder, faults>>

Decline ==
    /\ box.kind = "CONFIRM"
    /\ box' = NoBox
    /\ UNCHANGED <<form, running, polling, refresh, detected, screen, scans, inbox, evaluation>>

\* The error box returns, and with it the handler that opened it.
Dismiss ==
    /\ box.kind = "ERROR"
    /\ box' = NoBox
    /\ UNCHANGED <<form, running, polling, refresh, detected, screen, scans, inbox, evaluation>>
-----------------------------------------------------------------------------
\* The other threads.

\* discover_connected_devices never raises: a failed command finds no device.
ScanEnds ==
    /\ scans.live > 0
    /\ scans' = [scans EXCEPT !.live = @ - 1]
    /\ \E found \in SUBSET Targets :
           inbox' = Append(inbox, [kind |-> "devices", found |-> found])
    /\ UNCHANGED <<window, evaluation>>

\* The thread of r has its answer: settings are restored, the answer is queued, the
\* rest of its memory is gone.
Ends(r, kind) ==
    /\ stage' = [stage EXCEPT ![r] = "DONE"]
    /\ request' = [request EXCEPT ![r] =
           [NoRequest EXCEPT !.mode = request[r].mode, !.folder = request[r].folder]]
    /\ saved' = [saved EXCEPT ![r] = Inherited]
    /\ counted' = 0
    /\ environ' = IF request[r].mode = "DEVICE_EXECUTION" /\ stage[r] \in Working
                  THEN saved[r] ELSE environ
    /\ inbox' = Append(inbox, [kind |-> kind, run |-> r])

Validate(r) ==
    /\ stage[r] = "CALLED"
    /\ request[r].mode = "DEVICE_EXECUTION" => request[r].tick /\ request[r].serial # ""
    /\ stage' = [stage EXCEPT ![r] = "VALIDATED"]
    /\ IF request[r].mode = "DEVICE_EXECUTION"
       THEN saved' = [saved EXCEPT ![r] = environ] /\ environ' = r
       ELSE UNCHANGED <<saved, environ>>
    /\ UNCHANGED <<window, scans, inbox, started, request, counted, folder, faults>>

\* The executor opens its journal, which empties the file.
OpenJournal(r) ==
    /\ stage[r] = "VALIDATED" /\ request[r].mode = "DEVICE_EXECUTION"
    /\ stage' = [stage EXCEPT ![r] = "WORK"]
    /\ counted' = 0
    /\ folder' = [folder EXCEPT ![request[r].folder].journal = <<>>]
    /\ UNCHANGED <<window, scans, inbox, started, request, saved, environ, faults>>

WriteEvent(r) ==
    /\ stage[r] = "WORK" /\ Len(folder[request[r].folder].journal) < MaxEvents
    /\ counted' = counted + 1
    /\ folder' = [folder EXCEPT ![request[r].folder].journal =
           Append(@, [run |-> r, index |-> counted + 1])]
    /\ stage' = [stage EXCEPT ![r] = "TELL"]
    /\ UNCHANGED <<window, scans, inbox, started, request, saved, environ, faults>>

\* The write raises; emit_model_event swallows it and the number stays taken.
LoseEvent(r) ==
    /\ stage[r] = "WORK" /\ faults < MaxFaults
    /\ counted' = counted + 1
    /\ faults' = faults + 1
    /\ UNCHANGED <<window, scans, inbox, started, request, stage, saved, environ, folder>>

TellEvent(r) ==
    /\ stage[r] = "TELL"
    /\ inbox' = Append(inbox, [kind |-> "model_event", run |-> r, index |-> counted])
    /\ stage' = [stage EXCEPT ![r] = "WORK"]
    /\ UNCHANGED <<window, scans, started, request, saved, environ, counted, folder, faults>>

Reports(r) ==
    \/ stage[r] = "WORK"
    \/ stage[r] = "VALIDATED" /\ request[r].mode = "MOCK"

WriteReport(r, content) ==
    folder' = [folder EXCEPT ![request[r].folder].report = content]

Succeed(r) ==
    /\ \/ Reports(r) /\ WriteReport(r, r)
       \/ stage[r] = "VALIDATED" /\ request[r].mode = "DEVICE_PREFLIGHT" /\ UNCHANGED folder
    /\ Ends(r, "result")
    /\ UNCHANGED <<window, scans, started, faults>>

\* Refused by validation, failed before, while or after writing report.json.
Fail(r) ==
    /\ \/ stage[r] \in {"CALLED", "VALIDATED", "WORK"} /\ UNCHANGED folder
       \/ Reports(r) /\ \E content \in {r, Torn} : WriteReport(r, content)
    /\ Ends(r, "error")
    /\ UNCHANGED <<window, scans, started, faults>>
-----------------------------------------------------------------------------
\* _poll_events, one message at a time.  A handler that raises ends the polling.

Receive(kind) ==
    /\ polling
    /\ box.kind # "ERROR"
    /\ inbox # <<>> /\ Head(inbox).kind = kind
    /\ inbox' = Tail(inbox)

\* _finish_device_discovery: the chosen label if it is still there, else the first.
FinishDeviceDiscovery ==
    /\ Receive("devices")
    /\ refresh' = (refresh \/ form.mode = "DEVICE_EXECUTION")
    /\ LET found == Head(inbox).found
           first == SelectInSeq(Devices, LAMBDA t : t \in found)
           target == IF detected.target \in found THEN detected.target ELSE Devices[first] IN
       IF found = {}
       THEN detected' = [labels |-> {}, target |-> NoTarget] /\ UNCHANGED form
       ELSE /\ detected' = [labels |-> found, target |-> target]
            /\ form' = [form EXCEPT !.device = target.platform, !.serial = target.serial]
    /\ UNCHANGED <<box, running, polling, screen, scans, evaluation>>

AppendModelEvent ==
    /\ Receive("model_event")
    /\ screen' = [screen EXCEPT !.log =
           Append(@, [run |-> Head(inbox).run, index |-> Head(inbox).index])]
    /\ UNCHANGED <<form, box, running, polling, refresh, detected, scans, evaluation>>

\* A path no earlier evaluation was given.
NewOutputDir == 1 + Cardinality({request[r].folder : r \in 1..started})

FinishSuccess ==
    /\ Receive("result")
    /\ running' = FALSE
    /\ LET r == Head(inbox).run
           output == request[r].folder
           report == folder[output].report IN
       IF report = Torn
       THEN /\ polling' = FALSE
            /\ screen' = [screen EXCEPT !.status = "COMPLETE", !.output = output]
            /\ UNCHANGED form
       ELSE /\ screen' = [screen EXCEPT !.status = "COMPLETE", !.output = output,
                                        !.report = report]
            /\ form' = [form EXCEPT !.folder = NewOutputDir, !.tick = FALSE]
            /\ UNCHANGED polling
    /\ UNCHANGED <<box, refresh, detected, scans, evaluation>>

\* The form keeps its folder and its confirmation.  The folder shown is the one
\* the form names now, when it exists: a refused evaluation may not have made it.
FinishError ==
    /\ Receive("error")
    /\ running' = FALSE
    /\ \E output \in {NoRun, form.folder} :
           /\ output # NoRun => \E r \in 1..started : request[r].folder = output
           /\ screen' = [screen EXCEPT !.status = "ERROR", !.output = output]
    /\ box' = [NoBox EXCEPT !.kind = "ERROR"]
    /\ UNCHANGED <<form, polling, refresh, detected, scans, evaluation>>
-----------------------------------------------------------------------------
Operator ==
    \/ \E m \in PcEvaluationMode : SetMode(m)
    \/ EditTarget \/ SelectDevice \/ Tick \/ ChooseFolder \/ RefreshDevices
    \/ StartRun \/ Confirm \/ Decline \/ Dismiss

Worker(r) ==
    \/ Validate(r) \/ OpenJournal(r) \/ WriteEvent(r) \/ LoseEvent(r) \/ TellEvent(r)
    \/ Succeed(r) \/ Fail(r)

PollEvents == FinishDeviceDiscovery \/ AppendModelEvent \/ FinishSuccess \/ FinishError

SessionNext == Operator \/ ScanEnds \/ (\E r \in RunIds : Worker(r)) \/ PollEvents

\* Threads keep running and the timer of the poll keeps firing, under a question
\* too; nothing is assumed of the operator.
SessionFairness == WF_sessionVars(PollEvents) /\ \A r \in RunIds : WF_sessionVars(Worker(r))

SessionSpec == SessionInit /\ [][SessionNext]_sessionVars /\ SessionFairness
-----------------------------------------------------------------------------
\* A device is operated only under the serial its operator was asked about and
\* agreed to, with the side effects ticked, whatever a device listing changed in
\* the form while the question was open (app.py:684-738, service.py:89-93).
ConfirmedSerialExecutes ==
    \A r \in RunIds : stage[r] \in Working /\ request[r].mode = "DEVICE_EXECUTION" =>
        /\ request[r].tick /\ request[r].shown.kind = "CONFIRM"
        /\ request[r].serial = request[r].shown.serial

\* The process has an evaluation's model settings exactly while that evaluation
\* operates its device, and its own again afterwards, error or not: no evaluation
\* runs under the settings of another (service.py:241-256).
SettingsFollowTheEvaluation ==
    \A r \in RunIds : (environ = r) <=>
        stage[r] \in Working /\ request[r].mode = "DEVICE_EXECUTION"

\* The live view never shows an event the journal does not hold, shows them in
\* its order, and shows all of them once the evaluation is reported complete,
\* events whose write failed included in neither (model_event_journal.py:36-57).
ScreenFollowsTheJournal ==
    screen.run # NoRun =>
        LET journal == folder[request[screen.run].folder].journal IN
        /\ IsPrefix(screen.log, journal) \/ screen.log = <<>>
        /\ screen.status = "COMPLETE" /\ request[screen.run].mode = "DEVICE_EXECUTION" =>
               screen.log = journal

\* The report on the screen is the one the reported evaluation wrote, from the
\* folder it was given, though the operator may have named another folder since
\* and earlier evaluations may have left theirs there (app.py:789-811).
ResultIsOfTheEvaluation ==
    screen.status = "COMPLETE" =>
        /\ screen.output = request[screen.run].folder
        /\ request[screen.run].mode # "DEVICE_PREFLIGHT" => screen.report = screen.run

\* While the queue is polled, every evaluation ends on the screen as a result or
\* an error, and the client can start another (app.py:748-771).
EvaluationIsShown == running /\ polling ~> ~running

\* Every evaluation is eventually surfaced (app.py:751).
EvaluationIsSurfaced == running ~> ~running

\* The device that was confirmed is the device that is operated (README.md:40).
ConfirmedDeviceExecutes ==
    \A r \in RunIds : stage[r] \in Working /\ request[r].mode = "DEVICE_EXECUTION" =>
        request[r].device = request[r].shown.device
=============================================================================

------------------------------ MODULE HarmonyRun ----------------------------
(***************************************************************************)
(* Tests that run on a Harmony phone (app_test_agent/harmony_*.py).  This  *)
(* machine sends a test case and starts an agent in the phone's app; the   *)
(* agent works through the HTTP bridge of this machine ("owned"), or alone *)
(* under the phone's test runner ("native"), and leaves a report whose     *)
(* path this machine finds in the phone's log, exports and judges.  The    *)
(* bridge can also be served on its own ("bridge"), and a manifest can come *)
(* from an execution of this machine ("local").                            *)
(*                                                                         *)
(* Calls follow each other and are numbered; a call's service, its token   *)
(* and the agent it starts bear its number.  The phone's app, its log and  *)
(* hdc are the environment: an agent may outlive the call that started it, *)
(* requests may overlap, hdc may fail, the log forgets.                    *)
(***************************************************************************)
EXTENDS ExecutionManifest, ExecutionConformance, FiniteSets

CONSTANTS MaxCalls,       \* bound: calls of this machine
          MaxRequests,    \* bound: requests of one agent the bridge is serving
          Kinds,          \* the kinds of call: "owned", "native", "bridge", "local"
          Cases,          \* test case ids
          Begins(_, _),   \* Begins(c, d): id d is id c, or continues it after a "-"
          Length,         \* steps of a test case
          Contents,       \* what a report may hold
          SavedExecutions \* executions of this machine, and the gate's decisions of today

Calls == 1 .. MaxCalls
Nobody == 0

ASSUME CallsAssumption ==
    MaxCalls \in Nat /\ MaxRequests \in Nat /\ Length \in Nat /\ Cases # {}

\* The steps of a report are a list, or it is not read at all.
ASSUME ContentsAssumption ==
    \A report \in Contents :
        LET steps == report.manifest.steps
        IN  Len(steps) \in Nat /\ DOMAIN steps = 1 .. Len(steps)

\* What an executor saves: it stops at the first step that is not completed, a
\* completed step has post frames, and frames it lists itself are all there are.
ASSUME SavedAssumption ==
    \A e \in SavedExecutions :
        LET results == e.results IN
        /\ Len(results) \in 1 .. Length /\ DOMAIN results = 1 .. Len(results)
        /\ \A k \in DOMAIN results :
            /\ results[k].step = k /\ results[k].status \in StepStatuses
            /\ k < Len(results) => results[k].status = "STEP_COMPLETED"
            /\ results[k].status = "STEP_COMPLETED" => results[k].post # {}
            /\ e.supplied # <<>> => results[k].pre \cup results[k].post \subseteq e.supplied[1]
        /\ Len(results) < Length => results[Len(results)].status # "STEP_COMPLETED"
        /\ Len(e.decisions) \in Nat /\ Len(results) <= Len(e.decisions)

VARIABLES
    doing,      \* where the call is
    call,       \* its number, kind, test case, started_at_ms and verdict so far
    taken,      \* history: the report each call exported
    judged,     \* what the call's intake read, and whether it was accepted
    up,         \* the service that owns the port, Nobody if none
    serving,    \* serve_forever was entered by that service
    open,       \* _sessions of the services: <<service, agent>>
    workers,    \* requests being served: [service, agent, action, stage]
    mapped,     \* the reverse mapping from the phone's port to this machine's
    agents,     \* the test case each agent is working on, "off" if it is not
    log,        \* report paths the phone's log still shows: [agent, case, at]
    files,      \* test cases and keys left on the phone: <<call, what>>
    clock       \* both machines' clock, in events

callVars == <<doing, call, taken, judged>>
bridge == <<up, serving, open, workers>>
phone == <<agents, log, files, clock>>
harmonyVars == <<callVars, bridge, mapped, phone>>

NotJudged == [by |-> "nobody", accepted |-> FALSE]

HarmonyInit ==
    /\ doing = "idle" /\ taken = <<>> /\ judged = NotJudged
    /\ call = [n |-> 0, kind |-> "owned", case |-> CHOOSE c \in Cases : TRUE, started |-> 0,
               failed |-> FALSE]
    /\ up = Nobody /\ serving = FALSE /\ open = {} /\ workers = {} /\ mapped = FALSE
    /\ agents = [n \in Calls |-> "off"] /\ log = {} /\ files = {} /\ clock = 0

-----------------------------------------------------------------------------
(* The bridge: HdcBridgeService behind HdcBridgeServer. *)

Working(a) == agents[a] # "off"
Reachable == mapped /\ serving
authorized(service, agent) == agent = service

\* Daemon threads serve the requests; the service's lock admits one at a time.
Acting(service) == {w \in workers : w.service = service /\ w.stage \in {"acting", "layout"}}
\* Mutant: nothing keeps two requests apart.
NoLock(service) == service \in Calls
LockFree(service) == Acting(service) = {}

create_session(a) ==
    /\ Working(a) /\ Reachable /\ authorized(up, a)
    /\ open' = open \cup {<<up, a>>}
    /\ UNCHANGED <<callVars, up, serving, workers, mapped, phone>>

close_session(a) ==
    /\ Working(a) /\ Reachable /\ authorized(up, a) /\ LockFree(up)
    /\ <<up, a>> \in open
    /\ open' = open \ {<<up, a>>}
    /\ UNCHANGED <<callVars, up, serving, workers, mapped, phone>>

\* _session is looked up under the lock, which is then released and taken again
\* for the action.
do_POST(a, action) ==
    LET request == [service |-> up, agent |-> a, action |-> action, stage |-> "admitted"] IN
    /\ Working(a) /\ Reachable /\ authorized(up, a) /\ LockFree(up)
    /\ <<up, a>> \in open
    /\ Cardinality({w \in workers : w.agent = a}) < MaxRequests /\ request \notin workers
    /\ workers' = workers \cup {request}
    /\ UNCHANGED <<callVars, up, serving, open, mapped, phone>>

\* An action takes time on the device; an observation dumps the layout first and
\* takes the picture later.
execute(w) ==
    /\ w.stage = "admitted" /\ LockFree(w.service)
    /\ workers' = (workers \ {w}) \cup
           {[w EXCEPT !.stage = IF w.action = "observe" THEN "layout" ELSE "acting"]}
    /\ UNCHANGED <<callVars, up, serving, open, mapped, phone>>

\* The end of an action changes the screen under an observation that is not
\* complete.
Performed(w) ==
    {IF v.service = w.service /\ v.stage = "layout" /\ w.action = "act"
     THEN [v EXCEPT !.stage = "torn"] ELSE v : v \in workers \ {w}}

WorkerEnds(w) ==
    /\ w.stage \in {"acting", "layout", "torn"}
    /\ workers' = Performed(w)
    /\ UNCHANGED <<callVars, up, serving, open, mapped, phone>>

-----------------------------------------------------------------------------
(* The phone. *)

\* A new start may replace the agents that are still at work in the app.
Started(n, c) ==
    \E replaced \in SUBSET {a \in Calls : Working(a)} :
        agents' = [a \in Calls |-> IF a = n THEN c
                                   ELSE IF a \in replaced THEN "off" ELSE agents[a]]

AgentReports(a) ==
    /\ Working(a)
    /\ agents' = [agents EXCEPT ![a] = "off"]
    /\ clock' = clock + 1
    /\ log' = log \cup {[agent |-> a, case |-> agents[a], at |-> clock + 1]}
    /\ UNCHANGED <<callVars, bridge, mapped, files>>

\* An agent that dies is one whose report the log loses.
LogRotates ==
    /\ \E line \in log : log' = log \ {line}
    /\ UNCHANGED <<callVars, bridge, mapped, agents, files, clock>>

-----------------------------------------------------------------------------
(* The calls.  Owned: bind, start, map, send, launch, poll, export, intake, *)
(* remove, close.  Native: send, key, launch, test, remove, poll, export,   *)
(* intake.  Bridge: bind, map, launch, serve.                               *)

Owned == call.kind = "owned"
Native == call.kind = "native"
Mine == {<<call.n, "case">>, <<call.n, "key">>}

GoOn(next) == doing' = next /\ UNCHANGED call
Raise(next) == doing' = next /\ call' = [call EXCEPT !.failed = TRUE]
\* An exception where the finally clause of the call covers it.
RaiseInside == Raise("remove")

Begin(kind, c) ==
    /\ doing = "idle" /\ call.n < MaxCalls
    /\ doing' = CASE kind = "native" -> "send" [] kind = "local" -> "execute" [] OTHER -> "bind"
    /\ call' = [n |-> call.n + 1, kind |-> kind, case |-> c, started |-> 0, failed |-> FALSE]
    /\ UNCHANGED <<taken, judged, bridge, mapped, phone>>

\* The server is made before the try; a port still taken ends the call.
Bind ==
    /\ doing = "bind"
    /\ IF up = Nobody THEN up' = call.n /\ GoOn(IF Owned THEN "start" ELSE "map")
       ELSE UNCHANGED up /\ Raise("idle")
    /\ UNCHANGED <<taken, judged, serving, open, workers, mapped, phone>>

Start ==
    /\ doing = "start" /\ serving' = TRUE /\ GoOn("map")
    /\ UNCHANGED <<taken, judged, up, open, workers, mapped, phone>>

\* main removes an older mapping first; its finally clause waits for a server
\* that was never served.
_hdc_rport ==
    /\ doing = "map"
    /\ \/ mapped' = TRUE /\ \E next \in IF Owned THEN {"send"} ELSE {"launch", "serve"} : GoOn(next)
       \/ Owned /\ UNCHANGED mapped /\ RaiseInside
       \/ ~Owned /\ mapped' = FALSE /\ Raise("close")
    /\ UNCHANGED <<taken, judged, bridge, phone>>

_send_case ==
    /\ doing = "send"
    /\ \/ /\ files' = files \cup {<<call.n, "case">>}
          /\ \E next \in IF Owned THEN {"launch"} ELSE {"key", "launch"} : GoOn(next)
       \/ UNCHANGED files /\ Owned /\ RaiseInside
       \/ UNCHANGED files /\ Native /\ Raise("idle")
    /\ UNCHANGED <<taken, judged, bridge, mapped, agents, log, clock>>

SendKey ==
    /\ doing = "key"
    /\ \/ files' = files \cup {<<call.n, "key">>} /\ GoOn("launch")
       \/ UNCHANGED files /\ RaiseInside
    /\ UNCHANGED <<taken, judged, bridge, mapped, agents, log, clock>>

\* started_at_ms is read before the agent is started, which may fail either way.
Launch ==
    /\ doing = "launch"
    /\ clock' = clock + 1
    /\ \/ /\ Started(call.n, call.case)
          /\ doing' = CASE Owned -> "poll" [] Native -> "test" [] OTHER -> "serve"
          /\ call' = [call EXCEPT !.started = clock + 1]
       \/ /\ UNCHANGED agents \/ Started(call.n, call.case)
          /\ IF Owned \/ Native THEN RaiseInside ELSE Raise("close")
    /\ mapped' = IF doing' = "close" THEN FALSE ELSE mapped
    /\ UNCHANGED <<taken, judged, bridge, log, files>>

\* aa test ends with the agent, or hdc gives up on it; a test that is not green
\* raises, and its report is not looked for.
_run_test ==
    /\ doing = "test"
    /\ \/ ~Working(call.n) /\ GoOn("remove")
       \/ RaiseInside
    /\ UNCHANGED <<taken, judged, bridge, mapped, phone>>

\* Mutant: whatever the log still shows.
CandidatesEver == {line \in log : Begins(line.case, call.case)}
Candidates == {line \in log : Begins(line.case, call.case) /\ line.at >= call.started}

\* Mutant: an owned call polls until its report is there.
FindReportPatiently ==
    /\ doing = "poll"
    /\ \/ \E line \in Candidates :
            /\ \A other \in Candidates : other.at <= line.at
            /\ taken' = Append(taken, [call |-> call.n, report |-> line]) /\ GoOn("export")
       \/ Native /\ UNCHANGED taken /\ Raise("idle")
    /\ UNCHANGED <<judged, bridge, mapped, phone>>

FindReport ==
    /\ doing = "poll"
    /\ \/ \E line \in Candidates :
            /\ \A other \in Candidates : other.at <= line.at
            /\ taken' = Append(taken, [call |-> call.n, report |-> line]) /\ GoOn("export")
       \/ /\ UNCHANGED taken
          /\ IF Owned THEN RaiseInside ELSE Raise("idle")
    /\ UNCHANGED <<judged, bridge, mapped, phone>>

_export_report ==
    /\ doing = "export"
    /\ \/ GoOn("intake")
       \/ IF Owned THEN RaiseInside ELSE Raise("idle")
    /\ UNCHANGED <<taken, judged, bridge, mapped, phone>>

\* rm may fail silently, or raise: then the server is not closed, and a key that
\* was not yet removed stays.
RemoveFiles ==
    /\ doing = "remove"
    /\ \E removed \in SUBSET (Mine \cap files) : files' = files \ removed
    /\ \/ GoOn(IF Owned THEN "close" ELSE IF call.failed THEN "idle" ELSE "poll")
       \/ Mine \cap files # {} /\ Raise("idle")
    /\ judged' = NotJudged
    /\ UNCHANGED <<taken, bridge, mapped, agents, log, clock>>

\* close() waits until serve_forever has returned: for ever where it never ran.
close ==
    /\ doing = "close"
    /\ IF serving THEN up' = Nobody /\ serving' = FALSE /\ GoOn("idle")
       ELSE UNCHANGED <<up, serving>> /\ GoOn("hung")
    /\ UNCHANGED <<taken, judged, open, workers, mapped, phone>>

\* main serves until it is interrupted.
serve_forever ==
    /\ doing = "serve" /\ ~serving /\ serving' = TRUE
    /\ UNCHANGED <<callVars, up, open, workers, mapped, phone>>

Interrupted ==
    /\ doing = "serve" /\ serving
    /\ up' = Nobody /\ serving' = FALSE /\ mapped' = FALSE /\ GoOn("idle")
    /\ UNCHANGED <<taken, judged, open, workers, phone>>

-----------------------------------------------------------------------------
(* The intake of a report [sealed, manifest, required, trace]: whether every *)
(* hash in it is right, its execution manifest, whether the test case calls  *)
(* for the verification trace, and the trace [sealed, frames, cites, acts,   *)
(* status], which may be missing (<<>>).                                     *)

ZeroFrameBlock(trace) == trace.status \in {"ENV_BLOCKED", "UNSUPPORTED"} /\ trace.acts
_verification_execution(required, trace) ==
    IF trace = <<>> THEN ~required
    ELSE /\ trace[1].sealed /\ trace[1].cites \subseteq trace[1].frames
         /\ required /\ trace[1].frames = {} => ZeroFrameBlock(trace[1])

Acceptable(report) ==
    /\ report.sealed
    /\ validate_against(report.manifest, Length)
    /\ _verification_execution(report.required, report.trace)

intake_report ==
    /\ doing = "intake"
    /\ \E report \in Contents :
        /\ judged' = [by |-> "intake", accepted |-> Acceptable(report), report |-> report]
        /\ IF Acceptable(report) THEN GoOn(IF Owned THEN "remove" ELSE "return")
           ELSE IF Owned THEN RaiseInside ELSE Raise("return")
    /\ UNCHANGED <<taken, bridge, mapped, phone>>

\* A saved execution is loaded back, and judged again by today's gate.
Reload ==
    /\ doing = "execute"
    /\ \E execution \in SavedExecutions, binding \in {"current", "migrated", "foreign"} :
        LET manifest == build_manifest_from_execution_record(execution.results,
                                                             execution.supplied)
            statuses == StatusesOf(manifest)
        IN  judged' = [by |-> "reload", execution |-> execution, bound |-> binding # "foreign",
                       accepted |-> load_app_test_manifest_evidence(manifest, Length, binding),
                       loaded |-> statuses,
                       replayed |-> recompute_step_gates_from_raw_trace(statuses,
                                                                        execution.decisions)]
    /\ GoOn("return")
    /\ UNCHANGED <<taken, bridge, mapped, phone>>

Return ==
    /\ doing = "return" /\ judged' = NotJudged /\ GoOn("idle")
    /\ UNCHANGED <<taken, bridge, mapped, phone>>

-----------------------------------------------------------------------------
OfTheCall ==
    \/ Bind \/ Start \/ _hdc_rport \/ _send_case \/ SendKey \/ Launch \/ _run_test
    \/ FindReport \/ _export_report \/ intake_report \/ Reload \/ Return \/ RemoveFiles
    \/ close \/ serve_forever
OfTheBridge ==
    \E w \in workers : execute(w) \/ WorkerEnds(w)
OfThePhone ==
    \/ LogRotates
    \/ \E a \in Calls :
        \/ AgentReports(a) \/ create_session(a) \/ close_session(a)
        \/ \E action \in {"observe", "act"} : do_POST(a, action)
HarmonyNext == \/ \E kind \in Kinds, c \in Cases : Begin(kind, c)
        \/ OfTheCall \/ Interrupted \/ OfTheBridge \/ OfThePhone

\* A call's own steps go on: every hdc command and the polling have a timeout.
HarmonySpec == HarmonyInit /\ [][HarmonyNext]_harmonyVars /\ WF_harmonyVars(OfTheCall)

-----------------------------------------------------------------------------
\* An agent that outlived its call reaches the next call's bridge through the
\* mapping that stays, and must not act on the device through it.
StaleAgentsStayOut == \A w \in workers : w.agent = w.service

\* The layout and the picture of one observation are of one screen: no action of
\* the same bridge falls between them.
ObservationIsOfOneScreen == \A w \in workers : w.stage # "torn"

\* What a call exports was not the result of an earlier one, although the log
\* still shows the earlier report under the same test case.
ReportsAreTakenOnce ==
    \A i, j \in DOMAIN taken : taken[i].report = taken[j].report => i = j

\* A report in which no step failed accounts for every step of the test case,
\* each dispatched, conformant and observed; one that stops earlier says why.
AcceptedReportsAreWhole ==
    judged.by = "intake" /\ judged.accepted =>
        LET manifest == judged.report.manifest
            statuses == StatusesOf(manifest)
        IN  VerifyStatuses([steps |-> [k \in DOMAIN statuses |-> [status |-> statuses[k]]]])
                = NoFailure =>
            \A k \in 1 .. Length : /\ k \in DOMAIN manifest.steps
                                   /\ Earned(manifest.steps[k])
                                   /\ manifest.steps[k].post # {}

\* What an executor of this machine saved is loaded back whenever it is bound to
\* the test case, step by step with the status it had; judging it again leaves
\* blocked steps blocked, and never goes past where the executor stopped.
SavedExecutionTellsItself ==
    judged.by = "reload" =>
        LET was == [k \in DOMAIN judged.execution.results |-> judged.execution.results[k].status]
        IN  /\ judged.accepted = judged.bound
            /\ judged.loaded = was
            /\ Len(judged.replayed) <= Len(was)
            /\ \A k \in DOMAIN judged.replayed :
                was[k] \in {"ENV_BLOCKED", "UNSUPPORTED"} => judged.replayed[k] = was[k]

\* A call of the two runners comes to its end, whatever hdc and the phone do.
CallEnds == doing # "idle" /\ call.kind # "bridge" ~> doing = "idle"

\* main ends with the error when the mapping or the start fails ("HDC rport
\* failed", "HDC bridge provisioning failed").
FailingMainEnds == call.failed ~> doing = "idle"

\* "request workers must not outlive server shutdown" (HdcBridgeServer).
WorkersEndWithTheServer == \A w \in workers : w.service = up

\* "execute a testcase inside the installed HAP and offline-intake its report".
ReportIsOwn == \A i \in DOMAIN taken : taken[i].report.agent = taken[i].call
=============================================================================

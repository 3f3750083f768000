-------------------------- MODULE EvidencePipeline --------------------------
(***************************************************************************)
(* Recorded evidence from its planning to the verdicts it decides:         *)
(*   - people hold traces out, plan development recordings, write a        *)
(*     manifest from a reviewed draft or from the batch's exact inventory; *)
(*   - the recorder (record_precomputed_evidence.py) asks a paid model     *)
(*     about every job of the manifest, one request at a time, rewriting   *)
(*     its cache and its receipt, and is resumed after a crash;            *)
(*   - the batch replay (batch_replay_alignment.py) decides every trace of *)
(*     the batch from the cache as it is, without a network.               *)
(*                                                                         *)
(* Files on disk are cache (no entries: no file), receipt (NoReceipt: no   *)
(* file) and manifest; rec is the recorder process with what it holds in   *)
(* memory.                                                                 *)
(***************************************************************************)
EXTENDS RecordingPlan, AuditEnvelope

CONSTANTS
    Repositories,   \* the repositories w considered (see RecordingPlan), with the
                    \* contract, profile, visual and classify of their batch
    Replies(_),     \* the answers the model may give to a key
    MayBeHeldOut,   \* the traces that may be put into the held-out labels
    MaxAttempts,    \* the recorder's hard limit on requests per job
    Budgets,        \* the request budgets a session may be given
    MaxSessions,    \* bound: how many sessions are started
    NoPlan, NoManifest, NoReceipt, NoReport

ASSUME LimitsAssumption ==
    /\ MaxAttempts \in Nat \ {0}
    /\ MaxJobsPerShard \in Nat \ {0}
    /\ MaxSessions \in Nat
    /\ Budgets \subseteq Nat

\* A repository is finite, its batch is of its traces, its task DAG has been validated.
ASSUME RepositoriesAssumption ==
    \A r \in Repositories :
        /\ IsFiniteSet(DOMAIN r.frames) /\ r.batch \subseteq DOMAIN r.frames
        /\ \A t \in DOMAIN r.frames : /\ Len(r.frames[t]) \in Nat
                                      /\ DOMAIN r.frames[t] = 1 .. Len(r.frames[t])
        /\ IsFiniteSet(DOMAIN r.provenance) /\ IsFiniteSet(ExternalOccurrences(r.dag))
        /\ ValidDag(r.dag)

VARIABLES w, heldout, plan, manifest, cache, receipt, rec, started, report

pipelineVars == <<w, heldout, plan, manifest, cache, receipt, rec, started, report>>

Idle == [at |-> "idle"]

Jobs == Range(manifest)

-----------------------------------------------------------------------------
(* Planning.                                                               *)

\* External: a trace is put into the held-out labels, one and before anything is planned
\* or recorded (bound).
HoldOut(trace) ==
    /\ plan = NoPlan /\ manifest = NoManifest
    /\ heldout = {}
    /\ heldout' = {trace}
    /\ UNCHANGED <<w, plan, manifest, cache, receipt, rec, started, report>>

\* plan_development_recording_coverage and the frame resolver on its catalogue (bound:
\* planned before a manifest is written).
Plan ==
    LET eligible == Eligible(w, heldout)
        jobs == PlannedJobs(w, eligible)
    IN  /\ plan = NoPlan /\ manifest = NoManifest
        /\ AuditsStand(w, eligible)
        /\ plan' = [heldout |-> heldout, jobs |-> jobs, shards |-> _build_shards(jobs)]
        /\ UNCHANGED <<w, heldout, manifest, cache, receipt, rec, started, report>>

\* External: a reviewed draft written down as a recording manifest; a manifest has at
\* least one job.
WriteReviewedDraft(shard) ==
    /\ plan # NoPlan /\ shard \in plan.shards
    /\ manifest = NoManifest
    /\ manifest' = shard
    /\ UNCHANGED <<w, heldout, plan, cache, receipt, rec, started, report>>

\* The exact inventory of the batch; a manifest that is already there is left alone.
WriteInventory ==
    /\ manifest = NoManifest
    /\ build_exact_inventory(w) # <<>>
    /\ manifest' = build_exact_inventory(w)
    /\ UNCHANGED <<w, heldout, plan, cache, receipt, rec, started, report>>

-----------------------------------------------------------------------------
(* The recorder.                                                           *)

\* The requests that items stand for.
RequestsOf(items) ==
    LET sum[k \in 0 .. Len(items)] == IF k = 0 THEN 0 ELSE sum[k - 1] + items[k].attempts
    IN  sum[Len(items)]

\* _receipt_summary: over every item of every session.
_receipt_summary(sessions) ==
    LET items == FlattenSeq([s \in DOMAIN sessions |-> sessions[s].items])
        count(status) == Cardinality({k \in DOMAIN items : items[k].status = status})
    IN  [recorded |-> count("RECORDED"), cached |-> count("CACHED"), errors |-> count("ERROR"),
         requests |-> RequestsOf(items)]

\* What _load_receipt accepts: its identity fields are those of this manifest.
AcceptedReceipt(value, job_list) ==
    /\ value.manifest = job_list
    /\ value.status \in {"PARTIAL", "COMPLETE"}
    /\ \A s \in DOMAIN value.sessions :
        /\ value.sessions[s].worst <= value.sessions[s].budget
        /\ \A k \in DOMAIN value.sessions[s].items :
            LET item == value.sessions[s].items[k] IN
            /\ item.attempts <= MaxAttempts
            /\ (item.status = "CACHED") = (item.attempts = 0)
    /\ value.summary = _receipt_summary(value.sessions)

\* Mutant: the budget is compared with one request per job.
OneRequestEach(uncached, attempts) == uncached

WorstCase(uncached, attempts) == uncached * attempts

\* The entries a session starts with.
_load_existing_entries(resume, file) == IF resume THEN file ELSE [k \in {} |-> k]

ReceiptBase == [manifest |-> manifest, status |-> "PARTIAL", storage |-> [k \in {} |-> k],
                sessions |-> <<>>, summary |-> _receipt_summary(<<>>)]

\* run_recording up to its first job; a refused start changes nothing.
StartRecording(resume, attempts, budget) ==
    LET entries == _load_existing_entries(resume, cache)
        worst == WorstCase(Cardinality(Jobs \ DOMAIN entries), attempts)
        base == IF resume /\ receipt # NoReceipt THEN receipt ELSE ReceiptBase
    IN  /\ rec = Idle /\ started < MaxSessions
        /\ manifest # NoManifest
        /\ (~resume => DOMAIN cache = {} /\ receipt = NoReceipt)
        /\ DOMAIN entries \subseteq Jobs
        /\ worst <= budget
        /\ (resume /\ receipt # NoReceipt) => AcceptedReceipt(receipt, manifest)
        /\ rec' = [at |-> "job", pos |-> 1, tries |-> 0, attempts |-> attempts,
                   entries |-> entries, held |->
                        [base EXCEPT !.sessions = Append(@, [budget |-> budget, worst |-> worst,
                                                             items |-> <<>>])]]
        /\ started' = started + 1
        /\ UNCHANGED <<w, heldout, plan, manifest, cache, receipt, report>>

Job == manifest[rec.pos]

AddItem(held, status, attempts) ==
    [held EXCEPT !.sessions[Len(held.sessions)].items =
        Append(@, [key |-> Job, status |-> status, attempts |-> attempts])]

\* A job that is in the cache is not asked again.
TakeJob ==
    /\ rec.at = "job"
    /\ rec' = IF Job \in DOMAIN rec.entries
              THEN [rec EXCEPT !.at = "receipt", !.held = AddItem(@, "CACHED", 0)]
              ELSE [rec EXCEPT !.at = "asking", !.tries = 0]
    /\ UNCHANGED <<w, heldout, plan, manifest, cache, receipt, started, report>>

\* The model answers and the answer parses.
RequestAnswered(reply) ==
    /\ rec.at = "asking"
    /\ rec' = [rec EXCEPT !.at = "cache", !.tries = @ + 1,
                          !.entries = [k \in DOMAIN @ \cup {Job} |-> IF k = Job THEN reply ELSE @[k]]]
    /\ UNCHANGED <<w, heldout, plan, manifest, cache, receipt, started, report>>

\* Any exception of the request or of its parsing: tried again, or an ERROR item.
RequestFails ==
    /\ rec.at = "asking"
    /\ rec' = IF rec.tries + 1 < rec.attempts THEN [rec EXCEPT !.tries = @ + 1]
              ELSE [rec EXCEPT !.at = "receipt", !.tries = @ + 1,
                               !.held = AddItem(@, "ERROR", rec.tries + 1)]
    /\ UNCHANGED <<w, heldout, plan, manifest, cache, receipt, started, report>>

\* The cache is rewritten as a whole before the receipt names the answer.
WriteCache ==
    /\ rec.at = "cache"
    /\ cache' = rec.entries
    /\ rec' = [rec EXCEPT !.at = "receipt", !.held = AddItem(@, "RECORDED", rec.tries)]
    /\ UNCHANGED <<w, heldout, plan, manifest, receipt, started, report>>

Written(held) ==
    [held EXCEPT !.status = IF DOMAIN rec.entries = Jobs THEN "COMPLETE" ELSE "PARTIAL",
                 !.storage = rec.entries, !.summary = _receipt_summary(held.sessions)]

\* The receipt is rewritten after every job; after the last one the session is over.
WriteReceipt ==
    /\ rec.at = "receipt"
    /\ receipt' = Written(rec.held)
    /\ rec' = IF rec.pos = Len(manifest) THEN Idle
              ELSE [rec EXCEPT !.at = "job", !.pos = @ + 1, !.held = Written(@)]
    /\ UNCHANGED <<w, heldout, plan, manifest, cache, started, report>>

\* The process dies, or a write fails: what it holds in memory is gone.
Crash ==
    /\ rec # Idle
    /\ rec' = Idle
    /\ UNCHANGED <<w, heldout, plan, manifest, cache, receipt, started, report>>

-----------------------------------------------------------------------------
(* The replay.                                                             *)

Context == [answers |-> cache, bound |-> w.bound, visual |-> w.visual, classify |-> w.visual.on]

\* Every trace is development data and no held-out label names it; its sources are not
\* looked at.
_validate_development_lineage ==
    \A t \in w.batch : Development(w.provenance, t) /\ t \notin heldout

MacroStatus(trace) == acquire_and_evaluate_legacy_contract(w.dag, w.frames[trace], Context)

ReportOf(trace) ==
    aggregate_contract(w.contract, [c \in DOMAIN w.contract.criteria |-> MacroStatus(trace)], w.profile)

\* An evaluation is refused on an invalid profile, and when its success is not the
\* report's verdict (a capability the lowered contract still asks for).
Evaluates(trace) ==
    /\ w.profile.integrity # "INVALID"
    /\ (MacroStatus(trace) = "SATISFIED") = (ReportOf(trace).outcome = "PASS")

EnvelopesOf(t) == build_audit_report_envelope(w.contract, ReportOf(t), w.profile)

\* run_batch_replay, on a batch manifest that pins the cache as it is on disk (bound: not
\* while a session is rewriting it).
run_batch_replay ==
    /\ rec = Idle
    /\ DOMAIN cache # {}
    /\ report # NoReport => report.answers # cache
    /\ _validate_development_lineage
    /\ \A t \in w.batch : Evaluates(t) /\ EnvelopesOf(t) # {}
    /\ report' = [answers |-> cache,
                  rows |-> [t \in w.batch |-> CHOOSE e \in EnvelopesOf(t) : TRUE]]
    /\ UNCHANGED <<w, heldout, plan, manifest, cache, receipt, rec, started>>

-----------------------------------------------------------------------------
PipelineInit ==
    /\ w \in Repositories
    /\ heldout = {}
    /\ plan = NoPlan /\ manifest = NoManifest
    /\ cache = [k \in {} |-> k]
    /\ receipt = NoReceipt
    /\ rec = Idle /\ started = 0
    /\ report = NoReport

RecorderStep ==
    \/ TakeJob
    \/ (rec.at = "asking" /\ \E reply \in Replies(Job) : RequestAnswered(reply))
    \/ RequestFails
    \/ WriteCache
    \/ WriteReceipt

PipelineNext ==
    \/ \E t \in MayBeHeldOut : HoldOut(t)
    \/ Plan
    \/ plan # NoPlan /\ \E shard \in plan.shards : WriteReviewedDraft(shard)
    \/ WriteInventory
    \/ \E resume \in BOOLEAN, attempts \in 1 .. MaxAttempts, budget \in Budgets :
            StartRecording(resume, attempts, budget)
    \/ RecorderStep
    \/ Crash
    \/ run_batch_replay

\* Every request returns or times out, and the recorder goes on after it.
PipelineSpec == PipelineInit /\ [][PipelineNext]_pipelineVars /\ WF_pipelineVars(RecorderStep)

-----------------------------------------------------------------------------
(* Properties.                                                             *)

\* A trace passes exactly when its frames, with the answers the report was made from,
\* show a walk through the task DAG forwards in time that ends on the last frame:
\* evaluate_lowered_legacy_contract neither invents nor misses one.
PassIsWitnessed ==
    report # NoReport => \A t \in w.batch :
        (report.rows[t].verdict = "PASS")
            <=> Walks(w.dag, w.frames[t], [Context EXCEPT !.answers = report.answers])

\* Recording more never takes a PASS back: what a replay over a partial cache passed, a
\* replay over a larger one passes.
PassStands ==
    [][(report # NoReport /\ report' # report) =>
        \A t \in w.batch : report.rows[t].verdict = "PASS" => report'.rows[t].verdict = "PASS"]_pipelineVars

\* Recording more never turns a FAIL into a PASS: an answer that was not recorded yet
\* makes a run undecided, never failed (aggregation.py:78: missing capabilities "never
\* fabricate PASS or FAIL").
FailStands ==
    [][(report # NoReport /\ report' # report) =>
        \A t \in w.batch : report.rows[t].verdict = "FAIL" => report'.rows[t].verdict # "PASS"]_pipelineVars

\* Whatever crash, failed request or resume happened: the receipt on disk is one a
\* resumed session accepts, every answer it counts is in the cache, it is COMPLETE only
\* when the whole manifest is, and no session asked more than its budget.
ReceiptTellsTheCache ==
    receipt # NoReceipt =>
        /\ AcceptedReceipt(receipt, manifest)
        /\ \A k \in DOMAIN receipt.storage : k \in DOMAIN cache /\ cache[k] = receipt.storage[k]
        /\ receipt.status = "COMPLETE" => DOMAIN cache = Jobs
        /\ \A s \in DOMAIN receipt.sessions :
            LET session == receipt.sessions[s] IN
            /\ RequestsOf(session.items) <= session.budget
            /\ \A k \in DOMAIN session.items :
                session.items[k].status # "ERROR" => session.items[k].key \in DOMAIN cache

\* A paid answer is neither lost nor changed nor paid for again, across crashes and
\* resumed sessions.
AnswersAreKept ==
    [][/\ \A k \in DOMAIN cache : k \in DOMAIN cache' /\ cache'[k] = cache[k]
       /\ (rec # rec' /\ rec'.at = "asking") => manifest[rec'.pos] \notin DOMAIN cache]_pipelineVars

\* Every screenshot that is planned for was taken in a development trace that shares no
\* source with one held out when the plan was made, in whichever generation.
HeldoutImagesStayOut ==
    plan # NoPlan => \A job \in plan.jobs : \E t \in DOMAIN w.frames :
        /\ job.image \in Screens(w, {t}) /\ Development(w.provenance, t)
        /\ \A h \in plan.heldout :
            WithAncestors(w.provenance, {t}) \cap WithAncestors(w.provenance, {h}) = {}

\* A session that was started ends, whatever the model answers.
SessionEnds == rec # Idle ~> rec = Idle

=============================================================================

--------------------------- MODULE RecordingPlan ---------------------------
(***************************************************************************)
(* Which screenshots are put to a paid model, decided before anything is   *)
(* asked: the coverage planner for development traces                      *)
(* (recording_coverage_planner.py), the resolver that picks a frame by the *)
(* action before it (action_frame_resolver.py) and the exact inventory of  *)
(* a batch (build_phase3_exact_recording_manifest.py).                     *)
(*                                                                         *)
(* The repository w is a record: dag, the task DAG; frames and actions by  *)
(* trace; provenance, [current, original, parent] by registered identity;  *)
(* mapped, the traces with a contract binding; audits, the frame a         *)
(* selector audit chose by <<trace, node, kind>>; rules, the [node, kind,  *)
(* action] of the resolution policy; batch, the traces of the batch;       *)
(* bound, the <<node, kind>> pairs of its provider plan.                   *)
(***************************************************************************)
EXTENDS LegacyLowering, SequencesExt

CONSTANTS NoParent, MaxJobsPerShard

-----------------------------------------------------------------------------
(* Lineage.                                                                *)

\* The identities of ids and everything they were derived from; the code walks
\* the parents until nothing is added.
WithAncestors(provenance, ids) ==
    LET parent(t) == IF t \in DOMAIN provenance THEN provenance[t].parent ELSE NoParent
        closed[k \in 0 .. Cardinality(DOMAIN provenance)] ==
            IF k = 0 THEN ids
            ELSE closed[k - 1] \cup ({parent(t) : t \in closed[k - 1]} \ {NoParent})
    IN  closed[Cardinality(DOMAIN provenance)]

\* Mutant: only the held-out identities themselves are kept out, not their sources.
HeldoutAlone(provenance, heldout) == heldout

_expand_heldout_ancestors(provenance, heldout) == WithAncestors(provenance, heldout)

Development(provenance, trace) ==
    /\ trace \in DOMAIN provenance
    /\ provenance[trace].current = "development"
    /\ provenance[trace].original = "development"

ScreenshotsOf(frames) == {f \in DOMAIN frames : frames[f].image # NoImage}

\* The traces that may be planned for: development in both roles, nothing held out
\* among their sources, bound to a contract, and with a screenshot.
Eligible(w, heldout) ==
    LET kept == _expand_heldout_ancestors(w.provenance, heldout) IN
    {t \in DOMAIN w.frames :
        /\ Development(w.provenance, t)
        /\ WithAncestors(w.provenance, {t}) \cap kept = {}
        /\ t \in w.mapped
        /\ ScreenshotsOf(w.frames[t]) # {}}

-----------------------------------------------------------------------------
(* Candidates and the frame each is asked about.                           *)

\* The checkers that only a recorded answer can decide.
ExternalOccurrences(dag) ==
    {at \in UNION {{n} \X dag.checkers[n] : n \in Nodes(dag)} : at[2].kind \in {"ocr", "llm"}}

\* The frame a selector audit fixed, 0 when none did.
AuditedFrame(w, trace, node, checker) ==
    LET at == <<trace, node, checker.kind>> IN
    IF at \in DOMAIN w.audits THEN w.audits[at] ELSE 0

\* An audit whose screenshot is gone stops the planner.
AuditsStand(w, eligible) ==
    \A t \in eligible : \A occurrence \in ExternalOccurrences(w.dag) :
        AuditedFrame(w, t, occurrence[1], occurrence[2]) \in {0} \cup ScreenshotsOf(w.frames[t])

\* The screenshot after the one action the rule allows; 0 unless there is exactly one
\* of each.  Frame k of a trace is at position k + 1.
_resolve_candidate(w, trace, node, checker) ==
    LET allowed == {r.action : r \in {q \in w.rules : q.node = node /\ q.kind = checker.kind}}
        matches == {k \in DOMAIN w.actions[trace] : w.actions[trace][k] \in allowed}
    IN  IF Cardinality(matches) = 1 /\ Min(matches) + 1 \in ScreenshotsOf(w.frames[trace])
        THEN Min(matches) + 1 ELSE 0

SelectedFrame(w, trace, node, checker) ==
    LET audited == AuditedFrame(w, trace, node, checker) IN
    IF audited # 0 THEN audited ELSE _resolve_candidate(w, trace, node, checker)

\* One job per composite identity: occurrences that ask the same question of the same
\* picture are asked once.
PlannedJobs(w, eligible) ==
    {EvidenceCacheKey(at[2][2], w.frames[at[1]][SelectedFrame(w, at[1], at[2][1], at[2][2])].image) :
        at \in {pair \in eligible \X ExternalOccurrences(w.dag) :
                    SelectedFrame(w, pair[1], pair[2][1], pair[2][2]) # 0}}

\* The jobs of one provider kind, in the order of their ids (any fixed order here), cut
\* into drafts of at most MaxJobsPerShard.
_build_shards(jobs) ==
    LET chunks(ordered) ==
            {SubSeq(ordered, first, Min({first + MaxJobsPerShard - 1, Len(ordered)})) :
                first \in {k \in DOMAIN ordered : (k - 1) % MaxJobsPerShard = 0}}
    IN  UNION {chunks(SetToSeq({j \in jobs : j.kind = kind})) : kind \in {"ocr", "llm"}}

-----------------------------------------------------------------------------
(* The batch's own inventory: every screenshot of every trace, for every   *)
(* recorded checker of the contract.                                       *)

Screens(w, traces) == UNION {{w.frames[t][f].image : f \in ScreenshotsOf(w.frames[t])} : t \in traces}

build_exact_inventory(w) ==
    SetToSeq({EvidenceCacheKey(pair[1][2], pair[2]) :
                pair \in ExternalOccurrences(w.dag) \X Screens(w, w.batch)})

=============================================================================

------------------------- MODULE AssertionEvidence -------------------------
(***************************************************************************)
(* What one expected result of a test case is worth on one evidence        *)
(* record: app_test_agent/offline_verifier.py (the authoritative review),  *)
(* evidence.py (slices, windows, freshness) and app_verifier.py (the       *)
(* visual fallback, forbidden effects, the behavior verdict).              *)
(*                                                                         *)
(* An assertion is [type, valued, required, surface, after, fresh,         *)
(* needsRunner]: whether it has an expected value, names a surface, names  *)
(* an after_step, sets historical_match_not_sufficient.  A look is what a  *)
(* screen shows: [count, overlay, state, surface, forbidden, ...]: how     *)
(* often the expected text occurs, whether only in an input or clipboard   *)
(* overlay, the page state, whether the declared surface is proven.  A     *)
(* frame is [id, screen, offset, stable, after]; a record of evidence is   *)
(* [role, initial, frames, sufficient, changed, signals, reachedIn].       *)
(* Records of a completed execution have frames, so that every review is   *)
(* authoritative; the replay of the observations agrees with their         *)
(* aggregation, being the same function.                                   *)
(***************************************************************************)
EXTENDS TemporalAggregation, FiniteSets, SequencesExt

CONSTANT ExpectedOffsets   \* the delays of the observation policy

AppStatuses == {"SATISFIED", "VIOLATED", "UNKNOWN_EVIDENCE", "UNSUPPORTED"}
TextTypes == {"TEXT_VISIBLE", "TEXT_ABSENT"}

Shows(f) == f.screen.count > 0
SettledOn(f) == f.screen.state = "STABLE_SEMANTIC"
OnSurface(f) == f.screen.surface /\ SettledOn(f)
Ids(shots) == {shots[i].id : i \in DOMAIN shots}
SomeShow(shots) == \E i \in DOMAIN shots : Shows(shots[i])

-----------------------------------------------------------------------------
(* Which frames count.                                                     *)

\* The chosen positions of a sequence, in their order.
Selected(shots, chosen) ==
    LET upTo[i \in 0 .. Len(shots)] ==
            IF i = 0 THEN <<>>
            ELSE IF i \in chosen THEN Append(upTo[i - 1], shots[i]) ELSE upTo[i - 1]
    IN  upTo[Len(shots)]

\* The first frame that proves the surface, in a step that reached it.
SurfaceFrames(rec) ==
    {f \in ToSet(rec.frames) : OnSurface(f) /\ f.id \in rec.reachedIn}

\* From the frame that proves the surface on, settled pages only.
VerificationSurfaceSlice(rec) ==
    LET proofs == {f.id : f \in SurfaceFrames(rec)}
        late(f) == SettledOn(f) /\ \E p \in proofs : f.id >= p
    IN  Selected(rec.frames, {i \in DOMAIN rec.frames : late(rec.frames[i])})

BusinessSlice(a, rec) ==
    LET later(f) == f.after /\ (a.surface => OnSurface(f))
    IN  IF a.after THEN Selected(rec.frames, {i \in DOMAIN rec.frames : later(rec.frames[i])})
        ELSE IF a.fresh THEN <<>>
        ELSE rec.frames

Slice(a, rec) ==
    IF rec.role = "BUSINESS_EXECUTION" THEN BusinessSlice(a, rec)
    ELSE IF a.surface THEN VerificationSurfaceSlice(rec)
    ELSE rec.frames

\* app_verifier slices without regard to surfaces.
DirectSlice(a, rec) == Slice([a EXCEPT !.surface = FALSE], rec)

\* Mutant: a stable end stands for the whole window.
StableEnd(shots) ==
    \E i \in DOMAIN shots :
        shots[i].stable /\ \A j \in DOMAIN shots : shots[j].offset <= shots[i].offset

\* An absence is believed when every configured delay was observed and the
\* frame of the latest delay - the first such frame - is stable.  A frame stands
\* for a delay within max(100, min(500, 20%)) ms of it (evidence.py:166): offsets
\* number the delays, which are taken to be further apart than that, as are the
\* default 500, 1000 (schema.py:32) and the examples' 500, 1500, 3000.
NegativeSufficient(shots) ==
    /\ \A o \in ExpectedOffsets : \E i \in DOMAIN shots : shots[i].offset = o
    /\ \E i \in DOMAIN shots :
           /\ \A j \in DOMAIN shots : shots[j].offset <= shots[i].offset
           /\ \A j \in 1..i - 1 : shots[j].offset < shots[i].offset
           /\ shots[i].stable

\* The initial texts are those of the record itself: the verification record
\* has none.
InitialCount(rec) == IF rec.role = "BUSINESS_EXECUTION" THEN rec.initial ELSE 0

FreshnessProven(required, initial, counts) ==
    /\ \E c \in counts : c > 0
    /\ required => (initial = 0 \/ \E c \in counts : c > initial)

-----------------------------------------------------------------------------
(* Observations, their aggregation, and the review of an assertion.        *)

Single(status) == <<[status |-> status, state |-> "DEGRADED", revokes |-> FALSE]>>

FrameStatus(a, f, fresh) ==
    IF ~SettledOn(f) THEN "UNKNOWN_EVIDENCE"
    ELSE IF a.type = "TEXT_ABSENT" THEN IF Shows(f) THEN "VIOLATED" ELSE "SATISFIED"
    ELSE IF ~Shows(f) THEN "VIOLATED"
    ELSE IF f.screen.overlay \/ ~fresh THEN "UNKNOWN_EVIDENCE"
    ELSE "SATISFIED"

FrameObservation(a, f, fresh, sufficient, window) ==
    LET status == FrameStatus(a, f, fresh)
    IN  [status |-> IF sufficient /\ (Shows(f) \/ window) THEN status ELSE "UNKNOWN_EVIDENCE",
         state |-> f.screen.state, revokes |-> status = "VIOLATED"]

FrameObservations(a, rec, shots) ==
    LET fresh == FreshnessProven(a.fresh, InitialCount(rec),
                                 {shots[i].screen.count : i \in DOMAIN shots})
        window == NegativeSufficient(shots)
    IN  [i \in DOMAIN shots |-> FrameObservation(a, shots[i], fresh, rec.sufficient, window)]

\* Why a text assertion is not decided frame by frame, in the code's order.
SliceReason(a, rec, shots) ==
    IF ~a.valued THEN "no value"
    ELSE IF a.needsRunner /\ rec.role = "BUSINESS_EXECUTION" THEN "needs runner"
    ELSE IF a.fresh /\ ~a.after THEN "no boundary"
    ELSE IF a.fresh /\ InitialCount(rec) > 0 /\ ~SomeShow(shots) THEN "historical"
    ELSE IF shots = <<>> THEN "no source"
    ELSE "frames"

TextObservations(a, rec, shots) ==
    LET reason == SliceReason(a, rec, shots)
    IN  CASE reason = "no value" -> Single("UNSUPPORTED_CAPABILITY")
          [] reason \in {"needs runner", "historical"} -> Single("UNKNOWN_EVIDENCE")
          [] reason \in {"no boundary", "no source"} -> Single("SOURCE_EVIDENCE_MISSING")
          [] OTHER -> FrameObservations(a, rec, shots)

\* A state change or a success signal is one observation of the final state.
FinalState(a, rec) ==
    LET said == IF a.type = "STATE_CHANGED" THEN rec.changed ELSE rec.signals
    IN  IF ~rec.sufficient \/ said = "NONE" THEN "UNKNOWN_EVIDENCE"
        ELSE IF said = "TRUE" THEN "SATISFIED" ELSE "VIOLATED"

AppStatus(status) ==
    IF status \in {"SATISFIED", "VIOLATED"} THEN status
    ELSE IF status = "UNSUPPORTED_CAPABILITY" THEN "UNSUPPORTED" ELSE "UNKNOWN_EVIDENCE"

Criterion(a) == IF a.type = "TEXT_VISIBLE" THEN "EVENTUAL_STATE" ELSE "PERSISTENT_STATE"

\* [status, reason] before the legacy checker is heard.
CurrentReview(a, rec) ==
    LET shots == Slice(a, rec)
    IN  IF a.type \notin TextTypes
        THEN [status |-> FinalState(a, rec), reason |-> "final state"]
        ELSE [status |-> AppStatus(AggregateCriterion(Criterion(a), TextObservations(a, rec, shots))),
              reason |-> SliceReason(a, rec, shots)]

\* The legacy checker reads actions.json, which the runner's trace lacks.
LegacyHeard(a, rec) ==
    /\ rec.role = "BUSINESS_EXECUTION" /\ ~a.needsRunner
    /\ \/ a.type = "TEXT_VISIBLE" /\ a.valued
       \/ a.type = "STATE_CHANGED" /\ a.surface
    /\ (a.after /\ a.surface) => Slice(a, rec) # <<>>
    /\ a.fresh => a.after

OfflineReview(a, rec, legacy) ==
    LET current == CurrentReview(a, rec)
        insufficient == ~rec.sufficient \/ Slice(a, rec) = <<>>
    IN  IF legacy \notin {"SATISFIED", "VIOLATED"} \/ ~LegacyHeard(a, rec) THEN current
        ELSE IF current.status = "UNKNOWN_EVIDENCE" \/ insufficient
        THEN [status |-> legacy, reason |-> "legacy"]
        ELSE IF current.status \in {legacy, "UNSUPPORTED"} THEN current
        ELSE [status |-> "UNKNOWN_EVIDENCE", reason |-> "conflict"]

-----------------------------------------------------------------------------
(* The behavior verdict.                                                   *)

\* The visual verifier is asked only about texts, and not when the review
\* was held back for want of a boundary, of a source or of the runner.  The code
\* also names a text that stands only in an overlay; but no review says so, for
\* _assertion_reason passes on three details of the observations, and not that one.
VisualAllowed(a, review, vision) ==
    /\ vision # "OFF" /\ a.type = "TEXT_VISIBLE"
    /\ review.status \in {"VIOLATED", "UNKNOWN_EVIDENCE"}
    /\ review.reason \notin {"needs runner", "no boundary", "historical", "no source"}

\* How often a frame of the verification record is believed to show the text
\* when freshness is assessed: by its id, among the business frames first.
BelievedCount(f, business) ==
    IF f.id \in Ids(business.frames)
    THEN (CHOOSE g \in ToSet(business.frames) : g.id = f.id).screen.count
    ELSE f.screen.count

\* _evaluate_text_visible with the visual verifier enabled.
VisualStatus(a, rec, business, vision) ==
    LET shots == DirectSlice(a, rec)
        fresh == FreshnessProven(a.fresh, business.initial,
                                 {BelievedCount(f, business) : f \in ToSet(shots)})
    IN  IF SomeShow(shots)
        THEN IF a.fresh /\ ~fresh THEN "UNKNOWN_EVIDENCE" ELSE "SATISFIED"
        ELSE IF (a.fresh /\ business.initial > 0) \/ shots = <<>> THEN "UNKNOWN_EVIDENCE"
        ELSE CASE vision = "VISIBLE" -> "SATISFIED"
               [] vision = "NOT_VISIBLE" ->
                      IF NegativeSufficient(shots) THEN "VIOLATED" ELSE "UNKNOWN_EVIDENCE"
               [] OTHER -> "UNKNOWN_EVIDENCE"

\* rec is the record that is judged: the verification record once there is one.
AssertionStatus(a, rec, business, legacy, vision) ==
    LET review == OfflineReview(a, rec, legacy)
    IN  IF VisualAllowed(a, review, vision) THEN VisualStatus(a, rec, business, vision)
        ELSE review.status

\* Always judged by all frames of the business record.
ForbiddenStatus(business) ==
    IF \E f \in ToSet(business.frames) : f.screen.forbidden THEN "VIOLATED"
    ELSE IF NegativeSufficient(business.frames) THEN "SATISFIED" ELSE "UNKNOWN_EVIDENCE"

BehaviorOf(statuses) ==
    IF "UNSUPPORTED" \in statuses THEN "UNSUPPORTED"
    ELSE IF "VIOLATED" \in statuses THEN "VIOLATED"
    ELSE IF "UNKNOWN_EVIDENCE" \in statuses THEN "UNKNOWN_EVIDENCE"
    ELSE "SATISFIED"
=============================================================================

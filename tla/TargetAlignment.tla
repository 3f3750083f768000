--------------------------- MODULE TargetAlignment --------------------------
(***************************************************************************)
(* Where a click lands.  The runner's Decider names a target, the Grounder *)
(* returns a box, and runner/mobiagent/mobiagent.py weighs that box        *)
(* against the accessibility hierarchy before anything is dispatched; the  *)
(* step executor adds its own hit test to the record, and the Step Gate    *)
(* turns both into the target evidence (field target of StepGate's         *)
(* records).  A node is a rectangle with a label, a role and a parent;     *)
(* boxes are in device pixels, and every threshold is the code's.          *)
(***************************************************************************)
EXTENDS Integers, Sequences, FiniteSets, FiniteSetsExt

CONSTANTS Width, Height,   \* the click surface, here also the screenshot's size
          Palette,         \* the accessibility nodes a page may show
          Pages,           \* pages: sets of indices of Palette
          Elements,        \* target elements a Decider may name
          Boxes,           \* boxes a model may answer, in pixels of the image it saw
          Steps,           \* test steps: action family, labels of the target, role
          ButtonLabels     \* labels that read as a button ("Send", "Confirm", ...)

\* Only nodes with a proper rectangle are hit or clicked (mobiagent.py:2330-2337,
\* mobiagent_executor.py:3294-3308); a box is four numbers, in any order.
ASSUME PagesAssumption ==
    /\ Width \in Nat \ {0} /\ Height \in Nat \ {0}
    /\ Len(Palette) \in Nat /\ DOMAIN Palette = 1 .. Len(Palette)
    /\ \A i \in DOMAIN Palette :
         /\ Palette[i].bounds \in Int \X Int \X Int \X Int
         /\ Palette[i].bounds[1] < Palette[i].bounds[3] /\ Palette[i].bounds[2] < Palette[i].bounds[4]
    /\ Pages \subseteq SUBSET DOMAIN Palette
    /\ Boxes \subseteq Int \X Int \X Int \X Int

Bounds(i) == Palette[i].bounds
Area(b) == (b[3] - b[1]) * (b[4] - b[2])
Centre(b) == <<(b[1] + b[3]) \div 2, (b[2] + b[4]) \div 2>>
Inside(p, b) == b[1] <= p[1] /\ p[1] <= b[3] /\ b[2] <= p[2] /\ p[2] <= b[4]
Shared(a, b) == LET w == Min({a[3], b[3]}) - Max({a[1], b[1]})
                    h == Min({a[4], b[4]}) - Max({a[2], b[2]})
                IN  IF w > 0 /\ h > 0 THEN w * h ELSE 0
Square(n) == n * n
Distance2(p, q) == Square(p[1] - q[1]) + Square(p[2] - q[2])
Gap(n) == IF n < 0 THEN -n ELSE n

-----------------------------------------------------------------------------
(* Model pixels to device pixels: the model saw the image at half size, but *)
(* an axis with a value that fits only the full image is taken as native.   *)

_resized_pixel_axis_scale(values, extent) ==
    IF Max(values) > extent \div 2 + 5 /\ Max(values) <= extent + 5 THEN 1 ELSE 2
_clamp(n, high) == Max({0, Min({high, n})})
convert_qwen3_coordinates_to_absolute(b) ==
    LET sx == _resized_pixel_axis_scale({b[1], b[3]}, Width)
        sy == _resized_pixel_axis_scale({b[2], b[4]}, Height)
    IN  <<_clamp(b[1] * sx, Width - 1), _clamp(b[2] * sy, Height - 1),
          _clamp(b[3] * sx, Width - 1), _clamp(b[4] * sy, Height - 1)>>
_is_usable_click_bbox(b) == b[1] < b[3] /\ b[3] < Width /\ b[2] < b[4] /\ b[4] < Height
_bboxes_do_not_overlap(a, b) == Shared(a, b) = 0

-----------------------------------------------------------------------------
(* What the runner reads in a node. *)

_node_is_text_entry(i) == Palette[i].role \in {"editor", "editor_by_id"}
_node_is_low_information_container(i) ==
    Palette[i].label = "" /\ Palette[i].role = "generic"
_node_is_compact_clickable_control(i) ==
    LET w == Bounds(i)[3] - Bounds(i)[1]
        h == Bounds(i)[4] - Bounds(i)[2]
    IN  w \in 32 .. 260 /\ h \in 32 .. 260 /\ h <= 2 * w /\ w <= 2 * h

\* Full-screen ancestors are no grounding targets, nor nodes that begin off the screen.
_android_clickable_nodes(v) ==
    {i \in v.page : /\ Palette[i].clickable \/ _node_is_text_entry(i)
                    /\ Palette[i].enabled /\ Palette[i].visible
                    /\ 0 <= Bounds(i)[1] /\ 0 <= Bounds(i)[2]
                    /\ 100 * Area(Bounds(i)) <= 35 * Width * Height}

\* A Harmony node carries the labels of its ancestors, itself and its
\* descendants as context; an Android node carries none.
Above[i \in DOMAIN Palette] ==
    IF Palette[i].parent = 0 THEN {} ELSE {Palette[i].parent} \cup Above[Palette[i].parent]
Context(v, i) ==
    IF v.platform = "harmony" THEN {j \in v.page : j = i \/ j \in Above[i] \/ i \in Above[j]}
    ELSE {}
Named(t, i) == Palette[i].label = t.label
_target_semantic_score(v, t, i) ==
    (IF Named(t, i) THEN 4 ELSE 0) + 4 * Cardinality({j \in Context(v, i) : Named(t, j)})

_target_wants_text_entry(t, action) == action = "click_input" \/ (t.entry /\ ~t.button)

-----------------------------------------------------------------------------
(* align_click_to_xml_node: keep the model's point, snap it to a supported *)
(* node, or keep it and say why no node supports it.                       *)

Audit(point, snapped, selected, direct, basis, rejection, entry) ==
    [point |-> point, snapped |-> snapped, selected |-> selected, direct |-> direct,
     basis |-> basis, rejection |-> rejection, entry |-> entry, seen |-> "alignment"]
Kept(p, selected, direct, basis, entry) ==
    Audit(p, FALSE, selected, direct, basis, "", entry)
Rejected(p, direct, reason, entry) == Audit(p, FALSE, {}, direct, "", reason, entry)
Snapped(i, direct, basis, entry) ==
    Audit(Centre(Bounds(i)), TRUE, {i}, direct, basis, "", entry)
Only(S) == CHOOSE i \in S : TRUE

\* Among the text entries of the page, given the nodes the point is in.
AmongEntries(v, t, p, inputs, direct) ==
    LET hit   == direct \cap inputs
        meant == {i \in inputs : _target_semantic_score(v, t, i) >= 4}
    IN  IF Cardinality(meant) = 1 /\ hit # {} /\ meant \cap hit = {}
        THEN Snapped(Only(meant), direct, "semantic_text_entry_recovery", TRUE)
        ELSE IF Cardinality(hit) = 1 THEN Kept(p, hit, direct, "direct_text_entry_hit", TRUE)
        ELSE IF hit # {} THEN Rejected(p, direct, "ambiguous_text_entry_candidates", TRUE)
        ELSE IF Cardinality(inputs) = 1
        THEN IF meant = inputs
             THEN Snapped(Only(inputs), direct, "unique_text_entry_semantic_recovery", TRUE)
             ELSE Rejected(p, direct, "text_entry_candidate_semantics_insufficient", TRUE)
        ELSE Rejected(p, direct, IF direct # {} THEN "text_entry_target_rejects_non_input_node"
                                 ELSE "no_text_entry_candidate", TRUE)

Direct(nodes, p) == {i \in nodes : Inside(p, Bounds(i))}
AlignEntry(v, t, p, nodes) ==
    AmongEntries(v, t, p, {i \in nodes : _node_is_text_entry(i)}, Direct(nodes, p))

\* Geometry alone is weak: never to a node whose centre is outside the box.
_alignment_acceptance_reason(v, t, i, p, box) ==
    LET covers(percent) == 100 * Shared(box, Bounds(i)) >= percent * Area(Bounds(i))
        near(distance)  == Distance2(Centre(Bounds(i)), p) <= Square(distance)
        centred         == Inside(Centre(Bounds(i)), box)
    IN  \/ _target_semantic_score(v, t, i) > 0
        \/ /\ centred
           /\ _node_is_low_information_container(i)
           /\ \/ _node_is_compact_clickable_control(i) /\ covers(50) /\ near(96)
              \/ t.button /\ covers(45) /\ near(64)
              \/ covers(60) /\ near(48)
        \/ /\ centred
           /\ ~_node_is_low_information_container(i)
           /\ covers(45) /\ near(48)

\* Smaller nodes inside a hit one: the specific target of an inherited label.
Within(i, d) == /\ Inside(Centre(Bounds(i)), Bounds(d))
                /\ Area(Bounds(i)) < Area(Bounds(d))
HighestScored(v, t, S) ==
    {i \in S : \A j \in S : _target_semantic_score(v, t, j) <= _target_semantic_score(v, t, i)}
Smallest(S) == CHOOSE i \in S : \A j \in S : Area(Bounds(i)) <= Area(Bounds(j))

\* Among the nodes that are near the box and those the label supports.
AmongControls(v, t, p, box, direct, scored, candidates) ==
    LET inherited  == direct \cap scored # {} /\ ~\E i \in direct : Named(t, i)
        specific   == \E i \in scored \ direct, d \in direct : Within(i, d)
        compact    == \E i \in direct : _node_is_compact_clickable_control(i)
        finer      == {i \in candidates \ direct : /\ _target_semantic_score(v, t, i) >= 4
                                                   /\ \E d \in direct : Within(i, d)}
        best       == Smallest(HighestScored(v, t, candidates))
    IN  IF /\ direct # {}
           /\ \/ /\ direct \cap scored # {} \/ compact
                 /\ ~(inherited /\ specific)
              \/ scored = {} /\ ~t.button
        THEN Kept(p, {}, direct, "direct_supported_hit", FALSE)
        ELSE IF inherited
        THEN IF finer = {} THEN Rejected(p, direct, "semantic_descendant_candidate_missing", FALSE)
             ELSE IF Cardinality(HighestScored(v, t, finer)) > 1
             THEN Rejected(p, direct, "ambiguous_semantic_descendant_candidates", FALSE)
             ELSE Snapped(Only(HighestScored(v, t, finer)), direct,
                          "semantic_descendant_recovery", FALSE)
        ELSE IF candidates = {} THEN Rejected(p, direct, "no_candidate", FALSE)
        ELSE IF _alignment_acceptance_reason(v, t, best, p, box)
        THEN Snapped(best, direct, "accepted_candidate", FALSE)
        ELSE Audit(p, FALSE, {best}, direct, "",
                   IF _node_is_low_information_container(best)
                   THEN "geometry_only_rejects_low_information_container"
                   ELSE "weak_geometry_without_semantics", FALSE)

AlignControl(v, t, p, box, nodes) ==
    AmongControls(v, t, p, box, Direct(nodes, p),
                  {i \in nodes : _target_semantic_score(v, t, i) > 0},
                  {i \in nodes : \/ Shared(box, Bounds(i)) > 0
                                 \/ Distance2(Centre(Bounds(i)), p) <= Square(64)})

align_click_to_xml_node(v, t, p, box, action) ==
    IF _target_wants_text_entry(t, action)
    THEN AlignEntry(v, t, p, _android_clickable_nodes(v))
    ELSE AlignControl(v, t, p, box, _android_clickable_nodes(v))

\* Mutant: only one family of rejections is refused.
BlocksControlsOnly(a) == ~a.entry /\ a.rejection \notin {"", "no_candidate"}

\* The reasons a click is refused for; "no_candidate" refuses a text entry only.
_alignment_rejection_blocks_click(a) ==
    \/ a.rejection = "no_candidate" /\ a.entry
    \/ a.rejection \notin {"", "no_candidate"}

\* An unlabelled create button found by its pixels: compact, red, low right, unique.
VisualButtons(v, t) ==
    {i \in _android_clickable_nodes(v) :
        /\ _node_is_compact_clickable_control(i) /\ Palette[i].red
        /\ LET c == Centre(Bounds(i))
           IN  IF t.bottom THEN 78 * Height <= 100 * c[2] /\ 100 * c[2] <= 99 * Height
               ELSE /\ 65 * Width <= 100 * c[1]
                    /\ 35 * Height <= 100 * c[2] /\ 100 * c[2] <= 88 * Height}
find_visual_floating_action_button(v, t) == IF t.create THEN VisualButtons(v, t) ELSE {}

-----------------------------------------------------------------------------
(* The runner's handlers: what they do with a decision, before the device. *)

NoAudit == Audit(<<>>, FALSE, {}, {}, "", "", FALSE)
Refused(reason) ==
    [dispatched |-> FALSE, type |-> "none", point |-> <<>>, box |-> <<>>, source |-> reason,
     xml |-> NoAudit, clicked |-> FALSE]
Clicked(type, point, box, source, xml) ==
    [dispatched |-> TRUE, type |-> type, point |-> point, box |-> box, source |-> source,
     xml |-> xml, clicked |-> FALSE]

_bbox_has_alignment_support(v, t, box) ==
    /\ v.hierarchy /\ _is_usable_click_bbox(box)
    /\ \E a \in {align_click_to_xml_node(v, t, Centre(box), box, "click")} :
          a.basis # "" /\ ~_alignment_rejection_blocks_click(a)

\* Disjoint boxes of Decider and Grounder: the hierarchy decides, or nobody.
ArbitratedBox(v, t, decided, grounded) ==
    LET forDecided  == _bbox_has_alignment_support(v, t, decided)
        forGrounded == _bbox_has_alignment_support(v, t, grounded)
    IN  IF ~_is_usable_click_bbox(decided) THEN grounded
        ELSE IF ~_bboxes_do_not_overlap(decided, grounded) THEN grounded
        ELSE IF ~v.hierarchy THEN decided
        ELSE IF forGrounded /\ ~forDecided THEN grounded
        ELSE IF forDecided /\ ~forGrounded THEN decided
        ELSE <<>>

\* Mutant: the guard sees the model's point, before the alignment moves it.
GuardsTheModelPoint(v, t, box, identity) ==
    LET a == align_click_to_xml_node(v, t, Centre(box), box, "click")
    IN  IF identity # <<>> /\ ~Inside(Centre(box), identity) THEN Refused("identity_target_not_hit")
        ELSE IF _alignment_rejection_blocks_click(a) THEN Refused(a.rejection)
        ELSE Clicked("click", a.point, box, "box", a)

\* The guard sees the aligned point; the visual recovery may still move it.
ClickBox(v, t, box, identity) ==
    LET a      == align_click_to_xml_node(v, t, Centre(box), box, "click")
        button == find_visual_floating_action_button(v, t)
    IN  IF identity # <<>> /\ ~Inside(a.point, identity) THEN Refused("identity_target_not_hit")
        ELSE IF ~_alignment_rejection_blocks_click(a)
        THEN Clicked("click", a.point, box, "box", a)
        ELSE IF Cardinality(button) = 1
        THEN LET i == Only(button)
             IN  Clicked("click", Centre(Bounds(i)), box, "visual",
                         Snapped(i, a.direct, "visual_floating_action_button_recovery", a.entry))
        ELSE Refused(a.rejection)

\* Coordinates of the Decider are dispatched as they are, and leave no point
\* and no bounds in the record.
handle_click_action(v, t, decision, box, identity) ==
    IF decision.kind = "coords" THEN Clicked("click", <<>>, <<>>, "coords", NoAudit)
    ELSE IF box = <<>> THEN Refused("ambiguous_decider_grounder_disagreement")
    ELSE ClickBox(v, t, box, identity)

handle_click_input_action(v, t, decision) ==
    LET native == convert_qwen3_coordinates_to_absolute(decision.box)
        p == Centre(native)
        box == IF decision.kind = "coords" THEN <<p[1], p[2], p[1], p[2]>> ELSE native
        a == align_click_to_xml_node(v, t, p, box, "click_input")
    IN  IF _alignment_rejection_blocks_click(a) THEN Refused(a.rejection)
        ELSE Clicked("click_input", a.point, box, "box", a)

-----------------------------------------------------------------------------
(* The step executor: exact targets of the hierarchy, and its own hit test. *)

_bounds_contains(outer, inner) == /\ outer[1] <= inner[1] /\ outer[2] <= inner[2]
                                  /\ outer[3] >= inner[3] /\ outer[4] >= inner[4]
_smallest_clickable_container(v, b) ==
    LET height(c) == c[4] - c[2]
        around == {i \in v.page : /\ Palette[i].clickable /\ Palette[i].visible
                                  /\ _bounds_contains(Bounds(i), b)
                                  /\ Area(Bounds(i)) <= 60 * Max({1, Area(b)})
                                  /\ height(Bounds(i)) <= Max({260, 5 * height(b)})}
    IN  IF around = {} THEN {} ELSE {Smallest(around)}

\* The labelled nodes of the frame, each with the node a click on it would hit.
ExactMatches(v, texts) ==
    {[text |-> i, node |-> CHOOSE n \in _smallest_clickable_container(v, Bounds(i)) : TRUE] :
        i \in {j \in v.page : /\ Palette[j].label \in texts
                              /\ Palette[j].visible /\ Palette[j].enabled
                              /\ _smallest_clickable_container(v, Bounds(j)) # {}}}
    \cup
    {[text |-> i, node |-> i] :
        i \in {j \in v.page : /\ Palette[j].label \in texts
                              /\ Palette[j].visible /\ Palette[j].enabled
                              /\ _smallest_clickable_container(v, Bounds(j)) = {}}}

_resolve_exact_text_target(v, texts) ==
    LET matches   == {m.node : m \in ExactMatches(v, texts)}
        clickable == {m \in ExactMatches(v, texts) : Palette[m.node].clickable}
    IN  IF matches = {} THEN {}
        ELSE IF Cardinality({Bounds(i) : i \in matches}) = 1 THEN {Only(matches)}
        ELSE IF Cardinality(clickable) = 1 THEN {Only(clickable).node}
        ELSE {}

\* An editable leaf before an input bar, a labelled field before an unlabelled one.
_resolve_target(v, texts) ==
    LET role(i)  == CASE Palette[i].role = "editor" -> 4
                      [] Palette[i].role \in {"editor_by_id", "content"} -> 2
                      [] OTHER -> 0
        text(i)  == IF Palette[i].label \in texts THEN 2 ELSE 0
        score(i) == role(i) + text(i) + IF Palette[i].enabled THEN 1 ELSE 0
        inputs   == {i \in v.page : Palette[i].visible /\ role(i) > 0}
        labelled == {i \in inputs : text(i) > 0}
        eligible == IF labelled # {} THEN labelled ELSE inputs
    IN  {i \in eligible : \A j \in eligible : score(j) <= score(i)}

_resolve_hierarchy_control_target(v, s) ==
    IF s.family = "INPUT" THEN _resolve_target(v, s.texts)
    ELSE IF s.identity \/ s.button THEN _resolve_exact_text_target(v, s.texts) ELSE {}

\* A repeated label: the one the Decider's own box covers most, or is nearest to.
_resolve_decider_aligned_text_target(v, s, decision) ==
    LET b == [k \in 1 .. 4 |-> 2 * decision.box[k]]
        nodes == {m.node : m \in ExactMatches(v, s.texts)}
        away(i) == Gap(Centre(b)[1] - Centre(Bounds(i))[1])
                   + Gap(Centre(b)[2] - Centre(Bounds(i))[2])
        better(i, j) == \/ Shared(b, Bounds(i)) > Shared(b, Bounds(j))
                        \/ /\ Shared(b, Bounds(i)) = Shared(b, Bounds(j))
                           /\ away(i) < away(j)
        best == {i \in nodes : ~\E j \in nodes : better(j, i)}
        wide == Max({160, (b[3] - b[1]) + (b[4] - b[2])})
    IN  IF decision.kind # "bbox" \/ b[3] <= b[1] \/ b[4] <= b[2] THEN {}
        ELSE {i \in best : Shared(b, Bounds(i)) > 0 \/ away(i) <= wide}

_dispatch_hierarchy_target(s, i) ==
    [dispatched |-> TRUE, type |-> IF s.family = "INPUT" THEN "click_input" ELSE "click",
     point |-> Centre(Bounds(i)), box |-> Bounds(i), source |-> "hierarchy", clicked |-> TRUE,
     xml |-> [Audit(Centre(Bounds(i)), FALSE, {i}, {i}, "hierarchy", "", FALSE)
              EXCEPT !.seen = "frame"]]

_node_supports_runtime_hit(i) == /\ Palette[i].visible /\ Palette[i].enabled
                                 /\ Palette[i].label # "" \/ Palette[i].clickable
                                    \/ Palette[i].role # "text"
FrameHitTest(v, r) ==
    LET direct == {i \in v.page : _node_supports_runtime_hit(i) /\ Inside(r.point, Bounds(i))}
        inputs == {i \in direct : _node_is_text_entry(i)}
        found(selected, basis, rejection) ==
            [Audit(r.point, FALSE, selected, direct, basis, rejection, FALSE) EXCEPT !.seen = "frame"]
    IN  IF direct = {} THEN found({}, "hierarchy_hit_test", "outside_target")
        ELSE IF r.type = "click" THEN found({Smallest(direct)}, "direct_supported_hit", "")
        ELSE IF Cardinality(inputs) = 1 THEN found(inputs, "direct_text_entry_hit", "")
        ELSE found({Smallest(direct)}, "hierarchy_hit_test",
                   IF inputs = {} THEN "text_entry_target_rejects_non_input_node"
                   ELSE "ambiguous_text_entry_candidates")
_xml_hit_test_result_is_decisive(a) ==
    \/ a.rejection # "" \/ (a.snapped /\ a.selected # {})
    \/ a.direct # {} \/ a.basis = "direct_supported_hit"
_attach_hierarchy_hit_test_evidence(v, r) ==
    IF r.point = <<>> \/ _xml_hit_test_result_is_decisive(r.xml) THEN r
    ELSE [r EXCEPT !.xml = FrameHitTest(v, r)]

-----------------------------------------------------------------------------
(* The Step Gate on the record (step_gate.py, _target_conformance).  A node *)
(* of the runner's audit shows its class, text and context; a node of the  *)
(* frame also its identifier and its window.                               *)

_node_is_text_input(a, i) ==
    Palette[i].role = "editor" \/ (a.seen = "frame" /\ Palette[i].role = "editor_by_id")
_node_is_button(v, a, i) ==
    \/ Palette[i].label \in ButtonLabels
    \/ a.seen = "alignment" /\ \E j \in Context(v, i) : Palette[j].label \in ButtonLabels
HitNodes(a) == IF a.snapped /\ a.selected # {} THEN a.selected ELSE a.direct
_target_role_mismatch(v, s, r) ==
    LET hits  == HitNodes(r.xml)
        input == \E i \in hits : _node_is_text_input(r.xml, i)
    IN  /\ hits # {}
        /\ \/ /\ s.family = "CLICK" /\ s.button
              /\ input /\ ~\E i \in hits : _node_is_button(v, r.xml, i)
           \/ s.family = "INPUT" /\ r.type = "click_input" /\ ~input
\* Only the frames of Harmony name the bundle of their window.
_hit_is_external_overlay(v, r) ==
    v.platform = "harmony" /\ r.xml.seen = "frame" /\ \E i \in HitNodes(r.xml) : Palette[i].foreign

_xml_hit_test_conformance(v, s, r) ==
    IF r.xml = NoAudit THEN "none"
    ELSE IF _target_role_mismatch(v, s, r) THEN "NON_CONFORMANT"
    ELSE IF _hit_is_external_overlay(v, r) THEN "OVERLAY_BLOCKED"
    ELSE IF r.xml.rejection \in {"wrong_target", "outside_target", "weak_geometry_without_semantics",
                                 "geometry_only_rejects_low_information_container"}
    THEN "NON_CONFORMANT"
    ELSE IF \/ r.xml.direct # {} \/ r.xml.basis = "direct_supported_hit"
            \/ r.xml.snapped /\ r.xml.basis # ""
    THEN "CONFORMANT"
    ELSE "none"

\* The dispatched point against the regions the record proves.
_click_dispatch_conformance(r) ==
    LET shown == {Bounds(i) : i \in r.xml.selected \cup r.xml.direct}
        proved == IF shown # {} THEN shown ELSE IF r.clicked THEN {r.box} ELSE {}
    IN  IF r.point = <<>> \/ proved = {} THEN "none"
        ELSE IF \E b \in proved : Inside(r.point, b) THEN "CONFORMANT" ELSE "NON_CONFORMANT"

_target_conformance(v, s, r) ==
    LET xml == _xml_hit_test_conformance(v, s, r)
        dispatch == _click_dispatch_conformance(r)
    IN  IF r.type = "click_input" /\ s.family = "INPUT" /\ xml = "none" THEN "UNKNOWN"
        ELSE IF xml \in {"OVERLAY_BLOCKED", "NON_CONFORMANT"} THEN xml
        ELSE IF dispatch = "NON_CONFORMANT" THEN "NON_CONFORMANT"
        ELSE IF (xml = "CONFORMANT" \/ r.clicked) /\ dispatch = "CONFORMANT" THEN "CONFORMANT"
        ELSE "UNKNOWN"

-----------------------------------------------------------------------------
(* One step of a test case: decided, dispatched or refused, then judged.   *)

VARIABLES view,      \* the page: its nodes, the platform, whether it was dumped at all
          asked,     \* the step, the Decider's element and answer, the Grounder's box
          record,    \* the action record, or the refusal
          target     \* target evidence of the Step Gate

alignmentVars == <<view, asked, record, target>>

Undispatched == Refused("pending")
Answers == {[kind |-> "bbox", box |-> b] : b \in Boxes} \cup
             {[kind |-> "coords", box |-> b] : b \in Boxes}

AlignmentInit ==
    /\ view \in [page : Pages, platform : {"android", "harmony"}, hierarchy : BOOLEAN]
    /\ ~view.hierarchy => view.page = {}
    /\ asked \in [step : Steps, element : Elements, decision : Answers,
                  grounded : Boxes, hook : BOOLEAN]
    /\ asked.decision.kind = "coords" \/ asked.step.family = "INPUT" \/ asked.hook
          => asked.grounded = asked.decision.box
    /\ record = Undispatched
    /\ target = "PENDING"

\* The identity target is computed for a click on an identity-critical element.
IdentityTarget(v, s) ==
    IF s.family = "CLICK" /\ s.identity /\ _resolve_exact_text_target(v, s.texts) # {}
    THEN Bounds(Only(_resolve_exact_text_target(v, s.texts))) ELSE <<>>

\* Only an injected Decider lets the hierarchy take the place of its decision.
HierarchyTargets ==
    IF ~asked.hook \/ ~asked.step.identity THEN {}
    ELSE IF _resolve_hierarchy_control_target(view, asked.step) # {}
    THEN _resolve_hierarchy_control_target(view, asked.step)
    ELSE IF asked.step.family = "CLICK"
    THEN _resolve_decider_aligned_text_target(view, asked.step, asked.decision)
    ELSE {}

DispatchHierarchyTarget ==
    /\ record = Undispatched
    /\ \E i \in HierarchyTargets : record' = _dispatch_hierarchy_target(asked.step, i)
    /\ UNCHANGED <<view, asked, target>>

DispatchRunnerDecision ==
    /\ record = Undispatched
    /\ HierarchyTargets = {}
    /\ \E decided \in {convert_qwen3_coordinates_to_absolute(asked.decision.box)},
          grounded \in {convert_qwen3_coordinates_to_absolute(asked.grounded)} :
       \E box \in {IF asked.hook THEN decided
                  ELSE ArbitratedBox(view, asked.element, decided, grounded)} :
       \E sent \in {IF asked.step.family = "INPUT"
                    THEN handle_click_input_action(view, asked.element, asked.decision)
                    ELSE handle_click_action(view, asked.element, asked.decision, box,
                                             IdentityTarget(view, asked.step))} :
          record' = _attach_hierarchy_hit_test_evidence(view, sent)
    /\ UNCHANGED <<view, asked, target>>

Judge ==
    /\ record.dispatched /\ target = "PENDING"
    /\ target' = _target_conformance(view, asked.step, record)
    /\ UNCHANGED <<view, asked, record>>

AlignmentNext == DispatchHierarchyTarget \/ DispatchRunnerDecision \/ Judge
AlignmentSpec == AlignmentInit /\ [][AlignmentNext]_alignmentVars

-----------------------------------------------------------------------------
(* Properties.                                                             *)

ByRunner == record.dispatched /\ ~record.clicked
Native(b) == convert_qwen3_coordinates_to_absolute(b)
ModelPoint == Centre(record.box)

\* Text is typed only where the hierarchy shows an enabled, visible editor: no
\* geometry, label or missing dump may send it anywhere else
\* (_node_is_text_entry, "a common source of unsafe clicks").
TextGoesIntoAnEditor ==
    record.type = "click_input" /\ ByRunner =>
        \E i \in view.page : /\ _node_is_text_entry(i) /\ Palette[i].enabled /\ Palette[i].visible
                             /\ Inside(record.point, Bounds(i))

\* A click is moved off the model's point only to a node whose label or context
\* names the target, to one centred in the model's box, or to the only red
\* create button: an adjacent control never hijacks it (mobiagent.py:2662-2667).
NoHijack ==
    record.type = "click" /\ ByRunner /\ record.point # <<>> /\ record.point # ModelPoint =>
        \E i \in _android_clickable_nodes(view) :
            /\ record.point = Centre(Bounds(i))
            /\ \/ _target_semantic_score(view, asked.element, i) > 0
               \/ Inside(record.point, record.box)
               \/ asked.element.create /\ VisualButtons(view, asked.element) = {i}

\* When Decider and Grounder point at disjoint places of a dumped page, the click
\* that follows rests on the hierarchy, and the other box does not.
DisagreementNeedsTheHierarchy ==
    LET decided == Native(asked.decision.box)
        grounded == Native(asked.grounded)
        other == IF record.box = decided THEN grounded ELSE decided
    IN  /\ record.type = "click" /\ ByRunner /\ asked.decision.kind = "bbox" /\ ~asked.hook
        /\ view.hierarchy /\ _is_usable_click_bbox(decided)
        /\ _bboxes_do_not_overlap(decided, grounded)
        => /\ record.box \in {decided, grounded}
           /\ record.xml.basis # "" /\ record.xml.rejection = ""
           /\ ~_bbox_has_alignment_support(view, asked.element, other)

\* A conversation or contact the hierarchy names once is what gets clicked: a box
\* never dispatches a click outside it, except to the only red create button
\* (_identity_target_guard).
IdentityIsHit ==
    record.type = "click" /\ ByRunner /\ record.box # <<>>
    /\ IdentityTarget(view, asked.step) # <<>> /\ record.source # "visual" =>
        Inside(record.point, IdentityTarget(view, asked.step))

\* The gate's target evidence is not more than the runner had: a CONFORMANT click
\* landed in a node the page shows, and the alignment of a box that is more than a
\* pixel wide and high had not rejected it (step_gate.py:928-935).
Wide(b) == b[1] + 1 < b[3] /\ b[2] + 1 < b[4]
ConformantClicksWereAligned ==
    target = "CONFORMANT" =>
        /\ \E i \in view.page : Inside(record.point, Bounds(i)) /\ Palette[i].visible
        /\ Wide(record.box) => record.xml.rejection = ""

\* What step_gate.py:928-935 says of every box: a node the alignment kept only as
\* diagnostic evidence is not a conformant target.
DiagnosticHitIsNoTarget == target = "CONFORMANT" => record.xml.rejection = ""
=============================================================================

-------------------------- MODULE MCHumanGroundTruth ------------------------
(* Model-checking instance of RunCollection and BlindReview.  A behaviour   *)
(* follows one of the two protocols, chosen at the start, so that the state *)
(* spaces add up and do not multiply.                                       *)
EXTENDS RunCollection, BlindReview, TLC

CONSTANTS r1, r2, alice, bob, carol

VARIABLE protocol    \* "single operator" or "double blind"

vars == << protocol, collectionVars, reviewVars >>

\* Two runs: a realism run whose review the cohort needs, or two smokes.
MCStudies ==
  { (r1 :> "realism" @@ r2 :> "cohort"), (r1 :> "pilot" @@ r2 :> "cross_app") }
MCTaskOrdinal == (r1 :> 1 @@ r2 :> 2)

\* Tasks alternate the direction between the two apps.
Item(i, initial, target) ==
  [id |-> i, ordinal |-> i, bound |-> TRUE, unseen |-> TRUE,
   initial |-> initial, target |-> target, min |-> 1, max |-> 1]
Direction(i) ==
  IF i % 2 = 1 THEN Item(i, "taobao", "xiaohongshu") ELSE Item(i, "xiaohongshu", "taobao")

Edition(tasks, hash) ==
  [frozen |-> TRUE, runner |-> hash, apps |-> "installed", tasks |-> tasks,
   order |-> [i \in DOMAIN tasks |-> i], predecessor |-> "RETIRED", pilot |-> "FAIL"]

TasksOf(s) ==
  CASE s = "pilot"     -> [i \in 1..2 |-> Item(i, "taobao", "taobao")]
    [] s = "cross_app" -> [i \in 1..3 |-> Item(i, "xiaohongshu", "taobao")]
    [] s = "realism"   -> [i \in 1..2 |-> Item(i, "taobao", "xiaohongshu")]
    [] s = "cohort"    -> [i \in 1..12 |-> Direction(i)]

\* The second edition is frozen for the edited runner; the realism pilot has
\* one edition, of its single task.
MCManifests ==
  [s \in {"pilot", "cross_app", "realism", "cohort"} |->
     IF s = "realism" THEN << Edition(SubSeq(TasksOf(s), 1, 1), 1) >>
     ELSE << Edition(TasksOf(s), 1), Edition(TasksOf(s), 2) >>]

MCProbes == [s \in {"cross_app", "realism", "cohort"} |->
               [mode |-> "READ_ONLY", status |-> "PASS", apps |-> "installed"]]

Act(type, app) == [type |-> type, app |-> app]
MCActions ==
  (r1 :> << Act("input", None), Act("click", None), Act("open_app", "xiaohongshu"), Act("done", None) >> @@
   r2 :> << Act("input", None), Act("click", None), Act("open_app", "taobao"), Act("done", None) >>)

\* A live review with every frame and note, a failed one, an undecided one,
\* one of the wrong code, one without the rubric, one written from the trace
\* alone and one without a query.
Seen(verdict, codes) ==
  [verdict |-> verdict, codes |-> codes, live |-> TRUE, acknowledged |-> TRUE, rubric |-> "every item",
   source |-> {1, 2}, target |-> {4}, slots |-> 1, query |-> "every slot"]
MCReviews ==
  { Seen("PASS", "NONE"), Seen("FAIL", "code"), Seen("AMBIGUOUS", "none given"), Seen("PASS", "code"),
    [Seen("PASS", "NONE") EXCEPT !.rubric = "some item"],
    [Seen("PASS", "NONE") EXCEPT !.live = FALSE],
    [Seen("FAIL", "code") EXCEPT !.query = "empty", !.slots = 0, !.target = {}],
    [Seen("FAIL", "code") EXCEPT !.source = {9}] }

Arm(a, permission) ==
  [trace |-> 0, identity |-> a, permission |-> permission, verdict |-> "FAIL", interventions |-> 1]
MCLiveArms ==
  { [a \in Arms |-> Arm(a, "none")],
    [a \in Arms |-> Arm(a, IF a = "guardrail" THEN "clicked" ELSE "none")],
    [a \in Arms |-> Arm("baseline", "none")] }

MCSymmetry == Permutations({alice, bob, carol})
MCRuns == {r1, r2}
MCReviewers == {alice, bob, carol}

Init ==
  /\ CollectionInit /\ ReviewInit
  /\ protocol \in {"single operator", "double blind"}
  /\ protocol = "double blind" => study = (r1 :> "realism" @@ r2 :> "cohort")
  /\ protocol = "single operator" => live = [a \in Arms |-> Arm(a, "none")]

SingleOperator == protocol = "single operator" /\ CollectionNext /\ UNCHANGED << protocol, reviewVars >>
DoubleBlind == protocol = "double blind" /\ ReviewNext /\ UNCHANGED << protocol, collectionVars >>

Next == SingleOperator \/ DoubleBlind

Spec == Init /\ [][Next]_vars
=============================================================================

----------------------- MODULE HumanGroundTruthProofs -----------------------
(***************************************************************************)
(* Proofs about the two protocols by which people say what a run did: the  *)
(* phase-5 studies, for every number of runs, editions of a manifest,      *)
(* receipts, ground truths and reports; and the blind review, for every    *)
(* number of reviewers and reruns.                                         *)
(*                                                                         *)
(* A ground truth is frozen long after the run it is about.  What makes it *)
(* one of a finished run is what the accepted receipt it is frozen over    *)
(* says of the run's record (ReceiptInv), and that no collector still runs *)
(* into a directory that has a record (DiskInv).                           *)
(*                                                                         *)
(* The property of the blind review speaks of the report only; it is       *)
(* inductive together with what the finalizer holds while it writes        *)
(* (FinalizerInv), which rests on the sealed mapping being that of the     *)
(* packages (SealInv).                                                     *)
(***************************************************************************)
EXTENDS RunCollection, BlindReview, FiniteSetTheorems, TLAPS

\* A directory is collected into once: a record lies in a directory, and not
\* while its collector runs.
Folder(d, c) ==
  /\ d.manifest # None => d.dir # FALSE
  /\ c.pc = "running" => d.manifest = None

DiskInv ==
  /\ DOMAIN disk = Runs /\ DOMAIN collector = Runs
  /\ \A r \in Runs : Folder(disk[r], collector[r])

StudyInv == study \in [Runs -> StudyNames]

\* What an accepted receipt keeps saying of its run.
Finished(x) ==
  /\ x.run \in Runs /\ x.study = study[x.run]
  /\ disk[x.run].manifest # None
  /\ disk[x.run].trace = "complete"
  /\ disk[x.run].manifest.status = "RUN_COMPLETE"
  /\ disk[x.run].manifest.edition = x.edition
  /\ disk[x.run].manifest.runner = Manifests[x.study][x.edition].runner

ReceiptInv == \A x \in receipts : Accepted(x) => Finished(x)

TruthInv ==
  \A g \in truths :
    \E x \in receipts : /\ Accepted(x) /\ x.run = g.run /\ x.study = g.study
                        /\ x.tree = g.tree /\ x.edition = g.edition

FinishedInv == StudyInv /\ DiskInv /\ ReceiptInv /\ TruthInv

\* A row of a comparison whose truth has been opened.
Row(w) ==
  /\ w.full # None /\ w.mobiflow # None
  /\ w.truth \in truths /\ w.truth.run = w.run /\ w.truth.task = w.task
  /\ w.truth.study \in {"realism", "cohort"}

ComparisonInv ==
  comparison # None =>
    /\ \A w \in comparison.rows : Row(w)
    /\ comparison.pc \in {"mobiflow", "truth"} => comparison.row.full # None
    /\ comparison.pc = "truth" => comparison.row.mobiflow # None

ReportInv == (\A w \in reports : Row(w)) /\ ComparisonInv

PilotReviewed == \E g \in truths : g.study = "realism" /\ g.verdict = "FAIL"

PilotInv ==
  /\ pilot # None => pilot \in truths /\ pilot.study = "realism"
  /\ \A r \in Runs : study[r] = "cohort" /\ (collector[r].pc # "idle" \/ disk[r].dir) => PilotReviewed

-----------------------------------------------------------------------------

LEMMA FinishedInvInit == CollectionInit => FinishedInv
<1> SUFFICES ASSUME CollectionInit PROVE FinishedInv
  OBVIOUS
<1>1. StudyInv
  BY StudiesAssumption DEF CollectionInit, StudyInv
<1>2. DiskInv
  BY DEF CollectionInit, DiskInv, Folder
<1> QED
  BY <1>1, <1>2 DEF CollectionInit, FinishedInv, ReceiptInv, TruthInv

\* The files of a directory stay what they were wherever it has a record.
LEMMA FinishedStays ==
  ASSUME FinishedInv, study' = study, receipts' = receipts,
         \A r \in Runs : disk[r].manifest # None => disk'[r] = disk[r]
  PROVE  StudyInv' /\ ReceiptInv'
<1>1. StudyInv'
  BY DEF FinishedInv, StudyInv
<1>2. ASSUME NEW x \in receipts, Accepted(x) PROVE Finished(x)'
  BY <1>2 DEF FinishedInv, ReceiptInv, Finished
<1> QED
  BY <1>1, <1>2 DEF ReceiptInv, Accepted

\* An accepted receipt is of a run whose record and trace are whole, under
\* the edition and the runner its intake found in force.
LEMMA IngestFinds ==
  ASSUME FinishedInv, NEW r \in Runs, Ingest(r), Accepted(Receipt(r))
  PROVE  Finished(Receipt(r))
<1> DEFINE m == disk[r].manifest
<1>1. m.status = "RUN_COMPLETE"
  BY DEF Accepted, Receipt
<1>2. disk[r].trace = "complete" /\ m # None /\ Bound(r, m)
  BY <1>1 DEF Ingest, TraceAudited, Readable
<1>3. /\ Receipt(r).run = r /\ Receipt(r).study = study[r]
      /\ Receipt(r).edition = edition[study[r]]
  BY DEF Receipt
<1>4. study[r] \in StudyNames
  BY DEF FinishedInv, StudyInv
<1>5. m.edition = edition[study[r]] /\ m.runner = Manifests[study[r]][edition[study[r]]].runner
  <2>1. CASE study[r] = "pilot"
    BY <1>2, <2>1 DEF Bound, PilotBinding, Manifest
  <2>2. CASE study[r] = "cross_app"
    BY <1>2, <2>2 DEF Bound, CrossAppBinding, Manifest
  <2>3. CASE study[r] = "realism"
    BY <1>2, <2>3 DEF Bound, RealismBinding, Manifest
  <2>4. CASE study[r] = "cohort"
    BY <1>2, <2>4 DEF Bound, CohortBinding, Manifest
  <2> QED
    BY <1>4, <2>1, <2>2, <2>3, <2>4 DEF StudyNames
<1> QED
  BY <1>1, <1>2, <1>3, <1>5 DEF Finished

\* Only the collector that runs writes into a directory, and only into one
\* that has no record yet.
LEMMA CollectorStep ==
  ASSUME FinishedInv, NEW r \in Runs,
         \/ Preflight(r) \/ StartRun(r) \/ FinishRun(r) \/ InterruptRun(r) \/ CrashRun(r)
  PROVE  /\ DiskInv'
         /\ \A q \in Runs : disk[q].manifest # None => disk'[q] = disk[q]
         /\ UNCHANGED << study, receipts, truths >>
<1>0. DiskInv
  BY DEF FinishedInv
<1>1. CASE Preflight(r)
  <2>1. collector' = [collector EXCEPT ![r] =
                        [pc |-> "ready", edition |-> edition[study[r]], runner |-> runner]]
    BY <1>1 DEF Preflight
  <2>2. Folder(disk[r], [pc |-> "ready", edition |-> edition[study[r]], runner |-> runner])
    BY <1>0 DEF DiskInv, Folder
  <2> QED
    BY <1>0, <1>1, <2>1, <2>2 DEF Preflight, DiskInv
<1>2. CASE StartRun(r)
  <2> DEFINE c == [pc |-> "running", edition |-> collector[r].edition, runner |-> collector[r].runner]
             d == [dir |-> TRUE, manifest |-> None, trace |-> "none"]
  <2>1. collector' = [collector EXCEPT ![r] = c] /\ disk' = [disk EXCEPT ![r] = d]
    BY <1>2 DEF StartRun
  <2>2. Folder(d, c)
    BY DEF Folder
  <2>3. disk[r].manifest = None
    BY <1>0, <1>2 DEF StartRun, Fresh, DiskInv, Folder
  <2> HIDE DEF c, d
  <2>4. DiskInv'
    BY <1>0, <2>1, <2>2 DEF DiskInv
  <2>5. \A q \in Runs : disk[q].manifest # None => disk'[q] = disk[q]
    BY <1>0, <2>1, <2>3 DEF DiskInv
  <2> QED
    BY <1>2, <2>4, <2>5 DEF StartRun
<1>3. ASSUME NEW x, NEW left, collector[r].pc = "running",
             disk' = [disk EXCEPT ![r] = [dir |-> TRUE, trace |-> left, manifest |-> x]],
             collector' = [collector EXCEPT ![r] = [pc |-> "idle"]]
      PROVE  DiskInv' /\ \A q \in Runs : disk[q].manifest # None => disk'[q] = disk[q]
  <2>1. disk[r].manifest = None
    BY <1>0, <1>3 DEF DiskInv, Folder
  <2>2. Folder([dir |-> TRUE, trace |-> left, manifest |-> x], [pc |-> "idle"])
    BY DEF Folder
  <2> QED
    BY <1>0, <1>3, <2>1, <2>2 DEF DiskInv
<1>4. CASE FinishRun(r)
  BY <1>3, <1>4 DEF FinishRun
<1>5. CASE InterruptRun(r)
  BY <1>3, <1>5 DEF InterruptRun
<1>6. CASE CrashRun(r)
  <2>1. collector' = [collector EXCEPT ![r] = [pc |-> "idle"]]
    BY <1>6 DEF CrashRun
  <2>2. CASE disk' = disk
    <3>1. Folder(disk[r], [pc |-> "idle"])
      BY <1>0 DEF DiskInv, Folder
    <3> QED
      BY <1>0, <1>6, <2>1, <2>2, <3>1 DEF CrashRun, DiskInv
  <2>3. CASE disk' # disk
    <3>1. PICK left : disk' = [disk EXCEPT ![r] = [dir |-> TRUE, manifest |-> None, trace |-> left]]
      BY <1>6, <2>3 DEF CrashRun
    <3>2. collector[r].pc = "running"
      BY <1>6, <2>3 DEF CrashRun
    <3> QED
      BY <1>3, <1>6, <2>1, <3>1, <3>2 DEF CrashRun
  <2> QED
    BY <2>2, <2>3
<1> QED
  BY <1>1, <1>2, <1>4, <1>5, <1>6 DEF FinishRun, InterruptRun, CrashRun

LEMMA DiskStays ==
  ASSUME FinishedInv, UNCHANGED << disk, collector >>
  PROVE  DiskInv' /\ \A r \in Runs : disk[r].manifest # None => disk'[r] = disk[r]
  BY DEF FinishedInv, DiskInv

LEMMA FinishedInvNext == FinishedInv /\ [CollectionNext]_collectionVars => FinishedInv'
<1> SUFFICES ASSUME FinishedInv, [CollectionNext]_collectionVars PROVE FinishedInv'
  OBVIOUS
<1>1. ASSUME UNCHANGED << study, receipts, truths >>, DiskInv',
             \A r \in Runs : disk[r].manifest # None => disk'[r] = disk[r]
      PROVE  FinishedInv'
  <2>1. StudyInv' /\ ReceiptInv'
    BY <1>1, FinishedStays
  <2>2. TruthInv'
    BY <1>1 DEF FinishedInv, TruthInv, Accepted
  <2> QED
    BY <1>1, <2>1, <2>2 DEF FinishedInv
<1>2. CASE UNCHANGED << study, receipts, truths, disk, collector >>
  BY <1>1, <1>2, DiskStays
<1>3. CASE \E r \in Runs : Preflight(r) \/ StartRun(r) \/ FinishRun(r) \/ InterruptRun(r) \/ CrashRun(r)
  BY <1>1, <1>3, CollectorStep
<1>4. ASSUME NEW r \in Runs, Ingest(r) PROVE FinishedInv'
  <2>1. /\ receipts' = receipts \cup {Receipt(r)}
        /\ UNCHANGED << study, truths, disk, collector >>
    BY <1>4 DEF Ingest
  <2>2. StudyInv' /\ DiskInv'
    BY <2>1, DiskStays DEF FinishedInv, StudyInv
  <2>3. ASSUME NEW x \in receipts', Accepted(x) PROVE Finished(x)
    <3>1. CASE x = Receipt(r)
      BY <1>4, <2>3, <3>1, IngestFinds
    <3>2. CASE x \in receipts
      BY <2>3, <3>2 DEF FinishedInv, ReceiptInv
    <3> QED
      BY <2>1, <3>1, <3>2
  <2>4. ReceiptInv'
    BY <2>1, <2>3 DEF ReceiptInv, Finished, Accepted
  <2>5. TruthInv'
    BY <2>1 DEF FinishedInv, TruthInv, Accepted
  <2> QED
    BY <2>2, <2>4, <2>5 DEF FinishedInv
<1>5. ASSUME NEW x \in receipts, NEW inside \in BOOLEAN, RecordTruth(x, inside) PROVE FinishedInv'
  <2>1. UNCHANGED << study, receipts, disk, collector >> /\ Accepted(x)
    BY <1>5 DEF RecordTruth
  <2>2. PICK v \in Reviews :
          truths' = truths \cup {[run |-> x.run, study |-> x.study, task |-> x.task,
                                  edition |-> x.edition, tree |-> x.tree, verdict |-> v.verdict]}
    BY <1>5 DEF RecordTruth
  <2>3. TruthInv'
    BY <2>1, <2>2 DEF FinishedInv, TruthInv, Accepted
  <2>4. StudyInv' /\ ReceiptInv' /\ DiskInv'
    BY <2>1, DiskStays, FinishedStays
  <2> QED
    BY <2>3, <2>4 DEF FinishedInv
<1>6. CASE \E r \in Runs : TouchRun(r) \/ Refreeze(study[r])
  BY <1>2, <1>6 DEF TouchRun, Refreeze
<1>7. CASE FreezePilot \/ EditRunner \/ \E cases \in CommandLines : StartComparison(cases)
  BY <1>2, <1>7 DEF FreezePilot, EditRunner, StartComparison
<1>8. CASE DecideFull \/ DecideMobiflow \/ OpenTruth \/ WriteReport \/ AbortComparison
  BY <1>2, <1>8 DEF DecideFull, DecideMobiflow, OpenTruth, WriteReport, AbortComparison
<1> QED
  BY <1>2, <1>3, <1>4, <1>5, <1>6, <1>7, <1>8 DEF CollectionNext, collectionVars

LEMMA FinishedInvImplies == FinishedInv => TruthIsOfAFinishedRun
<1> SUFFICES ASSUME FinishedInv, NEW g \in truths
             PROVE  /\ \E x \in receipts : Accepted(x) /\ x.run = g.run /\ x.tree = g.tree /\ x.edition = g.edition
                    /\ disk[g.run].trace = "complete"
                    /\ disk[g.run].manifest.status = "RUN_COMPLETE"
                    /\ disk[g.run].manifest.edition = g.edition
                    /\ disk[g.run].manifest.runner = Manifests[g.study][g.edition].runner
  BY DEF TruthIsOfAFinishedRun
<1>1. PICK x \in receipts : /\ Accepted(x) /\ x.run = g.run /\ x.study = g.study
                           /\ x.tree = g.tree /\ x.edition = g.edition
  BY DEF FinishedInv, TruthInv
<1>2. Finished(x)
  BY <1>1 DEF FinishedInv, ReceiptInv
<1> QED
  BY <1>1, <1>2 DEF Finished

\* However collectors die, manifests are re-frozen and directories change, a
\* ground truth is of a run that ended well under the edition and the runner
\* it was frozen for (the collectors, phase5_intake.py, the ground-truth
\* builders).
THEOREM TruthTheorem == CollectionSpec => []TruthIsOfAFinishedRun
<1>1. FinishedInv /\ [CollectionNext]_collectionVars => FinishedInv'
  BY FinishedInvNext
<1> QED
  BY <1>1, FinishedInvInit, FinishedInvImplies, PTL DEF CollectionSpec

-----------------------------------------------------------------------------
(* Reports.                                                                *)

LEMMA VerdictIsAnswer ==
  ASSUME NEW statuses PROVE FullVerdict(statuses) # None
  BY NoneAssumption DEF FullVerdict

LEMMA AnswersAreVerdicts ==
  ASSUME NEW r, NEW v \in FullVerdicts(r) PROVE v # None
  BY VerdictIsAnswer DEF FullVerdicts

\* A row stays one as long as no ground truth goes.
LEMMA RowsStay ==
  ASSUME truths \subseteq truths', NEW w, Row(w)
  PROVE  Row(w)'
  BY DEF Row

LEMMA ReportInvInit == CollectionInit => ReportInv
  BY DEF CollectionInit, ReportInv, ComparisonInv

LEMMA ReportsStay ==
  ASSUME ReportInv, truths \subseteq truths', UNCHANGED << comparison, reports >>
  PROVE  ReportInv'
<1>1. \A w : Row(w) => Row(w)'
  BY RowsStay
<1>2. ComparisonInv'
  BY <1>1 DEF ReportInv, ComparisonInv
<1> QED
  BY <1>1, <1>2 DEF ReportInv

LEMMA ReportInvNext == ReportInv /\ [CollectionNext]_collectionVars => ReportInv'
<1> SUFFICES ASSUME ReportInv, [CollectionNext]_collectionVars PROVE ReportInv'
  OBVIOUS
<1>1. CASE UNCHANGED << truths, comparison, reports >>
  BY <1>1, ReportsStay
<1>2. CASE \E r \in Runs : Preflight(r) \/ StartRun(r) \/ FinishRun(r) \/ InterruptRun(r) \/ CrashRun(r)
  BY <1>1, <1>2 DEF Preflight, StartRun, FinishRun, InterruptRun, CrashRun
<1>3. CASE \E r \in Runs : Ingest(r) \/ TouchRun(r) \/ Refreeze(study[r])
  BY <1>1, <1>3 DEF Ingest, TouchRun, Refreeze
<1>4. CASE FreezePilot \/ EditRunner
  BY <1>1, <1>4 DEF FreezePilot, EditRunner
<1>5. ASSUME NEW x \in receipts, NEW inside \in BOOLEAN, RecordTruth(x, inside) PROVE ReportInv'
  <2>1. truths \subseteq truths' /\ UNCHANGED << comparison, reports >>
    BY <1>5 DEF RecordTruth
  <2> QED
    BY <2>1, ReportsStay
<1>a. truths' = truths => \A w : Row(w) => Row(w)'
  BY RowsStay
<1>6. ASSUME NEW cases \in CommandLines, StartComparison(cases) PROVE ReportInv'
  <2>1. UNCHANGED << truths, reports >>
    BY <1>6 DEF StartComparison
  <2>2. comparison' = [todo |-> cases, pc |-> "full", row |-> None, rows |-> {}]
    BY <1>6 DEF StartComparison
  <2>3. ComparisonInv'
    BY <2>2 DEF ComparisonInv
  <2> QED
    BY <1>a, <2>1, <2>3 DEF ReportInv
<1>7. CASE DecideFull
  <2>1. PICK v \in FullVerdicts(Case.run) :
          comparison' = [todo |-> comparison.todo, pc |-> "mobiflow", rows |-> comparison.rows,
             row |-> [run |-> Case.run, task |-> disk[Case.run].manifest.task, full |-> v]]
    BY <1>7 DEF DecideFull
  <2>2. v # None
    BY <2>1, AnswersAreVerdicts
  <2>3. UNCHANGED << truths, reports >> /\ \A w \in comparison.rows : Row(w)
    BY <1>7 DEF DecideFull, ReportInv, ComparisonInv
  <2>4. ComparisonInv'
    BY <1>a, <2>1, <2>2, <2>3 DEF ComparisonInv
  <2> QED
    BY <1>a, <2>3, <2>4 DEF ReportInv
<1>8. CASE DecideMobiflow
  <2>1. PICK v \in {"PASS", "FAIL"} :
          comparison' = [todo |-> comparison.todo, pc |-> "truth", rows |-> comparison.rows,
             row |-> [run |-> comparison.row.run, task |-> comparison.row.task,
                      full |-> comparison.row.full, mobiflow |-> v]]
    BY <1>8 DEF DecideMobiflow
  <2>2. v # None /\ comparison.row.full # None
    BY <1>8, NoneAssumption DEF DecideMobiflow, ReportInv, ComparisonInv
  <2>3. UNCHANGED << truths, reports >> /\ \A w \in comparison.rows : Row(w)
    BY <1>8 DEF DecideMobiflow, ReportInv, ComparisonInv
  <2>4. ComparisonInv'
    BY <1>a, <2>1, <2>2, <2>3 DEF ComparisonInv
  <2> QED
    BY <1>a, <2>3, <2>4 DEF ReportInv
<1>9. CASE OpenTruth
  <2> DEFINE row == [run |-> comparison.row.run, task |-> comparison.row.task,
                     full |-> comparison.row.full, mobiflow |-> comparison.row.mobiflow,
                     truth |-> Case.truth]
  <2>1. /\ comparison'.rows = comparison.rows \cup {row}
        /\ comparison'.pc \notin {"mobiflow", "truth"}
    BY <1>9 DEF OpenTruth
  <2>2. Row(row)
    BY <1>9 DEF OpenTruth, FrozenTruthOk, Row, ReportInv, ComparisonInv
  <2>3. UNCHANGED << truths, reports >> /\ \A w \in comparison.rows : Row(w)
    BY <1>9 DEF OpenTruth, ReportInv, ComparisonInv
  <2> HIDE DEF row
  <2>4. ComparisonInv'
    BY <1>a, <2>1, <2>2, <2>3 DEF ComparisonInv
  <2> QED
    BY <1>a, <2>3, <2>4 DEF ReportInv
<1>10. CASE WriteReport
  <2>1. truths' = truths /\ comparison' = None /\ \A w \in reports' : Row(w)
    BY <1>10 DEF WriteReport, ReportInv, ComparisonInv
  <2> QED
    BY <1>a, <2>1 DEF ReportInv, ComparisonInv
<1>11. CASE AbortComparison
  <2>1. UNCHANGED << truths, reports >> /\ comparison' = None
    BY <1>11 DEF AbortComparison
  <2> QED
    BY <1>a, <2>1 DEF ReportInv, ComparisonInv
<1> QED
  BY <1>1, <1>2, <1>3, <1>4, <1>5, <1>6, <1>7, <1>8, <1>9, <1>10, <1>11 DEF CollectionNext, collectionVars

LEMMA ReportInvImplies == ReportInv /\ TruthIsOfAFinishedRun => ReportsAreOfReviewedRuns
  BY DEF ReportInv, Row, TruthIsOfAFinishedRun, ReportsAreOfReviewedRuns

\* Whatever receipts and ground truths are mixed up on the command line, a
\* reported row joins the decisions on a run with the verdict on the same run
\* and task, and the run had ended well (phase5_full_verifier_comparison.py).
THEOREM ReportsTheorem == CollectionSpec => []ReportsAreOfReviewedRuns
<1>1. ReportInv /\ [CollectionNext]_collectionVars => ReportInv'
  BY ReportInvNext
<1>2. CollectionSpec => []ReportInv
  BY <1>1, ReportInvInit, PTL DEF CollectionSpec
<1> QED
  BY <1>2, TruthTheorem, ReportInvImplies, PTL

-----------------------------------------------------------------------------
(* The order of the studies, and what is written once.                     *)

LEMMA PilotInvInit == CollectionInit => PilotInv
  BY DEF CollectionInit, PilotInv

LEMMA PilotInvNext == FinishedInv /\ PilotInv /\ [CollectionNext]_collectionVars => PilotInv'
<1> SUFFICES ASSUME FinishedInv, PilotInv, [CollectionNext]_collectionVars PROVE PilotInv'
  OBVIOUS
<1>0. truths \subseteq truths' => (PilotReviewed => PilotReviewed')
  BY DEF PilotReviewed
<1>1. ASSUME truths \subseteq truths', UNCHANGED << study, pilot, disk, collector >>
      PROVE  PilotInv'
  BY <1>0, <1>1 DEF PilotInv
<1>2. ASSUME NEW r \in Runs, Preflight(r) PROVE PilotInv'
  <2>1. /\ UNCHANGED << study, pilot, truths, disk >>
        /\ \A q \in Runs \ {r} : collector'[q] = collector[q]
    BY <1>2 DEF Preflight, FinishedInv, DiskInv
  <2>2. study[r] = "cohort" => PilotReviewed
    BY <1>2 DEF Preflight, PilotPreflight, CrossAppPreflight, RealismPreflight, CohortPreflight,
                PilotTruthOk, PilotInv, PilotReviewed
  <2> QED
    BY <1>0, <2>1, <2>2 DEF PilotInv
<1>3. ASSUME NEW r \in Runs, StartRun(r) PROVE PilotInv'
  <2>1. /\ UNCHANGED << study, pilot, truths >> /\ collector[r].pc # "idle"
        /\ \A q \in Runs \ {r} : collector'[q] = collector[q] /\ disk'[q] = disk[q]
    BY <1>3 DEF StartRun, FinishedInv, DiskInv
  <2> QED
    BY <1>0, <2>1 DEF PilotInv
<1>4. ASSUME NEW r \in Runs, FinishRun(r) \/ InterruptRun(r) \/ CrashRun(r) PROVE PilotInv'
  <2>1. UNCHANGED << study, pilot, truths >> /\ collector[r].pc # "idle"
    BY <1>4 DEF FinishRun, InterruptRun, CrashRun
  <2>2. \A q \in Runs \ {r} : collector'[q] = collector[q] /\ disk'[q] = disk[q]
    BY <1>4 DEF FinishRun, InterruptRun, CrashRun, FinishedInv, DiskInv
  <2> QED
    BY <1>0, <2>1, <2>2 DEF PilotInv
<1>5. CASE \E r \in Runs : Ingest(r) \/ TouchRun(r) \/ Refreeze(study[r])
  BY <1>1, <1>5 DEF Ingest, TouchRun, Refreeze
<1>6. CASE \E x \in receipts, inside \in BOOLEAN : RecordTruth(x, inside)
  BY <1>1, <1>6 DEF RecordTruth
<1>7. CASE FreezePilot
  BY <1>0, <1>7 DEF FreezePilot, PilotInv
<1>8. CASE EditRunner \/ (\E cases \in CommandLines : StartComparison(cases)) \/ UNCHANGED collectionVars
  BY <1>1, <1>8 DEF EditRunner, StartComparison, collectionVars
<1>9. CASE DecideFull \/ DecideMobiflow \/ OpenTruth \/ WriteReport \/ AbortComparison
  BY <1>1, <1>9 DEF DecideFull, DecideMobiflow, OpenTruth, WriteReport, AbortComparison
<1> QED
  BY <1>2, <1>3, <1>4, <1>5, <1>6, <1>7, <1>8, <1>9 DEF CollectionNext

\* Nothing of the final cohort is collected before the realism pilot was
\* reviewed and found to FAIL, in whatever order the tools are called.
THEOREM CohortTheorem == CollectionSpec => []CohortFollowsThePilot
<1>1. CollectionSpec => []FinishedInv
  BY FinishedInvInit, FinishedInvNext, PTL DEF CollectionSpec
<1>2. CollectionSpec => []PilotInv
  BY <1>1, PilotInvInit, PilotInvNext, PTL DEF CollectionSpec
<1>3. PilotInv => CohortFollowsThePilot
  BY DEF PilotInv, PilotReviewed, CohortFollowsThePilot
<1> QED
  BY <1>2, <1>3, PTL

\* No step of any tool, killed or repeated, rewrites a receipt, a ground
\* truth, a reported row or the record of a finished run.
THEOREM WrittenOnceTheorem == CollectionSpec => ArtefactsAreWrittenOnce
<1>1. ASSUME FinishedInv, [CollectionNext]_collectionVars
      PROVE  [/\ receipts \subseteq receipts' /\ truths \subseteq truths' /\ reports \subseteq reports'
              /\ \A r \in Runs : disk[r].manifest # None => disk'[r].manifest = disk[r].manifest]_collectionVars
  <2>1. CASE \E r \in Runs : Preflight(r) \/ StartRun(r) \/ FinishRun(r) \/ InterruptRun(r) \/ CrashRun(r)
    <3>1. UNCHANGED reports
      BY <2>1 DEF Preflight, StartRun, FinishRun, InterruptRun, CrashRun
    <3> QED
      BY <1>1, <2>1, <3>1, CollectorStep
  <2>2. CASE \E r \in Runs : Ingest(r) \/ TouchRun(r) \/ Refreeze(study[r])
    BY <2>2 DEF Ingest, TouchRun, Refreeze
  <2>3. CASE (\E x \in receipts, inside \in BOOLEAN : RecordTruth(x, inside)) \/ FreezePilot \/ EditRunner
    BY <2>3 DEF RecordTruth, FreezePilot, EditRunner
  <2>4. CASE \E cases \in CommandLines : StartComparison(cases)
    BY <2>4 DEF StartComparison
  <2>5. CASE DecideFull \/ DecideMobiflow \/ OpenTruth \/ WriteReport \/ AbortComparison
    BY <2>5 DEF DecideFull, DecideMobiflow, OpenTruth, WriteReport, AbortComparison
  <2>6. CASE UNCHANGED collectionVars
    BY <2>6
  <2> QED
    BY <1>1, <2>1, <2>2, <2>3, <2>4, <2>5, <2>6 DEF CollectionNext
<1>2. CollectionSpec => []FinishedInv
  BY FinishedInvInit, FinishedInvNext, PTL DEF CollectionSpec
<1> QED
  BY <1>1, <1>2, PTL DEF CollectionSpec, ArtefactsAreWrittenOnce

-----------------------------------------------------------------------------
(* The blind review. *)

Response == [reviewer : Reviewers, verdict : [Arms -> Verdicts]]

TypeInv ==
  /\ live \in [Arms -> ArmDirectory]
  /\ responses \in [Sets -> Response \cup {Nobody}]
  /\ packed \in [Arms -> Nat \cup {Nobody}]
  /\ mapping \in [Arms -> Nat \cup {Nobody}]
  /\ DOMAIN adjudications = Arms

SealInv ==
  /\ preparer \in {"idle", "baseline", "guardrail", "mapping", "stopped", "done"}
  /\ preparer # "done" => mapping = NoArm
  /\ preparer = "done" => mapping = packed

\* What a comparison says of an arm was earned by the sets handed in.
Earned(c) ==
  /\ ResponsesComplete
  /\ \A a \in Arms : /\ AdjudicationOk(Adjudication(a))
                     /\ c.arm[a].human = Adjudication(a).verdict
                     /\ c.arm[a].trace = packed[a] /\ packed[a] \in Nat

Written(a) == adjudications[a] = Adjudication(a)

Writing ==
  \E left \in SUBSET Arms : \E r :
    /\ finalizer = [step |-> "writing", left |-> left, report |-> r]
    /\ Earned(r.case)
    /\ \A a \in Arms \ left : Written(a)

FinalizerInv ==
  \/ finalizer = [step |-> "idle"] /\ report = Nobody
  \/ preparer = "done" /\ mapping # NoArm /\ Writing /\ report = Nobody
  \/ preparer = "done" /\ mapping # NoArm /\ finalizer = [step |-> "done"]
     /\ Earned(report.case) /\ \A a \in Arms : Written(a)
  \/ preparer = "done" /\ mapping # NoArm /\ finalizer = [step |-> "stopped"] /\ report = Nobody

ReviewInv == TypeInv /\ SealInv /\ FinalizerInv

-----------------------------------------------------------------------------

\* Two reviewer hashes that make a set of two are different.
LEMMA TwoAreDifferent ==
  ASSUME NEW x, NEW y, Cardinality({x, y}) = 2
  PROVE  x # y
<1>1. SUFFICES ASSUME x = y PROVE FALSE
  OBVIOUS
<1>2. {x, y} = {x}
  BY <1>1
<1> QED
  BY <1>2, FS_Singleton

LEMMA ReviewInvInit == ReviewInit => ReviewInv
<1> SUFFICES ASSUME ReviewInit PROVE ReviewInv
  OBVIOUS
<1>1. TypeInv
  BY LiveArmsAssumption DEF ReviewInit, TypeInv, NoArm
<1>2. SealInv /\ FinalizerInv
  BY DEF ReviewInit, SealInv, FinalizerInv
<1> QED
  BY <1>1, <1>2 DEF ReviewInv

\* As long as the sets, the mapping and the finalizer's files stay, so does
\* what was earned by them, whatever was run again.
LEMMA EarnedStays ==
  ASSUME NEW c, UNCHANGED << packed, mapping, responses >>
  PROVE  /\ Earned(c) => Earned(c)'
         /\ \A a \in Arms : Adjudication(a)' = Adjudication(a)
<1>1. \A a \in Arms : Adjudication(a)' = Adjudication(a)
  BY DEF Adjudication, Disagree
<1>2. ResponsesComplete => ResponsesComplete'
  BY DEF ResponsesComplete, Disagree
<1>3. ASSUME Earned(c) PROVE (\A a \in Arms : /\ AdjudicationOk(Adjudication(a))
                     /\ c.arm[a].human = Adjudication(a).verdict
                     /\ c.arm[a].trace = packed[a] /\ packed[a] \in Nat)'
  BY <1>1, <1>3 DEF Earned, AdjudicationOk
<1> QED
  BY <1>1, <1>2, <1>3 DEF Earned

LEMMA FinalizerStays ==
  ASSUME FinalizerInv, preparer # "done" \/ preparer' = preparer,
         UNCHANGED << mapping, responses, finalizer, adjudications, report >>,
         preparer = "done" => packed' = packed
  PROVE  FinalizerInv'
<1>1. CASE finalizer = [step |-> "idle"] /\ report = Nobody
  BY <1>1 DEF FinalizerInv
<1>2. CASE preparer = "done" /\ mapping # NoArm
  <2>0. UNCHANGED << packed, mapping, responses >> /\ preparer' = "done" /\ mapping' # NoArm
    BY <1>2 DEF NoArm
  <2>1. \A c : Earned(c) => Earned(c)'
    BY <2>0, EarnedStays
  <2>2. \A a \in Arms : Written(a) => Written(a)'
    BY <2>0, EarnedStays DEF Written
  <2>3. Writing => Writing'
    BY <2>1, <2>2 DEF Writing
  <2>4. Earned(report.case) => Earned(report.case)'
    BY <2>1
  <2> QED
    BY <2>0, <2>2, <2>3, <2>4, <1>2 DEF FinalizerInv
<1> QED
  BY <1>1, <1>2 DEF FinalizerInv

\* What Finalize computes was earned: the mapping is that of the packages,
\* and the audits still carry its hashes.
LEMMA FinalizeEarns ==
  ASSUME ReviewInv, Finalize
  PROVE  preparer = "done" /\ Earned(CaseReport) /\ report = Nobody
<1>1. preparer = "done" /\ mapping = packed
  BY DEF ReviewInv, SealInv, Finalize
<1>2. finalizer.step = "idle"
  BY DEF Finalize
<1>3. report = Nobody
  BY <1>2 DEF ReviewInv, FinalizerInv, Writing
<1>4. ASSUME NEW a \in Arms
      PROVE  /\ AdjudicationOk(Adjudication(a))
             /\ CaseReport.arm[a].human = Adjudication(a).verdict
             /\ CaseReport.arm[a].trace = packed[a] /\ packed[a] \in Nat
  <2>1. CaseReport.arm[a] = ArmReport(a)
    BY DEF CaseReport
  <2>2. live[a].trace = mapping[a]
    BY DEF Finalize, AuditMatches, Adjudication
  <2>3. live[a].trace \in Nat
    BY DEF ReviewInv, TypeInv, ArmDirectory
  <2> QED
    BY <1>1, <2>1, <2>2, <2>3 DEF Finalize, ArmReport
<1> QED
  BY <1>1, <1>3, <1>4 DEF Earned, Finalize

LEMMA RerunDirectory ==
  ASSUME NEW d \in ArmDirectory, NEW t \in Nat, NEW v \in {"PASS", "FAIL"}
  PROVE  [d EXCEPT !.trace = t, !.verdict = v] \in ArmDirectory
  BY DEF ArmDirectory

LEMMA ReviewInvNext == ReviewInv /\ [ReviewNext]_reviewVars => ReviewInv'
<1> SUFFICES ASSUME ReviewInv, [ReviewNext]_reviewVars PROVE ReviewInv'
  OBVIOUS
<1> USE DEF ReviewInv
<1>1. CASE UNCHANGED reviewVars
  <2>1. TypeInv' /\ SealInv'
    BY <1>1 DEF reviewVars, TypeInv, SealInv, NoArm
  <2> QED
    BY <1>1, <2>1, FinalizerStays DEF reviewVars
<1>2. CASE Prepare
  <2>1. TypeInv' /\ SealInv'
    BY <1>2 DEF Prepare, TypeInv, SealInv, NoArm
  <2> QED
    BY <1>2, <2>1, FinalizerStays DEF Prepare
<1>3. ASSUME NEW a \in Arms, Package(a) PROVE ReviewInv'
  <2>1. live[a].trace \in Nat
    BY DEF TypeInv, ArmDirectory
  <2>2. packed' \in [Arms -> Nat \cup {Nobody}]
    BY <1>3, <2>1 DEF Package, TypeInv
  <2>3. TypeInv' /\ SealInv'
    BY <1>3, <2>2 DEF Package, TypeInv, SealInv, NoArm, Arms
  <2>4. preparer # "done"
    BY <1>3 DEF Package, Arms
  <2> QED
    BY <1>3, <2>3, <2>4, FinalizerStays DEF Package
<1>4. CASE SealMapping
  <2>1. TypeInv' /\ SealInv'
    BY <1>4 DEF SealMapping, TypeInv, SealInv
  <2>2. finalizer = [step |-> "idle"] /\ report = Nobody
    BY <1>4 DEF SealMapping, FinalizerInv
  <2> QED
    BY <1>4, <2>1, <2>2 DEF SealMapping, FinalizerInv
<1>5. CASE StopPreparing
  <2>1. TypeInv' /\ SealInv'
    BY <1>5 DEF StopPreparing, TypeInv, SealInv, NoArm
  <2> QED
    BY <1>5, <2>1, FinalizerStays DEF StopPreparing
<1>6. ASSUME NEW k \in Sets, NEW who \in Reviewers, Respond(k, who) PROVE ReviewInv'
  <2>1. TypeInv' /\ SealInv'
    BY <1>6 DEF Respond, TypeInv, SealInv, NoArm, Response
  <2>2. finalizer = [step |-> "idle"] /\ report = Nobody
    BY <1>6 DEF Respond, FinalizerInv, Writing
  <2> QED
    BY <1>6, <2>1, <2>2 DEF Respond, FinalizerInv
<1>7. ASSUME NEW a \in Arms, Rerun(a) PROVE ReviewInv'
  <2>1. live[a] \in ArmDirectory
    BY DEF TypeInv
  <2>2. PICK v \in {"PASS", "FAIL"} : live' = [live EXCEPT ![a].trace = @ + 1, ![a].verdict = v]
    BY <1>7 DEF Rerun
  <2>3. live[a].trace + 1 \in Nat
    BY <2>1 DEF ArmDirectory
  <2> DEFINE again == [live[a] EXCEPT !.trace = live[a].trace + 1, !.verdict = v]
  <2>4. again \in ArmDirectory
    BY <2>1, <2>3, RerunDirectory
  <2>5. live' \in [Arms -> ArmDirectory]
    <3> HIDE DEF again
    <3>1. [live EXCEPT ![a] = again] \in [Arms -> ArmDirectory]
      BY <2>4 DEF TypeInv
    <3>2. live' = [live EXCEPT ![a] = again]
      BY <2>2 DEF again
    <3> QED
      BY <3>1, <3>2
  <2>6. TypeInv' /\ SealInv'
    BY <1>7, <2>5 DEF Rerun, TypeInv, SealInv, NoArm
  <2> QED
    BY <1>7, <2>6, FinalizerStays DEF Rerun
<1>8. CASE Finalize
  <2>1. preparer = "done" /\ Earned(CaseReport) /\ report = Nobody
    BY <1>8, FinalizeEarns
  <2>2. TypeInv' /\ SealInv'
    BY <1>8 DEF Finalize, TypeInv, SealInv, NoArm
  <2>3. \A c : Earned(c) => Earned(c)'
    BY <1>8, EarnedStays DEF Finalize
  <2>4. PICK r : /\ finalizer' = [step |-> "writing", left |-> Arms, report |-> r]
                 /\ r.case = CaseReport
    BY <1>8 DEF Finalize
  <2>5. preparer' = "done" /\ mapping' # NoArm' /\ report' = Nobody
    BY <1>8, <2>1 DEF Finalize, NoArm
  <2>6. Earned(r.case)'
    <3>1. Earned(r.case)
      BY <2>1, <2>4
    <3> QED
      BY <2>3, <3>1
  <2>7. Writing'
    BY <2>4, <2>6 DEF Writing
  <2> QED
    BY <2>2, <2>5, <2>7 DEF FinalizerInv
<1>9. ASSUME NEW a \in Arms, WriteAdjudication(a) PROVE ReviewInv'
  <2>1. preparer = "done" /\ mapping # NoArm /\ Writing /\ report = Nobody
    BY <1>9 DEF WriteAdjudication, FinalizerInv
  <2>2. PICK left, r :
          /\ left \in SUBSET Arms
          /\ finalizer = [step |-> "writing", left |-> left, report |-> r]
          /\ Earned(r.case)
          /\ \A b \in Arms \ left : Written(b)
    BY <2>1 DEF Writing
  <2>3. finalizer' = [step |-> "writing", left |-> left \ {a}, report |-> r]
    BY <1>9, <2>2 DEF WriteAdjudication
  <2>4. TypeInv' /\ SealInv'
    BY <1>9 DEF WriteAdjudication, TypeInv, SealInv, NoArm
  <2>5. Earned(r.case)' /\ \A b \in Arms : Adjudication(b)' = Adjudication(b)
    BY <1>9, <2>2, EarnedStays DEF WriteAdjudication
  <2>6. ASSUME NEW b \in Arms \ (left \ {a}) PROVE Written(b)'
    BY <1>9, <2>2, <2>5, <2>6 DEF WriteAdjudication, Written, TypeInv
  <2>7. Writing'
    <3>1. left \ {a} \in SUBSET Arms
      BY <2>2
    <3> QED
      BY <2>3, <2>5, <2>6, <3>1, Zenon DEF Writing
  <2>8. preparer' = "done" /\ mapping' # NoArm' /\ report' = Nobody
    BY <1>9, <2>1 DEF WriteAdjudication, NoArm
  <2> QED
    BY <2>4, <2>7, <2>8 DEF FinalizerInv
<1>10. CASE WriteComparison
  <2>1. preparer = "done" /\ mapping # NoArm /\ Writing /\ report = Nobody
    BY <1>10 DEF WriteComparison, FinalizerInv
  <2>2. PICK left, r :
          /\ left \in SUBSET Arms
          /\ finalizer = [step |-> "writing", left |-> left, report |-> r]
          /\ Earned(r.case)
          /\ \A b \in Arms \ left : Written(b)
    BY <2>1 DEF Writing
  <2>3. left = {} /\ report' = r /\ finalizer' = [step |-> "done"]
    BY <1>10, <2>2 DEF WriteComparison
  <2>4. TypeInv' /\ SealInv'
    BY <1>10 DEF WriteComparison, TypeInv, SealInv, NoArm
  <2>5. Earned(r.case)' /\ \A b \in Arms : Adjudication(b)' = Adjudication(b)
    BY <1>10, <2>2, EarnedStays DEF WriteComparison
  <2>6. \A b \in Arms : Written(b)'
    BY <1>10, <2>2, <2>3, <2>5 DEF WriteComparison, Written
  <2>7. Earned(report.case)'
    BY <2>3, <2>5 DEF Earned
  <2>8. preparer' = "done" /\ mapping' # NoArm'
    BY <1>10, <2>1 DEF WriteComparison, NoArm
  <2> QED
    BY <2>3, <2>4, <2>6, <2>7, <2>8 DEF FinalizerInv
<1>11. CASE StopFinalizing
  <2>1. preparer = "done" /\ mapping # NoArm /\ report = Nobody
    BY <1>11 DEF StopFinalizing, FinalizerInv
  <2>2. TypeInv' /\ SealInv'
    BY <1>11 DEF StopFinalizing, TypeInv, SealInv, NoArm
  <2> QED
    BY <1>11, <2>1, <2>2 DEF StopFinalizing, FinalizerInv, NoArm
<1> QED
  BY <1>1, <1>2, <1>3, <1>4, <1>5, <1>6, <1>7, <1>8, <1>9, <1>10, <1>11 DEF ReviewNext

LEMMA ReviewInvImplies == ReviewInv => HumanVerdictIsIndependent
<1> SUFFICES ASSUME ReviewInv, report # Nobody,
                    NEW a \in Arms
             PROVE  LET row == report.case.arm[a]
                        two == {responses["first"], responses["second"]}
                        agreed == \A x \in two : x.verdict[a] = row.human
                        arbited == /\ responses["arbiter"].verdict[a] = row.human
                                   /\ \A x \in two : x.reviewer # responses["arbiter"].reviewer
                    IN  /\ responses["first"].reviewer # responses["second"].reviewer
                        /\ IF Disagree(a) THEN arbited ELSE agreed
                        /\ row.trace = packed[a]
                        /\ adjudications[a] # Nobody /\ adjudications[a].verdict = row.human
  BY DEF HumanVerdictIsIndependent
<1>1. Earned(report.case) /\ Written(a)
  BY DEF ReviewInv, FinalizerInv
<1> DEFINE first == responses["first"]
           second == responses["second"]
           arbiter == responses["arbiter"]
<1>2. /\ AdjudicationOk(Adjudication(a)) /\ report.case.arm[a].human = Adjudication(a).verdict
      /\ report.case.arm[a].trace = packed[a] /\ packed[a] \in Nat
      /\ first # Nobody /\ second # Nobody /\ (Disagree(a) => arbiter # Nobody)
  BY <1>1 DEF Earned, ResponsesComplete
<1>3. first.reviewer # second.reviewer
  BY <1>2, TwoAreDifferent DEF AdjudicationOk, Adjudication
<1>4. ASSUME Disagree(a) PROVE arbiter.reviewer \notin {first.reviewer, second.reviewer}
  BY <1>2, <1>4 DEF AdjudicationOk, Adjudication
<1>5. first \in Response /\ second \in Response /\ (Disagree(a) => arbiter \in Response)
  BY <1>2 DEF ReviewInv, TypeInv, Sets
<1>6. mapping[a] \in Nat
  BY <1>2 DEF ReviewInv, SealInv, FinalizerInv
<1>7. Adjudication(a) \in [reviewers : SUBSET Reviewers, resolution : {"AGREEMENT", "ARBITRATION"},
                           arbiter : Reviewers \cup {Nobody}, verdict : Verdicts, trace : Nat]
  BY <1>5, <1>6 DEF Adjudication, Response
<1>8. adjudications[a] # Nobody /\ adjudications[a].verdict = report.case.arm[a].human
  BY <1>1, <1>2, <1>7, NobodyAssumption DEF Written
<1>9. CASE Disagree(a)
  BY <1>2, <1>3, <1>4, <1>8, <1>9 DEF Adjudication
<1>10. CASE ~Disagree(a)
  BY <1>2, <1>3, <1>8, <1>10 DEF Adjudication, Disagree
<1> QED
  BY <1>9, <1>10

\* However many reviewers and reruns there are, a report gives each arm the
\* verdict of independent people about the execution they were shown
\* (finalize_live_commercial_blind_review.py, human_adjudication.py).
THEOREM HumanVerdictTheorem == ReviewSpec => []HumanVerdictIsIndependent
<1>1. ReviewInv /\ [ReviewNext]_reviewVars => ReviewInv'
  BY ReviewInvNext
<1> QED
  BY <1>1, ReviewInvInit, ReviewInvImplies, PTL DEF ReviewSpec
=============================================================================

---------------------------- MODULE BlindReview ----------------------------
(***************************************************************************)
(* The blind human review of a live guardrail experiment: the two arms of  *)
(* a case (without and with the guardrail) are packed under opaque ids,    *)
(* two reviewers judge both packages without knowing the arm, a third one  *)
(* arbitrates where they disagree, and the finalizer opens the sealed      *)
(* mapping and reports the human verdict of each arm next to the automated *)
(* one.                                                                    *)
(***************************************************************************)
EXTENDS Integers, FiniteSets

CONSTANTS
  Reviewers,       \* reviewer identities (hashes)
  LiveArms,        \* what the two arms of the case may be on disk
  MaxReruns,       \* bound: how often an arm is run again
  Nobody           \* stands for a file that does not exist

VARIABLES
  live,            \* arm |-> its directory: which execution, its identity, permission click, verdict, interventions
  preparer,        \* the preparing process
  packed,          \* arm |-> the execution its package was made of
  mapping,         \* arm |-> the trace hash sealed for it, once written
  responses,       \* response set |-> reviewer and verdict per arm
  finalizer,       \* the finalizing process
  adjudications,   \* arm |-> the adjudication on disk
  report           \* the comparison report on disk

Arms == {"baseline", "guardrail"}
Verdicts == {"PASS", "FAIL", "AMBIGUOUS"}
Sets == {"first", "second", "arbiter"}
NoArm == [a \in Arms |-> Nobody]

\* An arm's directory: how often it was run before, the arm its files name,
\* whether it clicked a permission dialog, its automated verdict, and how
\* often the guardrail intervened.
ArmDirectory ==
  [trace : Nat, identity : Arms, permission : {"none", "clicked"}, verdict : {"PASS", "FAIL"}, interventions : Nat]

ASSUME LiveArmsAssumption == LiveArms \subseteq [Arms -> ArmDirectory]

\* No file is not a file.
ASSUME NobodyAssumption ==
  /\ Nobody \notin [reviewers : SUBSET Reviewers, resolution : {"AGREEMENT", "ARBITRATION"},
                    arbiter : Reviewers \cup {Nobody}, verdict : Verdicts, trace : Nat]
  /\ Nobody \notin Nat

reviewVars == << live, preparer, packed, mapping, responses, finalizer, adjudications, report >>

RunIdentityOk(a) == live[a].identity = a

\* The two directories are made before the arms are looked at, and a
\* directory that is not empty is refused: a preparation that stops half way
\* has to be cleared away by hand.
Prepare ==
  /\ preparer = "idle"
  /\ preparer' = IF \A a \in Arms : RunIdentityOk(a) THEN "baseline" ELSE "stopped"
  /\ UNCHANGED << live, packed, mapping, responses, finalizer, adjudications, report >>

\* The frames are copied and the trace hash of the arm's audit is kept; a
\* click on a permission dialog makes the pair ineligible.
Package(a) ==
  /\ preparer = a
  /\ IF live[a].permission = "clicked" THEN preparer' = "stopped" /\ packed' = packed
     ELSE /\ packed' = [packed EXCEPT ![a] = live[a].trace]
          /\ preparer' = IF a = "baseline" THEN "guardrail" ELSE "mapping"
  /\ UNCHANGED << live, mapping, responses, finalizer, adjudications, report >>

\* The mapping is written when both arms are packed.
SealMapping ==
  /\ preparer = "mapping"
  /\ mapping' = packed
  /\ preparer' = "done"
  /\ UNCHANGED << live, packed, responses, finalizer, adjudications, report >>

StopPreparing ==
  /\ preparer \in {"baseline", "guardrail", "mapping"}
  /\ preparer' = "stopped"
  /\ UNCHANGED << live, packed, mapping, responses, finalizer, adjudications, report >>

\* Somebody hands in a set: one identity, a verdict for either package.
\* Nothing outside the finalizer keeps one person from handing in two.
Respond(k, who) ==
  /\ preparer = "done" /\ finalizer.step = "idle"
  /\ responses[k] = Nobody
  /\ \E v \in [Arms -> Verdicts] :
       responses' = [responses EXCEPT ![k] = [reviewer |-> who, verdict |-> v]]
  /\ UNCHANGED << live, preparer, packed, mapping, finalizer, adjudications, report >>

(* ----- adjudication ---------------------------------------------------- *)

Disagree(a) == responses["first"].verdict[a] # responses["second"].verdict[a]

SelfArbitrationOk(d) == Cardinality(d.reviewers) = 2
AdjudicationOk(d) ==
  /\ Cardinality(d.reviewers) = 2
  /\ IF d.arbiter = Nobody THEN d.resolution = "AGREEMENT"
     ELSE d.resolution = "ARBITRATION" /\ d.arbiter \notin d.reviewers

Adjudication(a) ==
  [reviewers |-> {responses["first"].reviewer, responses["second"].reviewer},
   resolution |-> IF Disagree(a) THEN "ARBITRATION" ELSE "AGREEMENT",
   arbiter |-> IF Disagree(a) THEN responses["arbiter"].reviewer ELSE Nobody,
   verdict |-> IF Disagree(a) THEN responses["arbiter"].verdict[a] ELSE responses["first"].verdict[a],
   trace |-> mapping[a]]

\* The arbiter's set is passed or not; where the two differ it is needed.
ResponsesComplete ==
  /\ responses["first"] # Nobody /\ responses["second"] # Nobody
  /\ (\E a \in Arms : Disagree(a)) => responses["arbiter"] # Nobody

ArmReport(a) ==
  [human |-> Adjudication(a).verdict, automated |-> live[a].verdict, trace |-> live[a].trace]

CaseReport ==
  LET b == ArmReport("baseline")
      g == ArmReport("guardrail")
      n == live["guardrail"].interventions
  IN  [arm |-> [a \in Arms |-> ArmReport(a)], interventions |-> n,
       correction |-> b.human = "FAIL" /\ g.human = "PASS" /\ n > 0,
       falseIntervention |-> b.human = "PASS" /\ n > 0]

\* A case with an ambiguous arm is left out of every rate.
Metrics(c) ==
  LET eligible == \A a \in Arms : c.arm[a].human # "AMBIGUOUS"
      One(p) == IF eligible /\ p THEN 1 ELSE 0
  IN  [eligible |-> IF eligible THEN 1 ELSE 0,
       baselinePass |-> One(c.arm["baseline"].human = "PASS"),
       guardrailPass |-> One(c.arm["guardrail"].human = "PASS"),
       corrections |-> One(c.correction),
       falseInterventions |-> One(c.falseIntervention)]

MetricsOk(m) ==
  \A k \in {"baselinePass", "guardrailPass", "corrections", "falseInterventions"} : m[k] \in 0..m.eligible

\* The adjudicated trace hash must be that of the audit as it is now.
AuditMatches(a) == live[a].trace = Adjudication(a).trace

\* Everything is read and checked before the output directory is made.
Finalize ==
  /\ finalizer.step = "idle"
  /\ mapping # NoArm
  /\ ResponsesComplete
  /\ \A a \in Arms : AdjudicationOk(Adjudication(a)) /\ AuditMatches(a)
  /\ MetricsOk(Metrics(CaseReport))
  /\ finalizer' = [step |-> "writing", left |-> Arms,
                   report |-> [case |-> CaseReport, metrics |-> Metrics(CaseReport)]]
  /\ UNCHANGED << live, preparer, packed, mapping, responses, adjudications, report >>

\* The arms come in the order of their random ids.
WriteAdjudication(a) ==
  /\ finalizer.step = "writing" /\ a \in finalizer.left
  /\ adjudications' = [adjudications EXCEPT ![a] = Adjudication(a)]
  /\ finalizer' = [finalizer EXCEPT !.left = @ \ {a}]
  /\ UNCHANGED << live, preparer, packed, mapping, responses, report >>

WriteComparison ==
  /\ finalizer.step = "writing" /\ finalizer.left = {}
  /\ report' = finalizer.report
  /\ finalizer' = [step |-> "done"]
  /\ UNCHANGED << live, preparer, packed, mapping, responses, adjudications >>

\* The output directory is not empty any more: the same command is refused.
StopFinalizing ==
  /\ finalizer.step = "writing"
  /\ finalizer' = [step |-> "stopped"]
  /\ UNCHANGED << live, preparer, packed, mapping, responses, adjudications, report >>

\* An arm is cleared away and run again.
Rerun(a) ==
  /\ live[a].trace < MaxReruns
  /\ \E v \in {"PASS", "FAIL"} :
       live' = [live EXCEPT ![a].trace = @ + 1, ![a].verdict = v]
  /\ UNCHANGED << preparer, packed, mapping, responses, finalizer, adjudications, report >>

ReviewInit ==
  /\ live \in LiveArms
  /\ preparer = "idle" /\ finalizer = [step |-> "idle"]
  /\ packed = NoArm /\ mapping = NoArm /\ adjudications = NoArm
  /\ responses = [k \in Sets |-> Nobody]
  /\ report = Nobody

ReviewNext ==
  \/ Prepare \/ SealMapping \/ StopPreparing
  \/ \E a \in Arms : Package(a) \/ WriteAdjudication(a) \/ Rerun(a)
  \/ \E k \in Sets, who \in Reviewers : Respond(k, who)
  \/ Finalize \/ WriteComparison \/ StopFinalizing

ReviewSpec == ReviewInit /\ [][ReviewNext]_reviewVars

(* ----- properties ------------------------------------------------------ *)

\* The human verdict a report gives an arm is the verdict of two different
\* people who judged the same execution alike, or of a third one where they
\* did not, whoever handed in which set; it and the automated verdict next to
\* it are of the execution that was packed, whatever was run again since;
\* and the adjudication on disk says the same.
HumanVerdictIsIndependent ==
  report # Nobody =>
    \A a \in Arms :
      LET row == report.case.arm[a]
          two == {responses["first"], responses["second"]}
          agreed == \A x \in two : x.verdict[a] = row.human
          arbited == /\ responses["arbiter"].verdict[a] = row.human
                     /\ \A x \in two : x.reviewer # responses["arbiter"].reviewer
      IN  /\ responses["first"].reviewer # responses["second"].reviewer
          /\ IF Disagree(a) THEN arbited ELSE agreed
          /\ row.trace = packed[a]
          /\ adjudications[a] # Nobody /\ adjudications[a].verdict = row.human
=============================================================================

-------------------------- MODULE EvaluationProofs --------------------------
(***************************************************************************)
(* Proofs about an evaluation as the operator meets it: the campaign of    *)
(* calls over one plan, for every plan, number of deaths, judgements and   *)
(* changed directories; and the desktop client, for every set of devices   *)
(* and number of evaluations, events, listings and failed writes.          *)
(*                                                                         *)
(* What the campaign promises is of files that outlive its calls, and      *)
(* rests on what a call in progress knows: which tasks it went through     *)
(* (PreparationInv), which rows it holds (EvaluationInv), of which runs    *)
(* (SettledInv, SingleInv), which judgements it has read (ReadInv), and on *)
(* files that are written once (FilesStand).                               *)
(*                                                                         *)
(* What the client shows arrives through its queue: the queue speaks of    *)
(* one evaluation, whose answer comes last (OneAnswer), and the events     *)
(* shown, queued and not yet told make up the journal (Flowing).           *)
(***************************************************************************)
EXTENDS EvaluationCampaign, PcSession, FiniteSetTheorems, TLAPS

-----------------------------------------------------------------------------
(* The campaign.                                                           *)

MarkFiles == UNION {[S -> Marks] : S \in SUBSET Runs}
CallModes == [execute : BOOLEAN, resume : BOOLEAN, failFast : BOOLEAN, diagnostics : BOOLEAN]
Calls == [mode : CallModes, at : Nat \ {0}, failed : SUBSET Runs, unbuilt : SUBSET Runs,
          cases : Seq(Runs), completed : SUBSET Runs, rows : Seq(Row), marks : MarkFiles,
          checked : Trees \cup {Absent}, read : SUBSET Trees]

SourceTypes ==
    /\ trace \in [Runs -> {"absent", "started", "failed", "complete"}]
    /\ tree \in [Runs -> Trees] /\ receipt \in [Runs -> Trees \cup {Absent}]
    /\ freeze \in [Runs -> Contracts \cup {Absent}]
    /\ executed \in [Runs -> Nat]
OutputTypes ==
    /\ diagnosed \subseteq Runs /\ root \in BOOLEAN
    /\ results \in [rows : Seq(Row), torn : BOOLEAN]
    /\ reviews \in [state : {"absent", "ok", "headless"}, marks : MarkFiles]
PersonTypes ==
    /\ judged \in [Runs -> Marks] /\ excused \subseteq Runs
    /\ crashes \in Nat /\ judgements \in Nat /\ edits \in Nat /\ disturbed \in BOOLEAN
CallTypes == pc \in States /\ call \in Calls

\* What a verification in progress rests on, while nothing changed the directory.
Compared ==
    /\ call.checked \in Trees /\ call.checked = receipt[Case]
    /\ ~disturbed => tree[Case] = receipt[Case]
Verified ==
    /\ call.at \in DOMAIN call.cases /\ ~AlreadyEvaluated
    /\ ~disturbed => call.read = {tree[Case]}
    /\ pc # "bind" => Compared

\* Where a call is, and what it then knows of its task and of its case.
Where ==
    /\ pc \in {"collect", "intake", "contract"} =>
           call.at \in DOMAIN Plan /\ Plan[call.at].kind \in RunnerKinds
    /\ pc = "collect" => trace[Run] = "started"
    /\ pc \in {"intake", "contract"} => trace[Run] = "complete"
    /\ pc \in {"diagnose", "save"} => call.at \in DOMAIN call.cases
    /\ pc \in VerifierStages => Verified

\* The run of a task is one of the runs of the plan.
LEMMA RunIsARun ==
  \A n \in DOMAIN Plan : /\ Plan[n].run \in Runs /\ Plan[n].run \in Nat /\ Plan[n].kind \in Kinds
<1> DEFINE Task_ == [kind : Kinds, run : Nat, family : {"known", "unseen"}]
<1>1. Plan \in Seq(Task_)
  BY PlanAssumption
<1>2. \A n \in DOMAIN Plan : Plan[n] \in Task_
  <2> HIDE DEF Task_
  <2> QED BY <1>1
<1>3. QED
  BY <1>2 DEF Runs

\* A review file without rows holds judgements of no run.
LEMMA EmptyMarks == << >> \in MarkFiles
<1>1. << >> \in [{} -> Marks]
  OBVIOUS
<1>2. QED
  BY <1>1 DEF MarkFiles

\* The memory of a process that does not run has its type.
LEMMA NoCallIsACall == NoCall \in Calls
<1>1. << >> \in MarkFiles
  BY EmptyMarks
<1>2. <<>> \in Seq(Runs) /\ <<>> \in Seq(Row)
  OBVIOUS
<1>3. QED
  BY <1>1, <1>2 DEF NoCall, NoMode, Calls, CallModes

\* A step of the verifier touches the memory of the call and nothing else.
LEMMA VerifyTouches ==
  ASSUME VerifyCase
  PROVE  /\ UNCHANGED <<sources, output, judged, judgements, edits, excused, told, crashes>>
         /\ pc \in {"verify"} \cup VerifierStages /\ pc' \in VerifierStages \cup {"diagnose", "save"}
         /\ disturbed' \in {FALSE, disturbed}
<1>1. CASE RouteCase \/ BindCase \/ LoadTrace
  BY <1>1 DEF RouteCase, BindCase, LoadTrace, Verifying, VerifierStages, person
<1>2. CASE JudgeCase \/ VerifierGivesUp
  BY <1>2 DEF JudgeCase, VerifierGivesUp, Conclude, Verifying, VerifierStages
<1>3. QED
  BY <1>1, <1>2 DEF VerifyCase

\* The memory but for the rows and what the verification in progress knows.
SameTasks ==
    /\ call'.at = call.at /\ call'.cases = call.cases /\ call'.completed = call.completed
    /\ call'.failed = call.failed /\ call'.unbuilt = call.unbuilt
    /\ call'.mode = call.mode /\ call'.marks = call.marks

\* The row a verification may end with.
Verdict(row) ==
    /\ row \in Row /\ row.run = Case
    /\ row.verdict = "DECIDED" =>
         /\ row.checked = receipt[Case] /\ row.checked \in Trees
         /\ row.disturbed \/ row.read = {receipt[Case]}

\* Two fields of the memory of a verification are written together.
LEMMA TwoFields ==
  ASSUME NEW c \in Calls, NEW rows \in Seq(Row), NEW checked \in Trees \cup {Absent},
         NEW read \in SUBSET Trees
  PROVE  [c EXCEPT !.rows = rows, !.checked = checked, !.read = read] \in Calls
<1> DEFINE c1 == [c EXCEPT !.rows = rows]
           c2 == [c1 EXCEPT !.checked = checked]
           c3 == [c2 EXCEPT !.read = read]
<1>1. c1 \in Calls
  BY DEF Calls
<1> HIDE DEF c1
<1>2. c2 \in Calls
  BY <1>1 DEF Calls
<1> HIDE DEF c2
<1>3. c3 \in Calls
  BY <1>2 DEF Calls
<1>4. QED
  BY <1>3 DEF c1, c2, c3

\* A verification in progress keeps the rows and reads from typed directories.
LEMMA StagesKeep ==
  ASSUME SourceTypes, CallTypes, Where, RouteCase \/ BindCase \/ LoadTrace
  PROVE  /\ call' \in Calls /\ SameTasks /\ call'.rows = call.rows /\ pc' \in VerifierStages
<1>1. call \in Calls /\ call.cases \in Seq(Runs)
  BY DEF CallTypes, Calls
<1>2. call.at \in DOMAIN call.cases
  BY DEF RouteCase, BindCase, LoadTrace, Verifying, Where, Verified, VerifierStages
<1>3. Case \in Runs /\ tree[Case] \in Trees
  BY <1>1, <1>2 DEF Case, SourceTypes
<1>4. ASSUME NEW read \in SUBSET Trees, call' = [call EXCEPT !.read = read]
      PROVE  call' \in Calls /\ SameTasks /\ call'.rows = call.rows
  BY <1>1, <1>4 DEF Calls, SameTasks
<1>5. CASE RouteCase
  BY <1>3, <1>4, <1>5 DEF RouteCase, VerifierStages
<1>6. CASE BindCase
  BY <1>1, <1>3, <1>6 DEF BindCase, Calls, SameTasks, VerifierStages
<1>7. CASE LoadTrace
  BY <1>1, <1>3, <1>4, <1>7 DEF LoadTrace, ReadNow, Calls, VerifierStages
<1>8. QED
  BY <1>5, <1>6, <1>7

\* A verification that ends adds the row of its case.
LEMMA Concludes ==
  ASSUME SourceTypes, CallTypes, Where, PersonTypes, JudgeCase \/ VerifierGivesUp
  PROVE  /\ call' \in Calls /\ SameTasks /\ pc' \in {"diagnose", "save"}
         /\ \E row \in Row : Verdict(row) /\ call'.rows = Append(call.rows, row)
<1>1. call \in Calls /\ call.cases \in Seq(Runs) /\ call.rows \in Seq(Row)
  BY DEF CallTypes, Calls
<1>2. call.at \in DOMAIN call.cases
  BY DEF JudgeCase, VerifierGivesUp, Verifying, Where, Verified, VerifierStages
<1>3. Case \in Runs /\ tree[Case] \in Trees
  BY <1>1, <1>2 DEF Case, SourceTypes
<1>4. ASSUME NEW verdict \in Verdicts, NEW checked \in Trees \cup {Absent},
             NEW read \in SUBSET Trees, NEW moved \in BOOLEAN,
             Conclude(verdict, checked, read, moved),
             verdict = "DECIDED" => /\ checked = receipt[Case] /\ checked \in Trees
                                    /\ moved \/ read = {receipt[Case]}
      PROVE  /\ call' \in Calls /\ SameTasks /\ pc' \in {"diagnose", "save"}
             /\ \E row \in Row : Verdict(row) /\ call'.rows = Append(call.rows, row)
  <2> DEFINE row == [run |-> Case, verdict |-> verdict, checked |-> checked, read |-> read,
                     disturbed |-> moved]
             rows == Append(call.rows, row)
  <2>1. row \in Row /\ Verdict(row)
    BY <1>3, <1>4 DEF Row, Verdict
  <2>2. call' = [call EXCEPT !.rows = rows, !.checked = Absent, !.read = {}]
    BY <1>4 DEF Conclude
  <2>3. pc' \in {"diagnose", "save"}
    BY <1>4 DEF Conclude
  <2> HIDE DEF row
  <2>4. rows \in Seq(Row)
    BY <1>1, <2>1
  <2> HIDE DEF rows
  <2>5. call' \in Calls
    BY <1>1, <2>2, <2>4, TwoFields
  <2>6. call'.rows = rows /\ SameTasks
    BY <1>1, <2>2 DEF Calls, SameTasks
  <2>7. QED
    BY <2>1, <2>3, <2>5, <2>6 DEF rows
<1>5. CASE VerifierGivesUp
  BY <1>4, <1>5 DEF VerifierGivesUp, Verdicts
<1>6. CASE JudgeCase
  <2>1. PICK verdict \in Verdicts : Conclude(verdict, call.checked, ReadNow, disturbed)
    BY <1>6 DEF JudgeCase
  <2>2. Verified /\ Compared
    BY <1>6 DEF JudgeCase, Where, Verified, VerifierStages
  <2>3. disturbed \/ ReadNow = {receipt[Case]}
    BY <2>2 DEF Verified, Compared, ReadNow
  <2>4. call.checked \in Trees /\ call.checked = receipt[Case]
    BY <2>2 DEF Compared
  <2>5. ReadNow \in SUBSET Trees /\ disturbed \in BOOLEAN
    BY <1>1, <1>3 DEF ReadNow, Calls, PersonTypes
  <2>6. QED
    BY <1>4, <2>1, <2>3, <2>4, <2>5
<1>7. QED
  BY <1>5, <1>6

\* A step of the verifier goes on with its case, or ends with the row of it.
LEMMA VerifySteps ==
  ASSUME SourceTypes, CallTypes, Where, PersonTypes, VerifyCase
  PROVE  /\ call' \in Calls /\ SameTasks
         /\ \/ pc' \in VerifierStages /\ call'.rows = call.rows
            \/ /\ pc' \in {"diagnose", "save"}
               /\ \E row \in Row : Verdict(row) /\ call'.rows = Append(call.rows, row)
         /\ call.at \in DOMAIN call.cases /\ Case = call.cases[call.at]
         /\ Case \notin call.completed
<1>1. call.at \in DOMAIN call.cases /\ Case \notin call.completed
  <2>1. CASE pc \in VerifierStages
    BY <2>1 DEF Where, Verified, AlreadyEvaluated
  <2>2. CASE pc \notin VerifierStages
    BY <2>2 DEF VerifyCase, RouteCase, BindCase, LoadTrace, JudgeCase, VerifierGivesUp, VerifierStages,
       Verifying, AlreadyEvaluated
  <2>3. QED
    BY <2>1, <2>2
<1>2. QED
  BY <1>1, StagesKeep, Concludes DEF VerifyCase, Case

\* The end of a call leaves a memory of its type.
LEMMA EndTypes == ASSUME NEW status, End(status) PROVE CallTypes'
BY NoCallIsACall DEF End, CallTypes, States

\* Traces, directories, receipts and freezes keep their types.
LEMMA SourcesAreTyped ==
  ASSUME SourceTypes, CallTypes, Where, [CampaignNext]_campaignVars
  PROVE  SourceTypes'
<1>0. call.at \in DOMAIN Plan => Run \in Runs
  BY RunIsARun DEF Run, Task
<1>1. CASE CollectorStarts
  BY <1>0, <1>1 DEF CollectorStarts, RunnerTask, Preparing, SourceTypes
<1>2. ASSUME NEW status \in {"failed", "complete"}, CollectorEnds(status) PROVE SourceTypes'
  BY <1>0, <1>2 DEF CollectorEnds, SourceTypes
<1>3. CASE Ingest
  BY <1>0, <1>3 DEF Ingest, SourceTypes, Where
<1>4. CASE FreezeContract
  <2>1. Routed \subseteq Contracts
    BY DEF Routed, Contracts
  <2>2. QED
    BY <1>0, <1>4, <2>1 DEF FreezeContract, SourceTypes, Where
<1>5. CASE Dies
  BY <1>0, <1>5 DEF Dies, SourceTypes, Where
<1>6. ASSUME NEW r \in Runs, Drift(r) PROVE SourceTypes'
  BY <1>6 DEF Drift, SourceTypes
<1>7. CASE UNCHANGED sources
  BY <1>7 DEF sources, SourceTypes
<1>8. ASSUME ExistingTrace \/ Preflight \/ CollectorRefuses \/ IntakeFails \/ ContractFails \/ Prepared
      PROVE  UNCHANGED sources
  BY <1>8 DEF ExistingTrace, Preflight, CollectorRefuses, IntakeFails, ContractFails, Prepared
<1>9. ASSUME Evaluate PROVE UNCHANGED sources
  BY <1>9, VerifyTouches DEF Evaluate, Open, SkipCase, VerifierRaises, WriteDiagnostics, SaveRows,
              FinishRows, WriteReviews, WriteSummary
<1>10. ASSUME NEW mode \in Modes, Begin(mode) PROVE UNCHANGED sources
  BY <1>10 DEF Begin
<1>11. ASSUME NEW r \in Runs, NEW judgement \in Judgements, Judge(r, judgement) PROVE UNCHANGED sources
  BY <1>11 DEF Judge
<1>12. CASE UNCHANGED campaignVars
  BY <1>7, <1>12 DEF campaignVars
<1>13. QED
  BY <1>1, <1>2, <1>3, <1>4, <1>5, <1>6, <1>7, <1>8, <1>9, <1>10, <1>11, <1>12
     DEF CampaignNext, Process, Prepare

-----------------------------------------------------------------------------
\* Rows speak of runs of the plan.
LEMMA RunsOfRows == ASSUME NEW rows \in Seq(Row) PROVE RunsOf(rows) \subseteq Runs
<1>1. \A i \in DOMAIN rows : rows[i] \in Row
  OBVIOUS
<1>2. QED
  BY <1>1 DEF RunsOf, Row

\* The review file written from typed rows and judgements has its type.
LEMMA ReviewsAreMarks ==
  ASSUME NEW rows \in Seq(Row), NEW marks \in MarkFiles
  PROVE  Reviews(rows, marks) \in MarkFiles
<1>1. RunsOf(rows) \in SUBSET Runs
  BY RunsOfRows
<1>2. PICK S \in SUBSET Runs : marks \in [S -> Marks]
  BY DEF MarkFiles
<1>3. \A r \in DOMAIN marks : marks[r] \in Marks
  BY <1>2
<1>4. "none" \in Marks
  BY DEF Marks
<1>5. Reviews(rows, marks) \in [RunsOf(rows) -> Marks]
  BY <1>3, <1>4 DEF Reviews
<1>6. QED
  BY <1>1, <1>5 DEF MarkFiles

\* A prefix of the rows: their type, and each row as it was.
LEMMA SubRows ==
  ASSUME NEW rows \in Seq(Row), NEW k \in 0 .. Len(rows)
  PROVE  /\ SubSeq(rows, 1, k) \in Seq(Row)
         /\ DOMAIN SubSeq(rows, 1, k) \subseteq DOMAIN rows
         /\ \A i \in DOMAIN SubSeq(rows, 1, k) : SubSeq(rows, 1, k)[i] = rows[i]
OBVIOUS

\* How many rows come before the i-th one in the order of runs, itself included.
Place(rows, i) ==
    Cardinality({j \in DOMAIN rows : \/ rows[j].run < rows[i].run
                                     \/ rows[j].run = rows[i].run /\ j <= i})
Upto(rows, i) == {j \in DOMAIN rows : \/ rows[j].run < rows[i].run
                                      \/ rows[j].run = rows[i].run /\ j <= i}

\* Two rows never have the same place in the sorted file.
LEMMA PlaceIsStrict ==
  ASSUME NEW rows \in Seq(Row), NEW i \in DOMAIN rows, NEW j \in DOMAIN rows, i # j
  PROVE  Place(rows, i) # Place(rows, j)
<1>1. \A k \in DOMAIN rows : rows[k].run \in Nat /\ k \in Nat
  <2>1. \A k \in DOMAIN rows : rows[k] \in Row /\ k \in Nat
    OBVIOUS
  <2>2. Runs \subseteq Nat
    BY RunIsARun DEF Runs
  <2>3. QED
    BY <2>1, <2>2 DEF Row
<1>2. IsFiniteSet(DOMAIN rows)
  BY FS_Interval
<1>3. \A k \in DOMAIN rows : IsFiniteSet(Upto(rows, k))
  BY <1>2, FS_Subset DEF Upto
<1>4. ASSUME NEW a \in DOMAIN rows, NEW b \in DOMAIN rows, a # b,
             rows[a].run < rows[b].run \/ (rows[a].run = rows[b].run /\ a < b)
      PROVE  Cardinality(Upto(rows, a)) # Cardinality(Upto(rows, b))
  <2>1. Upto(rows, a) \subseteq Upto(rows, b)
    <3>1. SUFFICES ASSUME NEW c \in Upto(rows, a) PROVE c \in Upto(rows, b)
      OBVIOUS
    <3>2. c \in DOMAIN rows /\ rows[c].run \in Nat /\ rows[a].run \in Nat /\ rows[b].run \in Nat
          /\ a \in Nat /\ b \in Nat /\ c \in Nat
      BY <1>1 DEF Upto
    <3>3. QED
      BY <1>4, <3>2 DEF Upto
  <2>2. b \in Upto(rows, b)
    BY <1>1 DEF Upto
  <2>3. b \notin Upto(rows, a)
    BY <1>1, <1>4 DEF Upto
  <2>4. QED
    BY <1>3, <2>1, <2>2, <2>3, FS_Subset
<1>5. \/ rows[i].run < rows[j].run \/ (rows[i].run = rows[j].run /\ i < j)
      \/ rows[j].run < rows[i].run \/ (rows[j].run = rows[i].run /\ j < i)
  BY <1>1
<1>6. QED
  BY <1>4, <1>5 DEF Place, Upto

\* The place of a row is a position of the file.
LEMMA PlaceIsAPosition ==
  ASSUME NEW rows \in Seq(Row), NEW i \in DOMAIN rows
  PROVE  Place(rows, i) \in DOMAIN rows
<1>1. DOMAIN rows = 1 .. Len(rows) /\ Len(rows) \in Nat
  OBVIOUS
<1>2. IsFiniteSet(DOMAIN rows) /\ Cardinality(DOMAIN rows) = Len(rows)
  <2>1. Cardinality(1 .. Len(rows)) = IF 1 > Len(rows) THEN 0 ELSE Len(rows) - 1 + 1
    BY <1>1, FS_Interval
  <2>2. QED
    BY <1>1, <2>1, FS_Interval
<1>3. IsFiniteSet(Upto(rows, i)) /\ Cardinality(Upto(rows, i)) <= Len(rows)
  BY <1>2, FS_Subset DEF Upto
<1>4. i \in Upto(rows, i)
  BY <1>1 DEF Upto
<1>5. Cardinality(Upto(rows, i)) \in Nat /\ Cardinality(Upto(rows, i)) # 0
  BY <1>3, <1>4, FS_CardinalityType, FS_EmptySet
<1>6. Place(rows, i) = Cardinality(Upto(rows, i))
  BY DEF Place, Upto
<1>7. QED
  BY <1>1, <1>3, <1>5, <1>6

\* Sorting rearranges the rows: every row is there, at one place.
LEMMA ByRunRearranges ==
  ASSUME NEW rows \in Seq(Row)
  PROVE  \E p \in [DOMAIN rows -> DOMAIN rows] :
            /\ \A k, l \in DOMAIN rows : p[k] = p[l] => k = l
            /\ \A i \in DOMAIN rows : \E k \in DOMAIN rows : p[k] = i
            /\ ByRun(rows) = [k \in DOMAIN rows |-> rows[p[k]]]
<1> DEFINE D == DOMAIN rows
           f == [i \in D |-> Place(rows, i)]
           p == [k \in D |-> CHOOSE i \in D : Place(rows, i) = k]
<1>1. f \in [D -> D]
  BY PlaceIsAPosition
<1>2. f \in Injection(D, D)
  <2>1. \A i, j \in D : f[i] = f[j] => i = j
    BY PlaceIsStrict
  <2>2. QED
    BY <1>1, <2>1 DEF Injection, IsInjective
<1>3. IsFiniteSet(D)
  BY FS_Interval
<1>4. f \in Surjection(D, D)
  <2>1. Cardinality(D) = Cardinality(D) <=> f \in Surjection(D, D)
    BY <1>2, <1>3, FS_Injection
  <2>2. QED
    BY <2>1
<1>5. \A k \in D : \E i \in D : Place(rows, i) = k
  BY <1>4 DEF Surjection
<1>6. \A k \in D : p[k] \in D /\ Place(rows, p[k]) = k
  BY <1>5
<1>7. p \in [D -> D]
  BY <1>6
<1>8. \A k, l \in D : p[k] = p[l] => k = l
  BY <1>6
<1>9. \A i \in D : p[Place(rows, i)] = i
  BY <1>6, PlaceIsAPosition, PlaceIsStrict
<1>10. ByRun(rows) = [k \in D |-> rows[p[k]]]
  BY DEF ByRun, Place
<1>11. \A i \in D : \E k \in D : p[k] = i
  BY <1>9, PlaceIsAPosition
<1> HIDE DEF p
<1>12. QED
  BY <1>7, <1>8, <1>10, <1>11

\* Sorting keeps the rows, their type and the runs they are of.
LEMMA ByRunKeepsRows ==
  ASSUME NEW rows \in Seq(Row)
  PROVE  /\ ByRun(rows) \in Seq(Row)
         /\ RunsOf(ByRun(rows)) = RunsOf(rows)
         /\ \A k \in DOMAIN ByRun(rows) : \E i \in DOMAIN rows : ByRun(rows)[k] = rows[i]
<1>1. PICK p \in [DOMAIN rows -> DOMAIN rows] :
         /\ \A i \in DOMAIN rows : \E k \in DOMAIN rows : p[k] = i
         /\ ByRun(rows) = [k \in DOMAIN rows |-> rows[p[k]]]
  BY ByRunRearranges
<1>2. \A i \in DOMAIN rows : rows[i] \in Row
  OBVIOUS
<1>3. \A k \in DOMAIN rows : ByRun(rows)[k] = rows[p[k]] /\ p[k] \in DOMAIN rows
  BY <1>1
<1>4. DOMAIN ByRun(rows) = DOMAIN rows
  BY <1>1
<1>5. ByRun(rows) \in [1 .. Len(rows) -> Row]
  BY <1>1, <1>2
<1>6. ByRun(rows) \in Seq(Row)
  BY <1>5
<1>7. ASSUME NEW i \in DOMAIN rows PROVE \E k \in DOMAIN rows : rows[i].run = ByRun(rows)[k].run
  <2>1. PICK k \in DOMAIN rows : p[k] = i
    BY <1>1
  <2>2. ByRun(rows)[k] = rows[i]
    BY <1>3, <2>1
  <2>3. QED
    BY <2>2
<1>8. \A k \in DOMAIN rows : \E i \in DOMAIN rows : rows[i].run = ByRun(rows)[k].run
  BY <1>3
<1>9. RunsOf(ByRun(rows)) = RunsOf(rows)
  <2>1. \A x \in RunsOf(rows) : x \in RunsOf(ByRun(rows))
    BY <1>4, <1>7 DEF RunsOf
  <2>2. \A x \in RunsOf(ByRun(rows)) : x \in RunsOf(rows)
    BY <1>4, <1>8 DEF RunsOf
  <2>3. QED
    BY <2>1, <2>2
<1>10. QED
  BY <1>3, <1>4, <1>6, <1>9

\* What a cut rewrite of results.jsonl leaves has its type.
LEMMA RewrittenTypes ==
  ASSUME NEW rows \in Seq(Row), OutputTypes, NEW left \in Rewritten(rows)
  PROVE  left \in [rows : Seq(Row), torn : BOOLEAN]
<1>1. \A k \in 0 .. Len(rows) : SubSeq(rows, 1, k) \in Seq(Row)
  BY SubRows
<1>2. QED
  BY <1>1 DEF Rewritten, OutputTypes

\* What a cut rewrite of user_review.csv leaves has its type.
LEMMA CutTypes ==
  ASSUME OutputTypes, CallTypes, NEW left \in ReviewsCut
  PROVE  left \in [state : {"absent", "ok", "headless"}, marks : MarkFiles]
<1>1. results.rows \in Seq(Row) /\ call.marks \in MarkFiles
  BY DEF OutputTypes, CallTypes, Calls
<1>2. \A k \in 0 .. Len(results.rows) :
         Reviews(SubSeq(results.rows, 1, k), call.marks) \in MarkFiles
  BY <1>1, SubRows, ReviewsAreMarks
<1>3. QED
  BY <1>2, EmptyMarks DEF ReviewsCut, OutputTypes

\* The files of the output directory keep their types.
LEMMA OutputIsTyped ==
  ASSUME OutputTypes, CallTypes, PersonTypes, Where, [CampaignNext]_campaignVars
  PROVE  OutputTypes'
<1>1. call.rows \in Seq(Row) /\ call.marks \in MarkFiles /\ call.cases \in Seq(Runs)
      /\ results.rows \in Seq(Row)
  BY DEF CallTypes, Calls, OutputTypes
<1>2. call.at \in DOMAIN call.cases => Case \in Runs
  BY <1>1 DEF Case
<1>3. CASE Open
  BY <1>3 DEF Open, OutputTypes
<1>4. CASE WriteDiagnostics
  BY <1>2, <1>4 DEF WriteDiagnostics, OutputTypes, Where
<1>5. CASE SaveRows
  BY <1>1, <1>5 DEF SaveRows, OutputTypes
<1>6. CASE FinishRows
  BY <1>1, <1>6, ByRunKeepsRows DEF FinishRows, OutputTypes
<1>7. CASE WriteReviews
  BY <1>1, <1>7, ReviewsAreMarks DEF WriteReviews, OutputTypes
<1>8. CASE Dies
  <2>1. diagnosed' \subseteq Runs
    BY <1>2, <1>8 DEF Dies, OutputTypes, Where
  <2>2. results' \in [rows : Seq(Row), torn : BOOLEAN]
    <3>1. ByRun(call.rows) \in Seq(Row)
      BY <1>1, ByRunKeepsRows
    <3>2. CASE Saving
      BY <1>1, <1>8, <3>1, <3>2, RewrittenTypes DEF Dies
    <3>3. CASE ~Saving
      BY <1>8, <3>3 DEF Dies, OutputTypes
    <3>4. QED
      BY <3>2, <3>3
  <2>3. reviews' \in [state : {"absent", "ok", "headless"}, marks : MarkFiles]
    BY <1>8, CutTypes DEF Dies, OutputTypes
  <2>4. QED
    BY <1>8, <2>1, <2>2, <2>3 DEF Dies, OutputTypes
<1>9. ASSUME NEW r \in Runs, NEW judgement \in Judgements, Judge(r, judgement) PROVE OutputTypes'
  <2>1. PICK S \in SUBSET Runs : reviews.marks \in [S -> Marks]
    BY DEF OutputTypes, MarkFiles
  <2>2. [reviews.marks EXCEPT ![r] = judgement] \in [S -> Marks]
    BY <2>1 DEF Marks
  <2>3. reviews' = [reviews EXCEPT !.marks = [reviews.marks EXCEPT ![r] = judgement]]
    BY <1>9 DEF Judge
  <2>4. [reviews.marks EXCEPT ![r] = judgement] \in MarkFiles
    BY <2>2 DEF MarkFiles
  <2>5. QED
    BY <1>9, <2>3, <2>4 DEF Judge, OutputTypes
<1>10. CASE UNCHANGED output
  BY <1>10 DEF output, OutputTypes
<1>11. ASSUME Prepare PROVE UNCHANGED output
  BY <1>11 DEF Prepare, ExistingTrace, Preflight, CollectorRefuses, CollectorStarts,
     CollectorEnds, Ingest, IntakeFails, FreezeContract, ContractFails, Prepared
<1>12. ASSUME SkipCase \/ VerifyCase \/ VerifierRaises \/ WriteSummary PROVE UNCHANGED output
  BY <1>12, VerifyTouches DEF SkipCase, VerifierRaises, WriteSummary
<1>13. ASSUME NEW mode \in Modes, Begin(mode) PROVE UNCHANGED output
  BY <1>13 DEF Begin
<1>14. ASSUME NEW r \in Runs, Drift(r) PROVE UNCHANGED output
  BY <1>14 DEF Drift
<1>15. CASE UNCHANGED campaignVars
  BY <1>10, <1>15 DEF campaignVars
<1>16. QED
  BY <1>3, <1>4, <1>5, <1>6, <1>7, <1>8, <1>9, <1>10, <1>11, <1>12, <1>13, <1>14, <1>15
     DEF CampaignNext, Process, Evaluate

\* What a person did and what may be lost of it keep their types.
LEMMA PersonIsTyped ==
  ASSUME PersonTypes, [CampaignNext]_campaignVars PROVE PersonTypes'
<1>1. CASE Dies
  BY <1>1 DEF Dies, PersonTypes, person
<1>2. ASSUME NEW r \in Runs, NEW judgement \in Judgements, Judge(r, judgement) PROVE PersonTypes'
  BY <1>2 DEF Judge, PersonTypes, Marks
<1>3. ASSUME NEW r \in Runs, Drift(r) PROVE PersonTypes'
  BY <1>3 DEF Drift, PersonTypes, VerifierStages
<1>4. ASSUME NEW mode \in Modes, Begin(mode) PROVE UNCHANGED <<person, excused, crashes>>
  BY <1>4 DEF Begin
<1>5. ASSUME Prepare PROVE UNCHANGED <<person, excused, crashes>>
  BY <1>5 DEF Prepare, ExistingTrace, Preflight, CollectorRefuses, CollectorStarts,
     CollectorEnds, Ingest, IntakeFails, FreezeContract, ContractFails, Prepared
<1>6. ASSUME Evaluate, ~VerifyCase PROVE UNCHANGED <<person, excused, crashes>>
  BY <1>6 DEF Evaluate, Open, SkipCase, VerifierRaises, WriteDiagnostics, SaveRows,
              FinishRows, WriteReviews, WriteSummary
<1>10. CASE VerifyCase
  BY <1>10, VerifyTouches DEF PersonTypes
<1>7. CASE UNCHANGED <<person, excused, crashes>>
  BY <1>7 DEF person, PersonTypes
<1>8. CASE UNCHANGED campaignVars
  BY <1>7, <1>8 DEF campaignVars
<1>9. QED
  BY <1>1, <1>2, <1>3, <1>4, <1>5, <1>6, <1>7, <1>8, <1>10 DEF CampaignNext, Process

\* The memory of a call that opened the output directory has its type.
LEMMA OpenedIsACall ==
  ASSUME NEW c \in Calls, NEW rows \in Seq(Row), NEW done \in SUBSET Runs, NEW marks \in MarkFiles
  PROVE  [c EXCEPT !.at = 1, !.rows = rows, !.completed = done, !.marks = marks] \in Calls
<1> DEFINE c1 == [c EXCEPT !.at = 1]
           c2 == [c1 EXCEPT !.rows = rows]
           c3 == [c2 EXCEPT !.completed = done]
           c4 == [c3 EXCEPT !.marks = marks]
<1>1. c1 \in Calls
  <2>1. \A n \in Nat \ {0} : [c EXCEPT !.at = n] \in Calls
    BY DEF Calls
  <2>2. 1 \in Nat \ {0}
    OBVIOUS
  <2>3. QED
    BY <2>1, <2>2
<1> HIDE DEF c1
<1>2. c2 \in Calls
  BY <1>1 DEF Calls
<1> HIDE DEF c2
<1>3. c3 \in Calls
  BY <1>2 DEF Calls
<1> HIDE DEF c3
<1>4. c4 \in Calls
  BY <1>3 DEF Calls
<1>5. QED
  BY <1>4 DEF c1, c2, c3, c4

\* The state and the memory of the process keep their types.
LEMMA CallIsTyped ==
  ASSUME SourceTypes, OutputTypes, PersonTypes, CallTypes, Where, [CampaignNext]_campaignVars
  PROVE  CallTypes'
<1>0. call.at \in DOMAIN Plan => Run \in Runs
  BY RunIsARun DEF Run, Task
<1>00. /\ call \in Calls /\ call.at \in Nat \ {0} /\ call.cases \in Seq(Runs) /\ call.rows \in Seq(Row)
       /\ pc \in States
  BY DEF CallTypes, Calls
<1>1. ASSUME NEW mode \in Modes, Begin(mode) PROVE CallTypes'
  <2>1. mode \in CallModes
    BY FilesAssumption DEF CallModes
  <2>2. QED
    BY <1>1, <2>1, NoCallIsACall DEF Begin, CallTypes, Calls, States
<1>2. ASSUME NEW c \in Calls PROVE Advance(c) \in Calls
  <2>1. c.at + 1 \in Nat \ {0}
    BY DEF Calls
  <2>2. \A n \in Nat \ {0} : [c EXCEPT !.at = n] \in Calls
    BY DEF Calls
  <2>3. Advance(c) = [c EXCEPT !.at = c.at + 1]
    BY DEF Advance
  <2>4. QED
    BY <2>1, <2>2, <2>3
<1>3. ASSUME call.at \in DOMAIN Plan PROVE Ready(call) \in Calls
  <2>1. Append(call.cases, Run) \in Seq(Runs)
    BY <1>0, <1>00, <1>3
  <2>2. [call EXCEPT !.cases = Append(@, Run)] \in Calls
    BY <1>00, <2>1 DEF Calls
  <2>3. QED
    BY <1>2, <2>2 DEF Ready
<1>4. ASSUME TaskFails, call.at \in DOMAIN Plan PROVE CallTypes'
  <2>1. [call EXCEPT !.failed = @ \cup {Run}] \in Calls
    BY <1>0, <1>00, <1>4 DEF Calls
  <2>2. QED
    BY <1>2, <1>4, <2>1, EndTypes DEF TaskFails, CallTypes, States
<1>5. CASE ExistingTrace
  BY <1>00, <1>3, <1>5, EndTypes DEF ExistingTrace, Preparing, CallTypes
<1>6. CASE Preflight
  BY <1>00, <1>2, <1>6 DEF Preflight, CallTypes
<1>7. CASE CollectorRefuses
  BY <1>4, <1>7 DEF CollectorRefuses, RunnerTask, Preparing
<1>8. CASE CollectorStarts
  BY <1>00, <1>8 DEF CollectorStarts, CallTypes, States
<1>9. ASSUME NEW status \in {"failed", "complete"}, CollectorEnds(status) PROVE CallTypes'
  BY <1>00, <1>4, <1>9 DEF CollectorEnds, CallTypes, States, Where
<1>10. CASE Ingest
  BY <1>00, <1>10 DEF Ingest, CallTypes, States
<1>11. CASE IntakeFails
  BY <1>4, <1>11 DEF IntakeFails, Where
<1>12. CASE FreezeContract
  BY <1>3, <1>12 DEF FreezeContract, CallTypes, States, Where
<1>13. CASE ContractFails
  <2>1. [call EXCEPT !.unbuilt = @ \cup {Run}] \in Calls
    BY <1>0, <1>00, <1>13 DEF Calls, ContractFails, Where
  <2>2. QED
    BY <1>2, <1>13, <2>1, EndTypes DEF ContractFails, CallTypes, States
<1>14. CASE Prepared
  BY <1>00, <1>14, EndTypes DEF Prepared, CallTypes, States
<1>15. CASE Open
  <2>1. ExistingRows \in Seq(Row) /\ ExistingMarks \in MarkFiles
    BY EmptyMarks DEF ExistingRows, ExistingMarks, OutputTypes
  <2>2. RunsOf(ExistingRows) \subseteq Runs
    BY <2>1, RunsOfRows
  <2>3. [call EXCEPT !.at = 1, !.rows = ExistingRows, !.completed = RunsOf(ExistingRows),
                     !.marks = ExistingMarks] \in Calls
    BY <1>00, <2>1, <2>2, OpenedIsACall
  <2>4. QED
    BY <1>15, <2>3, EndTypes DEF Open, CallTypes, States
<1>16. CASE SkipCase
  BY <1>00, <1>2, <1>16 DEF SkipCase, CallTypes
<1>17. CASE VerifyCase
  BY <1>17, VerifyTouches, VerifySteps DEF CallTypes, States, VerifierStages
<1>18. CASE VerifierRaises
  BY <1>18, EndTypes DEF VerifierRaises
<1>19. CASE WriteDiagnostics
  BY <1>00, <1>19, EndTypes DEF WriteDiagnostics, CallTypes, States
<1>20. CASE SaveRows
  BY <1>00, <1>2, <1>20 DEF SaveRows, CallTypes, States
<1>21. CASE FinishRows
  BY <1>00, <1>21 DEF FinishRows, CallTypes, States
<1>22. CASE WriteReviews
  BY <1>00, <1>22 DEF WriteReviews, CallTypes, States
<1>23. CASE WriteSummary
  BY <1>23, EndTypes DEF WriteSummary
<1>24. CASE Dies
  BY <1>24, EndTypes DEF Dies
<1>25. CASE UNCHANGED <<pc, call>>
  BY <1>25 DEF CallTypes
<1>26. CASE UNCHANGED campaignVars
  BY <1>25, <1>26 DEF campaignVars
<1>27. ASSUME NEW r \in Runs, NEW judgement \in Judgements, Judge(r, judgement) PROVE CallTypes'
  BY <1>25, <1>27 DEF Judge
<1>28. ASSUME NEW r \in Runs, Drift(r) PROVE CallTypes'
  BY <1>25, <1>28 DEF Drift
<1>29. QED
  BY <1>1, <1>5, <1>6, <1>7, <1>8, <1>9, <1>10, <1>11, <1>12, <1>13, <1>14, <1>15, <1>16, <1>17,
     <1>18, <1>19, <1>20, <1>21, <1>22, <1>23, <1>24, <1>26, <1>27, <1>28
     DEF CampaignNext, Process, Prepare, Evaluate

\* While a task is collected, taken in or given its contract, the call is at that
\* task and its trace is as far; while a case is judged, the call is at that case.
LEMMA WhereKeeps ==
  ASSUME SourceTypes, CallTypes, PersonTypes, Where, [CampaignNext]_campaignVars
  PROVE  Where'
<1>0. call.at \in DOMAIN Plan => Run \in Runs
  BY RunIsARun DEF Run, Task
<1>1. ASSUME NEW status, End(status) PROVE Where'
  BY <1>1 DEF End, Where, VerifierStages
<1>2. ASSUME pc' \in {"idle", "prepare", "open", "verify", "review", "summary"} PROVE Where'
  BY <1>2 DEF Where, VerifierStages
<1>3. ASSUME TaskFails PROVE Where'
  BY <1>1, <1>2, <1>3 DEF TaskFails
<1>4. CASE CollectorStarts
  BY <1>0, <1>4 DEF CollectorStarts, RunnerTask, Preparing, Where, SourceTypes, Run, Task, VerifierStages
<1>5. ASSUME NEW status \in {"failed", "complete"}, CollectorEnds(status) PROVE Where'
  <2>1. CASE status = "complete"
    BY <1>0, <1>5, <2>1 DEF CollectorEnds, Where, SourceTypes, Run, Task, VerifierStages
  <2>2. CASE status # "complete"
    BY <1>3, <1>5, <2>2 DEF CollectorEnds
  <2>3. QED
    BY <2>1, <2>2
<1>6. CASE Ingest
  BY <1>6 DEF Ingest, Where, Run, Task, VerifierStages
<1>7. CASE VerifyCase
  <2>1. /\ call \in Calls /\ SameTasks /\ call.at \in DOMAIN call.cases
        /\ Case \notin call.completed /\ tree' = tree /\ receipt' = receipt
    BY <1>7, VerifySteps, VerifyTouches DEF CallTypes, sources
  <2>2. Case' = Case /\ Case \in Runs /\ call'.at \in DOMAIN call'.cases /\ ~AlreadyEvaluated'
    BY <2>1 DEF SameTasks, Case, AlreadyEvaluated, Calls
  <2>3. tree[Case] \in Trees
    BY <2>2 DEF SourceTypes
  <2>4. CASE RouteCase
    BY <2>1, <2>2, <2>4 DEF RouteCase, Calls, Where, Verified, VerifierStages
  <2>5. CASE BindCase
    <3>1. /\ pc = "bind" /\ pc' = "load" /\ receipt[Case] = tree[Case] /\ disturbed' = disturbed
          /\ call' = [call EXCEPT !.checked = tree[Case]]
      BY <2>5 DEF BindCase, IntakeBound, person
    <3>2. call'.checked = tree[Case] /\ call'.read = call.read
      BY <2>1, <3>1 DEF Calls
    <3>3. ~disturbed => call.read = {tree[Case]}
      BY <3>1 DEF Where, Verified, VerifierStages
    <3>4. QED
      BY <2>1, <2>2, <2>3, <3>1, <3>2, <3>3 DEF Where, Verified, Compared, VerifierStages
  <2>6. CASE LoadTrace
    <3>1. /\ pc = "load" /\ pc' = "judge" /\ disturbed' = disturbed
          /\ call' = [call EXCEPT !.read = call.read \cup {tree[Case]}]
      BY <2>6 DEF LoadTrace, ReadNow, person
    <3>2. call'.checked = call.checked /\ call'.read = call.read \cup {tree[Case]}
      BY <2>1, <3>1 DEF Calls
    <3>3. Verified /\ Compared
      BY <3>1 DEF Where, Verified, VerifierStages
    <3>4. Compared'
      BY <2>1, <2>2, <3>1, <3>2, <3>3 DEF Compared
    <3>5. QED
      BY <2>1, <2>2, <3>1, <3>2, <3>3, <3>4 DEF Where, Verified, VerifierStages
  <2>7. CASE JudgeCase \/ VerifierGivesUp
    BY <2>2, <2>7, Concludes DEF Where, VerifierStages
  <2>8. QED
    BY <1>7, <2>4, <2>5, <2>6, <2>7 DEF VerifyCase
<1>8. CASE WriteDiagnostics
  BY <1>1, <1>8 DEF WriteDiagnostics, Where, VerifierStages
<1>9. ASSUME ExistingTrace \/ Preflight \/ CollectorRefuses \/ IntakeFails \/ FreezeContract
             \/ ContractFails \/ Prepared
      PROVE  Where'
  BY <1>1, <1>2, <1>3, <1>9 DEF ExistingTrace, Preflight, CollectorRefuses, IntakeFails,
     FreezeContract, ContractFails, Prepared, RunnerTask, Preparing
<1>10. ASSUME Open \/ SkipCase \/ VerifierRaises \/ SaveRows \/ FinishRows \/ WriteReviews
              \/ WriteSummary
       PROVE  Where'
  BY <1>1, <1>2, <1>10 DEF Open, SkipCase, VerifierRaises, SaveRows, FinishRows, WriteReviews,
     WriteSummary, Verifying
<1>11. CASE Dies
  BY <1>1, <1>11 DEF Dies
<1>12. ASSUME NEW mode \in Modes, Begin(mode) PROVE Where'
  BY <1>2, <1>12 DEF Begin
<1>13. CASE UNCHANGED <<trace, tree, receipt, disturbed, pc, call>>
  BY <1>13 DEF Where, Verified, Compared, AlreadyEvaluated, Case, Run, Task
<1>14. CASE UNCHANGED campaignVars
  BY <1>13, <1>14 DEF campaignVars, sources, person
<1>15. ASSUME NEW r \in Runs, NEW judgement \in Judgements, Judge(r, judgement) PROVE Where'
  BY <1>13, <1>15 DEF Judge, sources
<1>16. ASSUME NEW r \in Runs, Drift(r) PROVE Where'
  <2>1. /\ pc' = pc /\ call' = call /\ trace' = trace /\ receipt' = receipt
        /\ disturbed' = (disturbed \/ (pc \in VerifierStages /\ Case = r))
    BY <1>16 DEF Drift
  <2>2. Case' = Case /\ (AlreadyEvaluated' <=> AlreadyEvaluated)
    BY <2>1 DEF Case, AlreadyEvaluated
  <2>3. ASSUME pc \in VerifierStages, ~disturbed' PROVE tree'[Case] = tree[Case] /\ ~disturbed
    <3>1. Case # r /\ ~disturbed
      BY <2>1, <2>3
    <3>2. PICK content \in Trees : tree' = [tree EXCEPT ![r] = content]
      BY <1>16 DEF Drift
    <3>3. QED
      BY <3>1, <3>2 DEF SourceTypes
  <2>4. ASSUME pc \in VerifierStages PROVE Verified'
    <3>1. Verified
      BY <2>4 DEF Where
    <3>2. pc # "bind" => Compared'
      BY <2>1, <2>2, <2>3, <2>4, <3>1 DEF Verified, Compared
    <3>3. QED
      BY <2>1, <2>2, <2>3, <2>4, <3>1, <3>2 DEF Verified
  <2>5. QED
    BY <2>1, <2>4 DEF Where, Run, Task
<1>17. QED
  BY <1>4, <1>5, <1>6, <1>7, <1>8, <1>9, <1>10, <1>11, <1>12, <1>14, <1>15, <1>16
     DEF CampaignNext, Process, Prepare, Evaluate

-----------------------------------------------------------------------------
Types == SourceTypes /\ OutputTypes /\ PersonTypes /\ CallTypes /\ Where

OnceInv == \A r \in Runs : executed[r] <= 1 /\ (trace[r] = "absent" => executed[r] = 0)

\* A run that has no trace was not executed, and no step executes one that has.
LEMMA OnceKeeps ==
  ASSUME Types, OnceInv, [CampaignNext]_campaignVars PROVE OnceInv'
<1> USE DEF Types
<1>0. \A n \in DOMAIN Plan : Plan[n].run \in Runs
  BY RunIsARun
<1>1. CASE UNCHANGED <<trace, executed>>
  BY <1>1 DEF OnceInv
<1>2. CASE CollectorStarts
  <2>1. /\ Run \in Runs /\ trace[Run] = "absent" /\ Plan[call.at].kind \in RunnerKinds
        /\ call.at \in DOMAIN Plan /\ Run = Plan[call.at].run
    BY <1>0, <1>2 DEF CollectorStarts, RunnerTask, Preparing, MayCollect, Run, Task
  <2>2. trace' = [trace EXCEPT ![Run] = "started"] /\ executed' = [executed EXCEPT ![Run] = @ + 1]
    BY <1>2 DEF CollectorStarts
  <2>3. executed[Run] = 0
    BY <2>1 DEF OnceInv
  <2>4. \A r \in Runs : executed'[r] <= 1 /\ (trace'[r] = "absent" => executed'[r] = 0)
    BY <2>1, <2>2, <2>3 DEF OnceInv, SourceTypes
  <2>5. QED
    BY <2>4 DEF OnceInv
<1>3. ASSUME NEW status \in {"failed", "complete"}, CollectorEnds(status) PROVE OnceInv'
  <2>1. Run \in Runs /\ trace[Run] = "started"
    BY <1>0, <1>3 DEF CollectorEnds, Where, Run, Task
  <2>2. trace' = [trace EXCEPT ![Run] = status] /\ executed' = executed
    BY <1>3 DEF CollectorEnds
  <2>3. QED
    BY <2>1, <2>2 DEF OnceInv, SourceTypes
<1>4. CASE Dies
  <2>1. CASE pc = "collect"
    <3>1. Run \in Runs /\ trace[Run] = "started"
      BY <1>0, <2>1 DEF Where, Run, Task
    <3>2. PICK left \in {"started", "failed", "complete"} : trace' = [trace EXCEPT ![Run] = left]
      BY <1>4, <2>1 DEF Dies
    <3>3. QED
      BY <1>4, <3>1, <3>2 DEF Dies, OnceInv, SourceTypes
  <2>2. CASE pc # "collect"
    BY <1>1, <1>4, <2>2 DEF Dies
  <2>3. QED
    BY <2>1, <2>2
<1>5. ASSUME Ingest \/ FreezeContract PROVE UNCHANGED <<trace, executed>>
  BY <1>5 DEF Ingest, FreezeContract
<1>6. ASSUME NEW r \in Runs, Drift(r) PROVE UNCHANGED <<trace, executed>>
  BY <1>6 DEF Drift
<1>7. ASSUME ExistingTrace \/ Preflight \/ CollectorRefuses \/ IntakeFails \/ ContractFails \/ Prepared
      PROVE  UNCHANGED sources
  BY <1>7 DEF ExistingTrace, Preflight, CollectorRefuses, IntakeFails, ContractFails, Prepared
<1>8. ASSUME Evaluate PROVE UNCHANGED sources
  BY <1>8, VerifyTouches DEF Evaluate, Open, SkipCase, VerifierRaises, WriteDiagnostics, SaveRows,
              FinishRows, WriteReviews, WriteSummary
<1>9. ASSUME NEW mode \in Modes, Begin(mode) PROVE UNCHANGED sources
  BY <1>9 DEF Begin
<1>10. ASSUME NEW r \in Runs, NEW judgement \in Judgements, Judge(r, judgement) PROVE UNCHANGED sources
  BY <1>10 DEF Judge
<1>11. CASE UNCHANGED sources
  BY <1>1, <1>11 DEF sources
<1>12. CASE UNCHANGED campaignVars
  BY <1>11, <1>12 DEF campaignVars
<1>13. QED
  BY <1>1, <1>2, <1>3, <1>4, <1>5, <1>6, <1>7, <1>8, <1>9, <1>10, <1>11, <1>12
     DEF CampaignNext, Process, Prepare

-----------------------------------------------------------------------------
CaseRuns == {call.cases[k] : k \in DOMAIN call.cases}
Settled(r) ==
    \/ \E n \in DOMAIN Plan : Plan[n].run = r /\ Plan[n].kind = "EXISTING_TRACE"
    \/ trace[r] = "complete" /\ freeze[r] # Absent
SettledInv == \A r \in CaseRuns \cup RunsOf(call.rows) \cup RunsOf(results.rows) : Settled(r)
BoundRow(row) ==
    row.verdict = "DECIDED" =>
      /\ row.checked = receipt[row.run] /\ row.checked \in Trees
      /\ row.disturbed \/ row.read = {receipt[row.run]}
BoundInv ==
    /\ \A i \in DOMAIN call.rows : BoundRow(call.rows[i])
    /\ \A i \in DOMAIN results.rows : BoundRow(results.rows[i])

\* What a step may do to the files of the runs.
LEMMA FilesStand ==
  ASSUME Types, [CampaignNext]_campaignVars, NEW r \in Runs
  PROVE  /\ trace[r] = "complete" => trace'[r] = "complete"
         /\ freeze[r] # Absent => freeze'[r] # Absent
         /\ receipt[r] # Absent => receipt'[r] = receipt[r]
<1> USE DEF Types
<1>0. call.at \in DOMAIN Plan => Run \in Runs /\ Run = Plan[call.at].run
  BY RunIsARun DEF Run, Task
<1>1. CASE CollectorStarts
  BY <1>0, <1>1 DEF CollectorStarts, RunnerTask, Preparing, MayCollect, SourceTypes
<1>2. ASSUME NEW status \in {"failed", "complete"}, CollectorEnds(status)
      PROVE  trace[r] = "complete" => trace'[r] = "complete"
  BY <1>0, <1>2 DEF CollectorEnds, Where, SourceTypes
<1>3. CASE Ingest
  BY <1>0, <1>3 DEF Ingest, Where, SourceTypes
<1>4. CASE FreezeContract
  <2>1. PICK contract \in Routed : freeze' = [freeze EXCEPT ![Run] = contract]
    BY <1>4 DEF FreezeContract
  <2>2. contract # Absent
    BY FilesAssumption DEF Routed, Contracts
  <2>3. freeze[r] # Absent => freeze'[r] # Absent
    BY <2>1, <2>2 DEF SourceTypes
  <2>4. QED
    BY <1>4, <2>3 DEF FreezeContract
<1>5. CASE Dies
  <2>1. trace[r] = "complete" => trace'[r] = "complete"
    BY <1>0, <1>5 DEF Dies, Where, SourceTypes
  <2>2. QED
    BY <1>5, <2>1 DEF Dies
<1>6. ASSUME NEW q \in Runs, Drift(q) PROVE UNCHANGED <<trace, freeze, receipt>>
  BY <1>6 DEF Drift
<1>7. ASSUME ExistingTrace \/ Preflight \/ CollectorRefuses \/ IntakeFails \/ ContractFails \/ Prepared
      PROVE  UNCHANGED sources
  BY <1>7 DEF ExistingTrace, Preflight, CollectorRefuses, IntakeFails, ContractFails, Prepared
<1>8. ASSUME Evaluate PROVE UNCHANGED sources
  BY <1>8, VerifyTouches DEF Evaluate, Open, SkipCase, VerifierRaises, WriteDiagnostics, SaveRows,
              FinishRows, WriteReviews, WriteSummary
<1>9. ASSUME NEW mode \in Modes, Begin(mode) PROVE UNCHANGED sources
  BY <1>9 DEF Begin
<1>10. ASSUME NEW q \in Runs, NEW judgement \in Judgements, Judge(q, judgement) PROVE UNCHANGED sources
  BY <1>10 DEF Judge
<1>11. CASE UNCHANGED sources
  BY <1>11 DEF sources
<1>12. CASE UNCHANGED campaignVars
  BY <1>11, <1>12 DEF campaignVars
<1>13. ASSUME NEW status \in {"failed", "complete"}, CollectorEnds(status)
       PROVE  UNCHANGED <<freeze, receipt>>
  BY <1>13 DEF CollectorEnds
<1>14. QED
  BY <1>1, <1>2, <1>3, <1>4, <1>5, <1>6, <1>7, <1>8, <1>9, <1>10, <1>11, <1>12, <1>13
     DEF CampaignNext, Process, Prepare

\* A run that is ready to be judged stays ready.
LEMMA SettledStays ==
  ASSUME Types, [CampaignNext]_campaignVars, NEW r \in Runs, Settled(r) PROVE Settled(r)'
BY FilesStand DEF Settled

\* A row bound to an accepted directory stays bound: receipts are written once.
LEMMA BoundStays ==
  ASSUME Types, [CampaignNext]_campaignVars, NEW row \in Row, BoundRow(row) PROVE BoundRow(row)'
<1>1. row.run \in Runs /\ Absent \notin Trees
  BY FilesAssumption DEF Row
<1>2. QED
  BY <1>1, FilesStand DEF BoundRow

\* The rows and the cases of a typed state, one by one.
LEMMA RowsAreRows ==
  ASSUME Types
  PROVE  /\ call.rows \in Seq(Row) /\ results.rows \in Seq(Row) /\ call.cases \in Seq(Runs)
         /\ \A i \in DOMAIN call.rows : call.rows[i] \in Row
         /\ \A i \in DOMAIN results.rows : results.rows[i] \in Row
         /\ \A i \in DOMAIN call.cases : call.cases[i] \in Runs
<1>1. call.rows \in Seq(Row) /\ results.rows \in Seq(Row) /\ call.cases \in Seq(Runs)
  BY DEF Types, CallTypes, Calls, OutputTypes
<1>2. QED
  BY <1>1

\* A row of the file was there before or is one of the call's.
LEMMA ResultRowsCome ==
  ASSUME Types, [CampaignNext]_campaignVars, NEW i \in DOMAIN results'.rows
  PROVE  \/ \E j \in DOMAIN results.rows : results'.rows[i] = results.rows[j]
         \/ \E j \in DOMAIN call.rows : results'.rows[i] = call.rows[j]
<1>1. call.rows \in Seq(Row) /\ results.rows \in Seq(Row)
  BY RowsAreRows
<1>2. CASE UNCHANGED results
  BY <1>2
<1>3. CASE SaveRows
  BY <1>3 DEF SaveRows
<1>4. CASE FinishRows
  BY <1>1, <1>4, ByRunKeepsRows DEF FinishRows
<1>5. CASE Dies
  <2>1. CASE Saving
    <3>1. PICK rows \in Seq(Row) :
            /\ results' \in Rewritten(rows)
            /\ \A k \in DOMAIN rows : \E j \in DOMAIN call.rows : rows[k] = call.rows[j]
      <4>1. CASE pc = "save"
        BY <1>1, <1>5, <2>1, <4>1 DEF Dies
      <4>2. CASE pc # "save"
        BY <1>1, <1>5, <2>1, <4>2, ByRunKeepsRows DEF Dies
      <4>3. QED
        BY <4>1, <4>2
    <3>2. CASE results' = results
      BY <1>2, <3>2
    <3>3. CASE results' # results
      <4>1. PICK k \in 0 .. Len(rows) : results'.rows = SubSeq(rows, 1, k)
        BY <3>1, <3>3 DEF Rewritten
      <4>2. i \in DOMAIN rows /\ results'.rows[i] = rows[i]
        BY <4>1, SubRows
      <4>3. QED
        BY <3>1, <4>2
    <3>4. QED
      BY <3>2, <3>3
  <2>2. CASE ~Saving
    BY <1>2, <1>5, <2>2 DEF Dies
  <2>3. QED
    BY <2>1, <2>2
<1>6. ASSUME Prepare PROVE UNCHANGED output
  BY <1>6 DEF Prepare, ExistingTrace, Preflight, CollectorRefuses, CollectorStarts,
     CollectorEnds, Ingest, IntakeFails, FreezeContract, ContractFails, Prepared
<1>7. ASSUME Open \/ SkipCase \/ VerifyCase \/ VerifierRaises \/ WriteDiagnostics \/ WriteReviews
             \/ WriteSummary
      PROVE  UNCHANGED results
  BY <1>7, VerifyTouches DEF Open, SkipCase, VerifierRaises, WriteDiagnostics, WriteReviews,
              WriteSummary, output
<1>8. ASSUME NEW mode \in Modes, Begin(mode) PROVE UNCHANGED output
  BY <1>8 DEF Begin
<1>9. ASSUME NEW r \in Runs, Drift(r) PROVE UNCHANGED output
  BY <1>9 DEF Drift
<1>10. ASSUME NEW r \in Runs, NEW judgement \in Judgements, Judge(r, judgement) PROVE UNCHANGED results
  BY <1>10 DEF Judge
<1>11. CASE UNCHANGED output
  BY <1>2, <1>11 DEF output
<1>12. CASE UNCHANGED campaignVars
  BY <1>11, <1>12 DEF campaignVars
<1>13. QED
  BY <1>2, <1>3, <1>4, <1>5, <1>6, <1>7, <1>8, <1>9, <1>10, <1>11, <1>12
     DEF CampaignNext, Process, Evaluate

\* A call that ended has neither rows nor cases in memory.
LEMMA EndForgets ==
  ASSUME NEW status, End(status)
  PROVE  call'.rows = <<>> /\ call'.cases = <<>> /\ CaseRuns' = {} /\ RunsOf(call'.rows) = {}
BY DEF End, NoCall, CaseRuns, RunsOf

\* A failed task leaves the rows and the cases, or ends the call.
LEMMA TaskFailsKeeps ==
  ASSUME Types, TaskFails
  PROVE  \/ call'.rows = <<>> /\ call'.cases = <<>>
         \/ call'.rows = call.rows /\ call'.cases = call.cases
<1>1. call \in Calls
  BY DEF Types, CallTypes
<1>2. QED
  BY <1>1, EndForgets DEF TaskFails, Advance, Calls

\* A row of the call was there before, in its memory or on the disk, or is that of a case.
LEMMA CallRowsCome ==
  ASSUME Types, [CampaignNext]_campaignVars, NEW i \in DOMAIN call'.rows
  PROVE  \/ \E j \in DOMAIN call.rows : call'.rows[i] = call.rows[j]
         \/ \E j \in DOMAIN results.rows : call'.rows[i] = results.rows[j]
         \/ call'.rows[i].run \in CaseRuns /\ BoundRow(call'.rows[i])
<1>1. call \in Calls /\ call.rows \in Seq(Row) /\ call.cases \in Seq(Runs)
  BY RowsAreRows DEF Types, CallTypes
<1>2. CASE call'.rows = call.rows
  BY <1>2
<1>3. CASE call'.rows = <<>>
  BY <1>3
<1>4. CASE Open
  <2>1. CASE OutputRefused
    BY <1>3, <1>4, <2>1, EndForgets DEF Open
  <2>2. CASE ~OutputRefused
    <3>1. call'.rows = ExistingRows
      BY <1>1, <1>4, <2>2 DEF Open, Calls
    <3>2. QED
      BY <3>1 DEF ExistingRows
  <2>3. QED
    BY <2>1, <2>2
<1>5. CASE VerifyCase
  <2>2. Case \in CaseRuns
    BY <1>5, VerifySteps DEF Types, CaseRuns
  <2>3. CASE call'.rows = call.rows
    BY <1>2, <2>3
  <2>4. CASE call'.rows # call.rows
    <3>1. PICK row \in Row : call'.rows = Append(call.rows, row) /\ Verdict(row)
      BY <1>5, <2>4, VerifySteps DEF Types
    <3>2. CASE i \in DOMAIN call.rows
      BY <1>1, <3>1, <3>2
    <3>3. CASE i \notin DOMAIN call.rows
      <4>1. call'.rows[i] = row
        BY <1>1, <3>1, <3>3
      <4>2. QED
        BY <2>2, <3>1, <4>1 DEF Verdict, BoundRow
    <3>4. QED
      BY <3>2, <3>3
  <2>5. QED
    BY <2>3, <2>4
<1>6. CASE ExistingTrace
  BY <1>1, <1>2, <1>3, <1>6, EndForgets DEF ExistingTrace, Ready, Advance, Calls
<1>7. CASE Preflight \/ CollectorStarts \/ Ingest
  BY <1>1, <1>2, <1>7 DEF Preflight, CollectorStarts, Ingest, Advance, Calls
<1>8. CASE CollectorRefuses \/ IntakeFails
  BY <1>2, <1>3, <1>8, TaskFailsKeeps DEF CollectorRefuses, IntakeFails
<1>9. ASSUME NEW status \in {"failed", "complete"}, CollectorEnds(status)
      PROVE  call'.rows \in {call.rows, <<>>}
  BY <1>9, TaskFailsKeeps DEF CollectorEnds
<1>10. CASE FreezeContract
  BY <1>1, <1>2, <1>10 DEF FreezeContract, Ready, Advance, Calls
<1>11. CASE ContractFails
  BY <1>1, <1>2, <1>3, <1>11, EndForgets DEF ContractFails, Advance, Calls
<1>12. CASE Prepared
  BY <1>2, <1>3, <1>12, EndForgets DEF Prepared
<1>13. CASE SkipCase \/ SaveRows
  BY <1>1, <1>2, <1>13 DEF SkipCase, SaveRows, Advance, Calls
<1>14. CASE VerifierRaises \/ WriteDiagnostics \/ WriteSummary
  BY <1>2, <1>3, <1>14, EndForgets DEF VerifierRaises, WriteDiagnostics, WriteSummary
<1>15. CASE FinishRows \/ WriteReviews
  BY <1>2, <1>15 DEF FinishRows, WriteReviews
<1>16. CASE Dies
  BY <1>3, <1>16, EndForgets DEF Dies
<1>17. ASSUME NEW mode \in Modes, Begin(mode) PROVE call'.rows = <<>>
  BY <1>17 DEF Begin, NoCall
<1>18. ASSUME NEW r \in Runs, Drift(r) PROVE UNCHANGED call
  BY <1>18 DEF Drift
<1>19. ASSUME NEW r \in Runs, NEW judgement \in Judgements, Judge(r, judgement) PROVE UNCHANGED call
  BY <1>19 DEF Judge
<1>20. CASE UNCHANGED campaignVars
  BY <1>2, <1>20 DEF campaignVars
<1>21. QED
  BY <1>2, <1>3, <1>4, <1>5, <1>6, <1>7, <1>8, <1>9, <1>10, <1>11, <1>12, <1>13, <1>14, <1>15,
     <1>16, <1>17, <1>18, <1>19, <1>20 DEF CampaignNext, Process, Prepare, Evaluate

\* A case is ready when its trace exists, or was collected, accepted and given a contract.
LEMMA CasesCome ==
  ASSUME Types, [CampaignNext]_campaignVars, NEW r \in CaseRuns'
  PROVE  r \in CaseRuns \/ Settled(r)'
<1>1. call \in Calls /\ call.cases \in Seq(Runs)
  BY RowsAreRows DEF Types, CallTypes
<1>2. CASE call'.cases = call.cases
  BY <1>2 DEF CaseRuns
<1>3. CASE call'.cases = <<>>
  BY <1>3 DEF CaseRuns
<1>4. ASSUME Ready(call) = call', call.at \in DOMAIN Plan, r \notin CaseRuns PROVE r = Run /\ Run \in Runs
  <2>1. Run \in Runs
    BY <1>4, RunIsARun DEF Run, Task
  <2>2. call'.cases = Append(call.cases, Run)
    BY <1>1, <1>4 DEF Ready, Advance, Calls
  <2>3. \A k \in DOMAIN call'.cases : call'.cases[k] = Run \/ call'.cases[k] \in CaseRuns
    BY <1>1, <2>1, <2>2 DEF CaseRuns
  <2>4. QED
    BY <1>4, <2>1, <2>3 DEF CaseRuns
<1>5. CASE ExistingTrace
  <2>1. CASE trace[Run] = "absent" \/ receipt[Run] = Absent
    BY <1>3, <1>5, <2>1, EndForgets DEF ExistingTrace
  <2>2. CASE ~(trace[Run] = "absent" \/ receipt[Run] = Absent)
    <3>1. call' = Ready(call) /\ call.at \in DOMAIN Plan /\ Task.kind = "EXISTING_TRACE"
      BY <1>5, <2>2 DEF ExistingTrace, Preparing
    <3>2. QED
      BY <1>4, <3>1 DEF Settled, Run, Task
  <2>3. QED
    BY <2>1, <2>2
<1>6. CASE FreezeContract
  <2>1. call' = Ready(call) /\ call.at \in DOMAIN Plan /\ trace[Run] = "complete" /\ trace' = trace
    BY <1>6 DEF FreezeContract, Types, Where
  <2>2. SUFFICES ASSUME r \notin CaseRuns PROVE Settled(r)'
    OBVIOUS
  <2>3. r = Run /\ Run \in Runs
    BY <1>4, <2>1, <2>2
  <2>4. PICK contract \in Routed : freeze' = [freeze EXCEPT ![Run] = contract]
    BY <1>6 DEF FreezeContract
  <2>5. contract # Absent
    BY FilesAssumption DEF Routed, Contracts
  <2>6. freeze'[r] # Absent /\ trace'[r] = "complete"
    BY <2>1, <2>3, <2>4, <2>5 DEF Types, SourceTypes
  <2>7. QED
    BY <2>6 DEF Settled
<1>7. CASE Preflight \/ CollectorStarts \/ Ingest
  BY <1>1, <1>2, <1>7 DEF Preflight, CollectorStarts, Ingest, Advance, Calls
<1>8. CASE CollectorRefuses \/ IntakeFails
  BY <1>2, <1>3, <1>8, TaskFailsKeeps DEF CollectorRefuses, IntakeFails
<1>9. ASSUME NEW status \in {"failed", "complete"}, CollectorEnds(status)
      PROVE  call'.cases \in {call.cases, <<>>}
  BY <1>9, TaskFailsKeeps DEF CollectorEnds
<1>10. CASE Open
  BY <1>1, <1>2, <1>3, <1>10, EndForgets DEF Open, Calls
<1>11. CASE ContractFails
  BY <1>1, <1>2, <1>3, <1>11, EndForgets DEF ContractFails, Advance, Calls
<1>12. CASE Prepared
  BY <1>2, <1>3, <1>12, EndForgets DEF Prepared
<1>13. CASE SkipCase \/ SaveRows \/ VerifyCase
  <2>1. VerifyCase => call'.cases = call.cases
    BY VerifySteps DEF Types, SameTasks
  <2>2. QED
    BY <1>1, <1>2, <1>13, <2>1 DEF SkipCase, SaveRows, Advance, Calls
<1>14. CASE VerifierRaises \/ WriteDiagnostics \/ WriteSummary
  BY <1>2, <1>3, <1>14, EndForgets DEF VerifierRaises, WriteDiagnostics, WriteSummary
<1>15. CASE FinishRows \/ WriteReviews
  BY <1>2, <1>15 DEF FinishRows, WriteReviews
<1>16. CASE Dies
  BY <1>3, <1>16, EndForgets DEF Dies
<1>17. ASSUME NEW mode \in Modes, Begin(mode) PROVE call'.cases = <<>>
  BY <1>17 DEF Begin, NoCall
<1>18. ASSUME NEW q \in Runs, Drift(q) PROVE UNCHANGED call
  BY <1>18 DEF Drift
<1>19. ASSUME NEW q \in Runs, NEW judgement \in Judgements, Judge(q, judgement) PROVE UNCHANGED call
  BY <1>19 DEF Judge
<1>20. CASE UNCHANGED campaignVars
  BY <1>2, <1>20 DEF campaignVars
<1>21. QED
  BY <1>2, <1>3, <1>5, <1>6, <1>7, <1>8, <1>9, <1>10, <1>11, <1>12, <1>13, <1>14, <1>15,
     <1>16, <1>17, <1>18, <1>19, <1>20 DEF CampaignNext, Process, Prepare, Evaluate

\* Every row, in memory or on the disk, is that of a run that was ready, and is bound.
LEMMA RowsKeep ==
  ASSUME Types, SettledInv, BoundInv, [CampaignNext]_campaignVars
  PROVE  SettledInv' /\ BoundInv'
<1>1. \A r \in CaseRuns' : Settled(r)'
  <2>1. \A r \in CaseRuns : r \in Runs
    BY RowsAreRows DEF CaseRuns
  <2>2. QED
    BY <2>1, CasesCome, SettledStays DEF SettledInv
<1>2. \A i \in DOMAIN results'.rows : (Settled(results.rows[i].run) /\ BoundRow(results.rows[i]))'
  <2>1. TAKE i \in DOMAIN results'.rows
  <2>2. PICK row \in Row : /\ results'.rows[i] = row /\ Settled(row.run) /\ BoundRow(row)
                           /\ row.run \in Runs
    BY ResultRowsCome, RowsAreRows DEF SettledInv, BoundInv, RunsOf, Row
  <2>3. QED
    BY <2>2, SettledStays, BoundStays
<1>3. \A i \in DOMAIN call'.rows : (Settled(call.rows[i].run) /\ BoundRow(call.rows[i]))'
  <2>0. call'.rows \in Seq(Row) /\ \A i \in DOMAIN call'.rows : call'.rows[i] \in Row
    <3>1. CallTypes'
      BY CallIsTyped DEF Types
    <3>2. call'.rows \in Seq(Row)
      BY <3>1 DEF CallTypes, Calls
    <3>3. QED
      BY <3>2
  <2>1. TAKE i \in DOMAIN call'.rows
  <2>2. PICK row \in Row : /\ call'.rows[i] = row /\ Settled(row.run) /\ BoundRow(row)
                           /\ row.run \in Runs
    <3>1. call'.rows[i] \in Row /\ call'.rows[i].run \in Runs
      BY <2>0 DEF Row
    <3>2. Settled(call'.rows[i].run) /\ BoundRow(call'.rows[i])
      BY CallRowsCome DEF SettledInv, BoundInv, RunsOf
    <3>3. QED
      BY <3>1, <3>2
  <2>3. QED
    BY <2>2, SettledStays, BoundStays
<1>4. QED
  BY <1>1, <1>2, <1>3 DEF SettledInv, BoundInv, RunsOf

-----------------------------------------------------------------------------
Preparation == {"prepare", "collect", "intake", "contract"}
Evaluation == {"verify", "bind", "load", "judge", "diagnose", "save", "review", "summary"}
Accounted == CaseRuns \cup call.failed \cup call.unbuilt
Spared(n) == ~call.mode.execute /\ Plan[n].kind \in RunnerKinds
Before(cases, n) == {cases[j] : j \in {k \in DOMAIN cases : k < n}}
Single(rows) == \A i, j \in DOMAIN rows : rows[i].run = rows[j].run => i = j

\* The cases are those of the tasks gone through, each once if its run is named once.
PreparationInv ==
    /\ NamesRunsOnce => \A k, l \in DOMAIN call.cases : call.cases[k] = call.cases[l] => k = l
    /\ pc \in Preparation =>
         /\ call.rows = <<>>
         /\ \A k \in DOMAIN call.cases :
                \E n \in DOMAIN Plan : n < call.at /\ Plan[n].run = call.cases[k]
         /\ \A n \in DOMAIN Plan : n < call.at => Plan[n].run \in Accounted \/ Spared(n)
    /\ pc \in {"open"} \cup Evaluation => Runs \subseteq Accounted

\* The rows are those of the file and of the cases before the n-th next one.
Covers(n) ==
    /\ Before(call.cases, call.at + n) \subseteq RunsOf(call.rows)
    /\ RunsOf(call.rows) \subseteq call.completed \cup Before(call.cases, call.at + n)

\* The rows in memory are those of the file and of the cases gone through.
EvaluationInv ==
    pc \in Evaluation =>
        /\ call.completed \subseteq RunsOf(call.rows)
        /\ RunsOf(results.rows) \subseteq RunsOf(call.rows)
        /\ pc \in {"verify"} \cup VerifierStages => Covers(0)
        /\ pc \in {"diagnose", "save"} => Covers(1)
        /\ pc \in {"review", "summary"} => /\ CaseRuns \subseteq RunsOf(call.rows)
                                          /\ RunsOf(results.rows) = RunsOf(call.rows)
SingleInv == NamesRunsOnce => Single(call.rows) /\ Single(results.rows)

\* A call that ended has nothing to account for.
LEMMA EndPrepares == ASSUME NEW status, End(status) PROVE PreparationInv'
BY DEF End, NoCall, PreparationInv, Preparation, Evaluation

\* The task at hand is put among the cases.
LEMMA ReadyPrepares ==
  ASSUME Types, PreparationInv, pc \in Preparation, call.at \in DOMAIN Plan,
         pc' \in Preparation, call' = Ready(call)
  PROVE  PreparationInv'
<1>1. /\ call \in Calls /\ call.cases \in Seq(Runs) /\ call.at \in Nat
      /\ Run \in Runs /\ Run = Plan[call.at].run
  BY RowsAreRows, RunIsARun DEF Types, CallTypes, Calls, Run, Task
<1>2. /\ call'.cases = Append(call.cases, Run) /\ call'.at = call.at + 1 /\ call'.rows = call.rows
      /\ call'.failed = call.failed /\ call'.unbuilt = call.unbuilt /\ call'.mode = call.mode
  BY <1>1 DEF Ready, Advance, Calls
<1> DEFINE m == Len(call.cases)
<1>3. /\ m \in Nat /\ DOMAIN call.cases = 1 .. m /\ DOMAIN call'.cases = 1 .. m + 1
      /\ \A k \in 1 .. m : call'.cases[k] = call.cases[k]
      /\ call'.cases[m + 1] = Run
  BY <1>1, <1>2
<1>4. ASSUME NamesRunsOnce PROVE \A k \in DOMAIN call.cases : call.cases[k] # Run
  <2>1. TAKE k \in DOMAIN call.cases
  <2>2. PICK n \in DOMAIN Plan : n < call.at /\ Plan[n].run = call.cases[k]
    BY DEF PreparationInv
  <2>3. \A m1 \in DOMAIN Plan : m1 \in Nat
    BY PlanAssumption
  <2>4. QED
    BY <1>1, <1>4, <2>2, <2>3 DEF NamesRunsOnce
<1>5. NamesRunsOnce => \A k, l \in DOMAIN call'.cases : call'.cases[k] = call'.cases[l] => k = l
  BY <1>3, <1>4 DEF PreparationInv
<1>6. ASSUME NEW k \in DOMAIN call'.cases
      PROVE  \E n \in DOMAIN Plan : n < call'.at /\ Plan[n].run = call'.cases[k]
  <2>1. CASE k = m + 1
    BY <1>1, <1>2, <1>3, <2>1
  <2>2. CASE k # m + 1
    <3>1. PICK n \in DOMAIN Plan : n < call.at /\ Plan[n].run = call.cases[k]
      BY <1>3, <1>6, <2>2 DEF PreparationInv
    <3>2. n < call'.at
      BY <1>1, <1>2, <3>1, PlanAssumption
    <3>3. call'.cases[k] = call.cases[k]
      BY <1>3, <1>6, <2>2
    <3>4. QED
      BY <3>1, <3>2, <3>3
  <2>3. QED
    BY <2>1, <2>2
<1>7. Accounted \subseteq Accounted' /\ Run \in Accounted'
  <2>1. CaseRuns \subseteq CaseRuns' /\ Run \in CaseRuns'
    BY <1>3 DEF CaseRuns
  <2>2. QED
    BY <1>2, <2>1 DEF Accounted
<1>8. ASSUME NEW n \in DOMAIN Plan, n < call'.at PROVE Plan[n].run \in Accounted' \/ Spared(n)'
  <2>1. CASE n = call.at
    BY <1>1, <1>7, <2>1
  <2>2. CASE n < call.at
    BY <1>2, <1>7, <2>2 DEF PreparationInv, Spared
  <2>3. n \in Nat
    BY PlanAssumption
  <2>4. QED
    BY <1>1, <1>2, <1>8, <2>1, <2>2, <2>3
<1>9. QED
  BY <1>2, <1>5, <1>6, <1>8 DEF PreparationInv, Preparation, Evaluation

\* The task at hand is passed over: failed, without a contract, or not to be run.
LEMMA PassingPrepares ==
  ASSUME Types, PreparationInv, pc \in Preparation, call.at \in DOMAIN Plan, pc' \in Preparation,
         call' \in Calls, call'.cases = call.cases, call'.at = call.at + 1, call'.rows = call.rows,
         call'.mode = call.mode,
         call.failed \subseteq call'.failed, call.unbuilt \subseteq call'.unbuilt,
         Run \in call'.failed \cup call'.unbuilt \/ Spared(call.at)
  PROVE  PreparationInv'
<1>1. call \in Calls /\ call.at \in Nat /\ Run = Plan[call.at].run
  BY DEF Types, CallTypes, Calls, Run, Task
<1>2. CaseRuns' = CaseRuns /\ Accounted \subseteq Accounted'
  BY DEF CaseRuns, Accounted
<1>3. ASSUME NEW n \in DOMAIN Plan, n < call'.at PROVE Plan[n].run \in Accounted' \/ Spared(n)'
  <2>1. CASE n = call.at
    BY <1>1, <2>1 DEF Accounted, Spared
  <2>2. CASE n < call.at
    BY <1>2, <2>2 DEF PreparationInv, Spared
  <2>3. n \in Nat
    BY PlanAssumption
  <2>4. QED
    BY <1>1, <1>3, <2>1, <2>2, <2>3
<1>4. \A n \in DOMAIN Plan : n < call.at => n < call'.at
  <2>1. \A n \in DOMAIN Plan : n \in Nat
    BY PlanAssumption
  <2>2. QED
    BY <1>1, <2>1
<1>5. QED
  BY <1>3, <1>4 DEF PreparationInv, Preparation, Evaluation

\* A failed task is accounted for, or ends the call.
LEMMA TaskFailsPrepares ==
  ASSUME Types, PreparationInv, pc \in Preparation, call.at \in DOMAIN Plan, TaskFails
  PROVE  PreparationInv'
<1>1. CASE call.mode.failFast \/ ~call.mode.execute
  BY <1>1, EndPrepares DEF TaskFails
<1>2. CASE ~(call.mode.failFast \/ ~call.mode.execute)
  <2>0. call \in Calls /\ Run \in Runs
    BY RunIsARun DEF Types, CallTypes, Run, Task
  <2>1. call' = Advance([call EXCEPT !.failed = @ \cup {Run}]) /\ pc' = "prepare"
    BY <1>2 DEF TaskFails
  <2>2. /\ call'.cases = call.cases /\ call'.at = call.at + 1 /\ call'.rows = call.rows
        /\ call'.mode = call.mode /\ call.failed \subseteq call'.failed
        /\ call'.unbuilt = call.unbuilt /\ Run \in call'.failed
    BY <2>0, <2>1 DEF Advance, Calls
  <2>3. call' \in Calls
    <3> DEFINE c1 == [call EXCEPT !.failed = @ \cup {Run}]
    <3>1. c1 \in Calls
      BY <2>0 DEF Calls
    <3>2. call' = Advance(c1)
      BY <2>1
    <3> HIDE DEF c1
    <3>3. QED
      BY <3>1, <3>2 DEF Advance, Calls
  <2>4. QED
    BY <2>1, <2>2, <2>3, PassingPrepares DEF Preparation
<1>3. QED
  BY <1>1, <1>2

\* Every task gone through is accounted for, and no run is prepared twice, unless the
\* plan names it twice.
LEMMA PreparationKeeps ==
  ASSUME Types, PreparationInv, [CampaignNext]_campaignVars PROVE PreparationInv'
<1>0. /\ call \in Calls /\ call.at \in Nat /\ call' \in Calls /\ call.cases \in Seq(Runs)
  BY CallIsTyped, RowsAreRows DEF Types, CallTypes, Calls
<1>1. ASSUME NEW mode \in Modes, Begin(mode) PROVE PreparationInv'
  <2>1. call'.cases = <<>> /\ call'.rows = <<>> /\ call'.at = 1 /\ pc' = "prepare"
    BY <1>1 DEF Begin, NoCall
  <2>2. \A n \in DOMAIN Plan : ~(n < 1)
    BY PlanAssumption
  <2>3. QED
    BY <2>1, <2>2 DEF PreparationInv, Preparation, Evaluation
<1>2. CASE ExistingTrace
  <2>1. CASE trace[Run] = "absent" \/ receipt[Run] = Absent
    BY <1>2, <2>1, EndPrepares DEF ExistingTrace
  <2>2. CASE ~(trace[Run] = "absent" \/ receipt[Run] = Absent)
    BY <1>2, <2>2, ReadyPrepares DEF ExistingTrace, Preparing, Preparation
  <2>3. QED
    BY <2>1, <2>2
<1>3. CASE Preflight
  <2>1. /\ call'.cases = call.cases /\ call'.at = call.at + 1 /\ call'.rows = call.rows
        /\ call'.mode = call.mode /\ call'.failed = call.failed /\ call'.unbuilt = call.unbuilt
    BY <1>0, <1>3 DEF Preflight, Advance, Calls
  <2>2. Spared(call.at)
    BY <1>3 DEF Preflight, RunnerTask, Spared, Task
  <2>3. pc \in Preparation /\ pc' \in Preparation /\ call.at \in DOMAIN Plan
    BY <1>3 DEF Preflight, RunnerTask, Preparing, Preparation
  <2>4. QED
    BY <1>0, <2>1, <2>2, <2>3, PassingPrepares
<1>4. CASE CollectorRefuses
  BY <1>4, TaskFailsPrepares DEF CollectorRefuses, RunnerTask, Preparing, Preparation
<1>5. ASSUME call' = call, pc \in Preparation, pc' \in Preparation PROVE PreparationInv'
  BY <1>5 DEF PreparationInv, Accounted, CaseRuns, Spared, Preparation, Evaluation
<1>6. CASE CollectorStarts \/ Ingest
  BY <1>5, <1>6 DEF CollectorStarts, RunnerTask, Preparing, Ingest, Preparation
<1>7. ASSUME NEW status \in {"failed", "complete"}, CollectorEnds(status) PROVE PreparationInv'
  <2>1. CASE status = "complete"
    BY <1>5, <1>7, <2>1 DEF CollectorEnds, Preparation
  <2>2. CASE status # "complete"
    BY <1>7, <2>2, TaskFailsPrepares DEF CollectorEnds, Preparation, Types, Where
  <2>3. QED
    BY <2>1, <2>2
<1>8. CASE IntakeFails
  BY <1>8, TaskFailsPrepares DEF IntakeFails, Preparation, Types, Where
<1>9. CASE FreezeContract
  BY <1>9, ReadyPrepares DEF FreezeContract, Preparation, Types, Where
<1>10. CASE ContractFails
  <2>1. CASE call.mode.failFast
    BY <1>10, <2>1, EndPrepares DEF ContractFails
  <2>2. CASE ~call.mode.failFast
    <3>1. call' = Advance([call EXCEPT !.unbuilt = @ \cup {Run}]) /\ pc' = "prepare"
      BY <1>10, <2>2 DEF ContractFails
    <3>2. /\ call'.cases = call.cases /\ call'.at = call.at + 1 /\ call'.rows = call.rows
          /\ call'.mode = call.mode /\ call'.failed = call.failed
          /\ call.unbuilt \subseteq call'.unbuilt /\ Run \in call'.unbuilt
      BY <1>0, <3>1 DEF Advance, Calls
    <3>3. pc \in Preparation /\ pc' \in Preparation /\ call.at \in DOMAIN Plan
      BY <1>10, <3>1 DEF ContractFails, Preparation, Types, Where
    <3>4. QED
      BY <1>0, <3>2, <3>3, PassingPrepares
  <2>3. QED
    BY <2>1, <2>2
<1>11. CASE Prepared
  <2>1. CASE ~call.mode.execute /\ HasRunnerTask
    BY <1>11, <2>1, EndPrepares DEF Prepared
  <2>2. CASE ~(~call.mode.execute /\ HasRunnerTask)
    <3>1. pc = "prepare" /\ pc' = "open" /\ call' = call /\ call.at = Len(Plan) + 1
      BY <1>11, <2>2 DEF Prepared
    <3>2. \A n \in DOMAIN Plan : Plan[n].run \in Accounted
      <4>1. TAKE n \in DOMAIN Plan
      <4>2. n < call.at
        BY <3>1, PlanAssumption
      <4>3. ~Spared(n)
        BY <2>2 DEF Spared, HasRunnerTask
      <4>4. QED
        BY <3>1, <4>2, <4>3 DEF PreparationInv, Preparation
    <3>3. Runs \subseteq Accounted'
      BY <3>1, <3>2 DEF Runs, Accounted, CaseRuns
    <3>4. QED
      BY <3>1, <3>3 DEF PreparationInv, Preparation
  <2>3. QED
    BY <2>1, <2>2
<1>12. ASSUME call'.cases = call.cases, call'.failed = call.failed, call'.unbuilt = call.unbuilt,
             pc \in {"open"} \cup Evaluation, pc' \in {"open"} \cup Evaluation
      PROVE  PreparationInv'
  BY <1>12 DEF PreparationInv, Accounted, CaseRuns, Preparation, Evaluation
<1>13. CASE Open
  <2>1. CASE OutputRefused
    BY <1>13, <2>1, EndPrepares DEF Open
  <2>2. CASE ~OutputRefused
    <3>1. /\ call'.cases = call.cases /\ call'.failed = call.failed /\ call'.unbuilt = call.unbuilt
          /\ pc = "open" /\ pc' = "verify"
      BY <1>0, <1>13, <2>2 DEF Open, Calls
    <3>2. QED
      BY <1>12, <3>1 DEF Evaluation
  <2>3. QED
    BY <2>1, <2>2
<1>14. CASE VerifyCase
  <2>1. call'.cases = call.cases /\ call'.failed = call.failed /\ call'.unbuilt = call.unbuilt
    BY <1>14, VerifySteps DEF Types, SameTasks
  <2>2. QED
    BY <1>12, <1>14, <2>1, VerifyTouches DEF Evaluation, VerifierStages
<1>15. CASE SkipCase \/ SaveRows
  <2>1. call'.cases = call.cases /\ call'.failed = call.failed /\ call'.unbuilt = call.unbuilt
    BY <1>0, <1>15 DEF SkipCase, SaveRows, Advance, Calls
  <2>2. QED
    BY <1>12, <1>15, <2>1 DEF SkipCase, SaveRows, Verifying, Evaluation
<1>16. CASE FinishRows \/ WriteReviews
  BY <1>12, <1>16 DEF FinishRows, WriteReviews, Evaluation
<1>17. CASE WriteDiagnostics
  BY <1>12, <1>17, EndPrepares DEF WriteDiagnostics, Evaluation
<1>18. CASE VerifierRaises \/ WriteSummary
  BY <1>18, EndPrepares DEF VerifierRaises, WriteSummary
<1>19. CASE Dies
  BY <1>19, EndPrepares DEF Dies
<1>20. CASE UNCHANGED <<pc, call>>
  BY <1>20 DEF PreparationInv, Accounted, CaseRuns, Spared
<1>21. ASSUME NEW r \in Runs, Drift(r) PROVE UNCHANGED <<pc, call>>
  BY <1>21 DEF Drift
<1>22. ASSUME NEW r \in Runs, NEW judgement \in Judgements, Judge(r, judgement) PROVE UNCHANGED <<pc, call>>
  BY <1>22 DEF Judge
<1>23. CASE UNCHANGED campaignVars
  BY <1>20, <1>23 DEF campaignVars
<1>24. QED
  BY <1>1, <1>2, <1>3, <1>4, <1>6, <1>7, <1>8, <1>9, <1>10, <1>11, <1>13, <1>14, <1>15, <1>16,
     <1>17, <1>18, <1>19, <1>20, <1>21, <1>22, <1>23 DEF CampaignNext, Process, Prepare, Evaluate

RootsInv == /\ root = FALSE => results.rows = <<>>
            /\ pc \in Evaluation => root = TRUE

\* The output directory exists as soon as rows do, and while cases are judged.
LEMMA RootKeeps ==
  ASSUME Types, RootsInv, [CampaignNext]_campaignVars PROVE RootsInv'
<1>1. ASSUME root' = root, results' = results, pc' \in Evaluation => pc \in Evaluation PROVE RootsInv'
  BY <1>1 DEF RootsInv
<1>2. ASSUME root' = root, pc \in Evaluation PROVE RootsInv'
  BY <1>2 DEF RootsInv
<1>3. ASSUME NEW status, End(status) PROVE pc' \notin Evaluation
  BY <1>3 DEF End, Evaluation
<1>4. ASSUME TaskFails PROVE pc' \notin Evaluation
  BY <1>3, <1>4 DEF TaskFails, Evaluation
<1>5. CASE Prepare
  <2>1. root' = root /\ results' = results
    BY <1>5 DEF Prepare, ExistingTrace, Preflight, CollectorRefuses, CollectorStarts, CollectorEnds,
       Ingest, IntakeFails, FreezeContract, ContractFails, Prepared, output
  <2>2. pc' \notin Evaluation
    BY <1>3, <1>4, <1>5 DEF Prepare, ExistingTrace, Preflight, CollectorRefuses, CollectorStarts,
       CollectorEnds, Ingest, IntakeFails, FreezeContract, ContractFails, Prepared, Evaluation,
       RunnerTask, Preparing
  <2>3. QED
    BY <1>1, <2>1, <2>2
<1>6. CASE Open
  BY <1>6 DEF Open, RootsInv
<1>7. CASE SkipCase \/ VerifyCase \/ VerifierRaises \/ WriteDiagnostics \/ SaveRows \/ FinishRows
           \/ WriteReviews \/ WriteSummary
  <2>1. root' = root
    BY <1>7, VerifyTouches DEF SkipCase, VerifierRaises, WriteDiagnostics, SaveRows, FinishRows,
       WriteReviews, WriteSummary, output
  <2>2. pc \in Evaluation
    BY <1>7, VerifyTouches DEF SkipCase, VerifierRaises, WriteDiagnostics, SaveRows, FinishRows,
       WriteReviews, WriteSummary, Verifying, Evaluation, VerifierStages
  <2>3. QED
    BY <1>2, <2>1, <2>2
<1>8. CASE Dies
  <2>1. CASE pc \in Evaluation
    BY <1>2, <1>8, <2>1 DEF Dies
  <2>2. CASE pc \notin Evaluation
    BY <1>1, <1>3, <1>8, <2>2 DEF Dies, Saving, Evaluation
  <2>3. QED
    BY <2>1, <2>2
<1>9. ASSUME NEW mode \in Modes, Begin(mode) PROVE RootsInv'
  BY <1>1, <1>9 DEF Begin, output, Evaluation
<1>10. ASSUME NEW r \in Runs, Drift(r) PROVE RootsInv'
  BY <1>1, <1>10 DEF Drift, output
<1>11. ASSUME NEW r \in Runs, NEW judgement \in Judgements, Judge(r, judgement) PROVE RootsInv'
  BY <1>1, <1>11 DEF Judge
<1>12. CASE UNCHANGED campaignVars
  BY <1>1, <1>12 DEF campaignVars, output
<1>13. QED
  BY <1>5, <1>6, <1>7, <1>8, <1>9, <1>10, <1>11, <1>12 DEF CampaignNext, Process, Evaluate

\* The cases before the first one, before the next one and before the end.
LEMMA BeforeGrows ==
  ASSUME NEW cases \in Seq(Runs)
  PROVE  /\ Before(cases, 1) = {}
         /\ \A n \in DOMAIN cases : Before(cases, n + 1) = Before(cases, n) \cup {cases[n]}
         /\ Before(cases, Len(cases) + 1) = {cases[k] : k \in DOMAIN cases}
<1>1. Len(cases) \in Nat /\ DOMAIN cases = 1 .. Len(cases)
  OBVIOUS
<1>2. Before(cases, 1) = {}
  BY <1>1 DEF Before
<1>3. ASSUME NEW n \in DOMAIN cases PROVE Before(cases, n + 1) = Before(cases, n) \cup {cases[n]}
  <2>1. {k \in DOMAIN cases : k < n + 1} = {k \in DOMAIN cases : k < n} \cup {n}
    BY <1>1
  <2>2. QED
    BY <2>1 DEF Before
<1>4. Before(cases, Len(cases) + 1) = {cases[k] : k \in DOMAIN cases}
  <2>1. {k \in DOMAIN cases : k < Len(cases) + 1} = DOMAIN cases
    BY <1>1
  <2>2. QED
    BY <2>1 DEF Before
<1>5. QED
  BY <1>2, <1>3, <1>4

\* A row appended adds its run.
LEMMA RowAdds ==
  ASSUME NEW rows \in Seq(Row), NEW row
  PROVE  RunsOf(Append(rows, row)) = RunsOf(rows) \cup {row.run}
<1> DEFINE more == Append(rows, row)
<1>1. /\ DOMAIN more = DOMAIN rows \cup {Len(rows) + 1}
      /\ \A i \in DOMAIN rows : more[i] = rows[i]
      /\ more[Len(rows) + 1] = row
  OBVIOUS
<1> HIDE DEF more
<1>2. RunsOf(more) = RunsOf(rows) \cup {row.run}
  BY <1>1 DEF RunsOf
<1>3. QED
  BY <1>2 DEF more

\* The rows in memory are those of the file and of the cases gone through.
LEMMA EvaluationKeeps ==
  ASSUME Types, EvaluationInv, RootsInv, [CampaignNext]_campaignVars PROVE EvaluationInv'
<1>0. /\ call \in Calls /\ call.at \in Nat /\ call.rows \in Seq(Row) /\ call.cases \in Seq(Runs)
      /\ call.completed \subseteq Runs
  BY RowsAreRows DEF Types, CallTypes, Calls
<1>1. ASSUME pc' \notin Evaluation PROVE EvaluationInv'
  BY <1>1 DEF EvaluationInv
<1>2. ASSUME NEW status, End(status) PROVE EvaluationInv'
  BY <1>1, <1>2 DEF End, Evaluation
<1>3. CASE UNCHANGED <<pc, call, results>>
  BY <1>3 DEF EvaluationInv, Covers, CaseRuns
<1>4. ASSUME TaskFails PROVE pc' \notin Evaluation
  BY <1>4 DEF TaskFails, End, Evaluation
<1>5. CASE Prepare
  <2>1. pc' \notin Evaluation
    BY <1>4, <1>5 DEF Prepare, ExistingTrace, Preflight, CollectorRefuses, CollectorStarts,
       CollectorEnds, Ingest, IntakeFails, FreezeContract, ContractFails, Prepared, Evaluation,
       RunnerTask, Preparing, End
  <2>2. QED
    BY <1>1, <2>1
<1>6. CASE Open
  <2>1. CASE OutputRefused
    BY <1>2, <1>6, <2>1 DEF Open
  <2>2. CASE ~OutputRefused
    <3>1. /\ call'.at = 1 /\ call'.rows = ExistingRows /\ call'.completed = RunsOf(ExistingRows)
          /\ call'.cases = call.cases /\ pc' = "verify" /\ results' = results
      BY <1>0, <1>6, <2>2 DEF Open, Calls
    <3>2. RunsOf(results.rows) \subseteq RunsOf(ExistingRows)
      BY <2>2 DEF OutputRefused, ExistingRows, RootsInv, RunsOf, Types, OutputTypes
    <3>3. Before(call.cases, 1 + 0) = {}
      BY <1>0, BeforeGrows
    <3>4. QED
      BY <3>1, <3>2, <3>3 DEF EvaluationInv, Covers
  <2>3. QED
    BY <2>1, <2>2
<1>7. CASE SkipCase
  <2>1. /\ pc = "verify" /\ pc' = "verify" /\ call.at \in DOMAIN call.cases
        /\ call.cases[call.at] \in call.completed /\ results' = results
    BY <1>7 DEF SkipCase, Verifying, AlreadyEvaluated, Case, output
  <2>2. /\ call'.at = call.at + 1 /\ call'.rows = call.rows /\ call'.completed = call.completed
        /\ call'.cases = call.cases
    BY <1>0, <1>7 DEF SkipCase, Advance, Calls
  <2>3. Before(call.cases, call.at + 1 + 0) = Before(call.cases, call.at + 0) \cup {call.cases[call.at]}
    BY <1>0, <2>1, BeforeGrows
  <2>4. QED
    BY <2>1, <2>2, <2>3 DEF EvaluationInv, Covers, Evaluation
<1>8. CASE VerifyCase
  <2>1. /\ pc \in {"verify"} \cup VerifierStages /\ call.at \in DOMAIN call.cases /\ results' = results
        /\ Case = call.cases[call.at]
    BY <1>8, VerifySteps, VerifyTouches DEF Types, output
  <2>2. call'.at = call.at /\ call'.completed = call.completed /\ call'.cases = call.cases
    BY <1>8, VerifySteps DEF Types, SameTasks
  <2>3. CASE pc' \in VerifierStages /\ call'.rows = call.rows
    BY <2>1, <2>2, <2>3 DEF EvaluationInv, Covers, Evaluation, VerifierStages
  <2>4. CASE pc' \in {"diagnose", "save"}
             /\ \E row \in Row : Verdict(row) /\ call'.rows = Append(call.rows, row)
    <3>1. PICK row \in Row : row.run = call.cases[call.at] /\ call'.rows = Append(call.rows, row)
      BY <2>1, <2>4 DEF Verdict
    <3>2. RunsOf(call'.rows) = RunsOf(call.rows) \cup {call.cases[call.at]}
      BY <1>0, <3>1, RowAdds
    <3>3. Before(call.cases, call.at + 1) = Before(call.cases, call.at + 0) \cup {call.cases[call.at]}
      BY <1>0, <2>1, BeforeGrows
    <3>4. QED
      BY <2>1, <2>2, <2>4, <3>2, <3>3 DEF EvaluationInv, Covers, Evaluation, VerifierStages
  <2>5. QED
    BY <1>8, <2>3, <2>4, VerifySteps DEF Types
<1>9. CASE WriteDiagnostics
  <2>1. CASE Case \in diagnosed
    BY <1>2, <1>9, <2>1 DEF WriteDiagnostics
  <2>2. CASE Case \notin diagnosed
    BY <1>9, <2>2 DEF WriteDiagnostics, EvaluationInv, Covers, Evaluation, VerifierStages
  <2>3. QED
    BY <2>1, <2>2
<1>10. CASE SaveRows
  <2>1. /\ pc = "save" /\ pc' = "verify" /\ results'.rows = call.rows
    BY <1>10 DEF SaveRows
  <2>2. /\ call'.at = call.at + 1 /\ call'.rows = call.rows /\ call'.completed = call.completed
        /\ call'.cases = call.cases
    BY <1>0, <1>10 DEF SaveRows, Advance, Calls
  <2>3. call.at + 1 + 0 = call.at + 1
    BY <1>0
  <2>4. QED
    BY <2>1, <2>2, <2>3 DEF EvaluationInv, Covers, Evaluation
<1>11. CASE FinishRows
  <2>1. /\ pc = "verify" /\ pc' = "review" /\ results'.rows = ByRun(call.rows) /\ call' = call
        /\ call.at = Len(call.cases) + 1
    BY <1>11 DEF FinishRows
  <2>2. RunsOf(results'.rows) = RunsOf(call.rows)
    BY <1>0, <2>1, ByRunKeepsRows
  <2>3. CaseRuns \subseteq RunsOf(call.rows)
    BY <1>0, <2>1, BeforeGrows DEF CaseRuns, EvaluationInv, Covers, Evaluation
  <2>4. QED
    BY <2>1, <2>2, <2>3 DEF EvaluationInv, CaseRuns, Evaluation, VerifierStages
<1>12. CASE WriteReviews
  BY <1>12 DEF WriteReviews, EvaluationInv, CaseRuns, Evaluation, VerifierStages
<1>13. CASE VerifierRaises \/ WriteSummary \/ Dies
  BY <1>2, <1>13 DEF VerifierRaises, WriteSummary, Dies
<1>14. ASSUME NEW mode \in Modes, Begin(mode) PROVE EvaluationInv'
  BY <1>1, <1>14 DEF Begin, Evaluation
<1>15. ASSUME NEW r \in Runs, Drift(r) PROVE EvaluationInv'
  BY <1>3, <1>15 DEF Drift, output
<1>16. ASSUME NEW r \in Runs, NEW judgement \in Judgements, Judge(r, judgement) PROVE EvaluationInv'
  BY <1>3, <1>16 DEF Judge
<1>17. CASE UNCHANGED campaignVars
  BY <1>3, <1>17 DEF campaignVars, output
<1>18. QED
  BY <1>5, <1>6, <1>7, <1>8, <1>9, <1>10, <1>11, <1>12, <1>13, <1>14, <1>15, <1>16, <1>17
     DEF CampaignNext, Process, Evaluate

\* Sorting keeps the number of rows.
LEMMA SameLength ==
  ASSUME NEW rows \in Seq(Row) PROVE Len(ByRun(rows)) = Len(rows)
<1>1. PICK p \in [DOMAIN rows -> DOMAIN rows] : ByRun(rows) = [i \in DOMAIN rows |-> rows[p[i]]]
  BY ByRunRearranges
<1>2. DOMAIN ByRun(rows) = DOMAIN rows /\ ByRun(rows) \in Seq(Row)
  BY <1>1, ByRunKeepsRows
<1> DEFINE B == ByRun(rows)
<1>3. B \in Seq(Row) /\ DOMAIN B = DOMAIN rows
  BY <1>2
<1> HIDE DEF B
<1>4. Len(B) = Len(rows)
  BY <1>3
<1>5. QED
  BY <1>4 DEF B

\* The rows in the file, or in memory, after a step, as a whole.
LEMMA RowsBecome ==
  ASSUME Types, [CampaignNext]_campaignVars
  PROVE  /\ call'.rows \in {call.rows, <<>>, results.rows} \/ VerifyCase
         /\ \/ results'.rows \in {results.rows, call.rows, ByRun(call.rows)}
            \/ \E rows \in {call.rows, ByRun(call.rows)}, k \in 0 .. Len(call.rows) :
                  Dies /\ results'.rows = SubSeq(rows, 1, k)
<1> DEFINE Kept == call'.rows \in {call.rows, <<>>, results.rows}
           Written == \/ results'.rows \in {results.rows, call.rows, ByRun(call.rows)}
                      \/ \E rows \in {call.rows, ByRun(call.rows)}, k \in 0 .. Len(call.rows) :
                            Dies /\ results'.rows = SubSeq(rows, 1, k)
<1>0. call \in Calls /\ call.rows \in Seq(Row)
  BY RowsAreRows DEF Types, CallTypes
<1>1. CASE Prepare
  <2>1. results' = results
    BY <1>1 DEF Prepare, ExistingTrace, Preflight, CollectorRefuses, CollectorStarts, CollectorEnds,
       Ingest, IntakeFails, FreezeContract, ContractFails, Prepared, output
  <2>2. ASSUME ExistingTrace \/ FreezeContract PROVE Kept
    BY <1>0, <2>2, EndForgets DEF ExistingTrace, FreezeContract, Ready, Advance, Calls
  <2>3. ASSUME Preflight \/ CollectorStarts \/ Ingest PROVE Kept
    BY <1>0, <2>3 DEF Preflight, CollectorStarts, Ingest, Advance, Calls
  <2>4. ASSUME CollectorRefuses \/ IntakeFails PROVE Kept
    BY <2>4, TaskFailsKeeps DEF CollectorRefuses, IntakeFails
  <2>5. ASSUME NEW status \in {"failed", "complete"}, CollectorEnds(status) PROVE Kept
    BY <2>5, TaskFailsKeeps DEF CollectorEnds
  <2>6. ASSUME ContractFails \/ Prepared PROVE Kept
    BY <1>0, <2>6, EndForgets DEF ContractFails, Prepared, Advance, Calls
  <2>7. Kept
    BY <1>1, <2>2, <2>3, <2>4, <2>5, <2>6 DEF Prepare
  <2>8. QED
    BY <2>1, <2>7
<1>2. CASE Open
  <2>1. results' = results
    BY <1>2 DEF Open
  <2>2. CASE OutputRefused
    BY <1>2, <2>1, <2>2, EndForgets DEF Open
  <2>3. CASE ~OutputRefused
    BY <1>0, <1>2, <2>1, <2>3 DEF Open, Calls, ExistingRows
  <2>4. QED
    BY <2>2, <2>3
<1>3. CASE SkipCase
  BY <1>0, <1>3 DEF SkipCase, Advance, Calls, output
<1>4. CASE VerifyCase
  BY <1>4, VerifyTouches DEF output
<1>5. CASE VerifierRaises \/ WriteDiagnostics \/ WriteSummary
  BY <1>5, EndForgets DEF VerifierRaises, WriteDiagnostics, WriteSummary, output
<1>6. CASE SaveRows
  BY <1>0, <1>6 DEF SaveRows, Advance, Calls
<1>7. CASE FinishRows \/ WriteReviews
  BY <1>7 DEF FinishRows, WriteReviews
<1>8. CASE Dies
  <2>1. Kept
    BY <1>8, EndForgets DEF Dies
  <2>2. CASE Saving /\ results' # results
    <3>1. PICK rows \in {call.rows, ByRun(call.rows)} : results' \in Rewritten(rows)
      BY <1>8, <2>2 DEF Dies
    <3>2. PICK k \in 0 .. Len(rows) : results'.rows = SubSeq(rows, 1, k)
      BY <2>2, <3>1 DEF Rewritten
    <3>3. Len(ByRun(call.rows)) = Len(call.rows)
      BY <1>0, SameLength
    <3>4. k \in 0 .. Len(call.rows)
      BY <3>1, <3>2, <3>3
    <3>5. Written
      BY <1>8, <3>1, <3>2, <3>4
    <3>6. QED
      BY <2>1, <3>5
  <2>3. CASE ~(Saving /\ results' # results)
    BY <1>8, <2>1, <2>3 DEF Dies
  <2>4. QED
    BY <2>2, <2>3
<1>9. ASSUME NEW mode \in Modes, Begin(mode) PROVE Kept /\ Written
  BY <1>9 DEF Begin, NoCall, output
<1>10. ASSUME NEW r \in Runs, Drift(r) PROVE Kept /\ Written
  BY <1>10 DEF Drift, output
<1>11. ASSUME NEW r \in Runs, NEW judgement \in Judgements, Judge(r, judgement) PROVE Kept /\ Written
  BY <1>11 DEF Judge
<1>12. CASE UNCHANGED campaignVars
  BY <1>12 DEF campaignVars, output
<1>13. QED
  BY <1>1, <1>2, <1>3, <1>4, <1>5, <1>6, <1>7, <1>8, <1>9, <1>10, <1>11, <1>12
     DEF CampaignNext, Process, Evaluate

\* Sorted rows of different runs are rows of different runs.
LEMMA SingleWhenRearranged ==
  ASSUME NEW rows \in Seq(Row), Single(rows) PROVE Single(ByRun(rows))
<1>1. PICK p \in [DOMAIN rows -> DOMAIN rows] :
         /\ \A k, l \in DOMAIN rows : p[k] = p[l] => k = l
         /\ ByRun(rows) = [k \in DOMAIN rows |-> rows[p[k]]]
  BY ByRunRearranges
<1>2. DOMAIN ByRun(rows) = DOMAIN rows /\ \A k \in DOMAIN rows : ByRun(rows)[k] = rows[p[k]]
  BY <1>1
<1>3. SUFFICES ASSUME NEW k \in DOMAIN rows, NEW l \in DOMAIN rows, rows[p[k]].run = rows[p[l]].run
               PROVE  k = l
  BY <1>2 DEF Single
<1>4. QED
  BY <1>1, <1>3 DEF Single

\* So are the first of them.
LEMMA SingleWhenCut ==
  ASSUME NEW rows \in Seq(Row), Single(rows), NEW k \in 0 .. Len(rows)
  PROVE  Single(SubSeq(rows, 1, k))
<1>1. /\ DOMAIN SubSeq(rows, 1, k) \subseteq DOMAIN rows
      /\ \A i \in DOMAIN SubSeq(rows, 1, k) : SubSeq(rows, 1, k)[i] = rows[i]
  BY SubRows
<1>2. QED
  BY <1>1 DEF Single

\* So are they with a row of a run that had none.
LEMMA SingleWhenAdded ==
  ASSUME NEW rows \in Seq(Row), NEW row, Single(rows), row.run \notin RunsOf(rows)
  PROVE  Single(Append(rows, row))
<1> DEFINE more == Append(rows, row)
<1>1. /\ DOMAIN more = DOMAIN rows \cup {Len(rows) + 1} /\ DOMAIN rows = 1 .. Len(rows)
      /\ \A i \in DOMAIN rows : more[i] = rows[i]
      /\ more[Len(rows) + 1] = row
  OBVIOUS
<1> HIDE DEF more
<1>2. \A i \in DOMAIN rows : rows[i].run # row.run
  BY DEF RunsOf
<1>3. Single(more)
  BY <1>1, <1>2 DEF Single
<1>4. QED
  BY <1>3 DEF more

\* No run ever has two rows, in memory or on the disk.
LEMMA SingleKeeps ==
  ASSUME Types, PreparationInv, EvaluationInv, SingleInv, [CampaignNext]_campaignVars
  PROVE  SingleInv'
<1> SUFFICES ASSUME NamesRunsOnce PROVE Single(call'.rows) /\ Single(results'.rows)
  BY DEF SingleInv
<1>0. /\ call \in Calls /\ call.at \in Nat /\ call.rows \in Seq(Row) /\ results.rows \in Seq(Row)
      /\ call.cases \in Seq(Runs)
  BY RowsAreRows DEF Types, CallTypes, Calls
<1>1. Single(ByRun(call.rows)) /\ ByRun(call.rows) \in Seq(Row)
  BY <1>0, SingleWhenRearranged, ByRunKeepsRows DEF SingleInv
<1>2. Single(results'.rows)
  <2>1. CASE results'.rows \in {results.rows, call.rows, ByRun(call.rows)}
    BY <1>1, <2>1 DEF SingleInv
  <2>2. ASSUME NEW rows \in {call.rows, ByRun(call.rows)}, NEW k \in 0 .. Len(call.rows),
               results'.rows = SubSeq(rows, 1, k)
        PROVE  Single(results'.rows)
    <3>1. rows \in Seq(Row) /\ Single(rows)
      BY <1>0, <1>1 DEF SingleInv
    <3>2. k \in 0 .. Len(rows)
      BY <1>0, SameLength
    <3>3. QED
      BY <2>2, <3>1, <3>2, SingleWhenCut
  <2>3. QED
    BY <2>1, <2>2, RowsBecome
<1>3. Single(call'.rows)
  <2>1. CASE call'.rows \in {call.rows, <<>>, results.rows}
    BY <2>1 DEF SingleInv, Single
  <2>2. CASE VerifyCase
    <3>1. CASE call'.rows = call.rows
      BY <3>1 DEF SingleInv
    <3>2. CASE call'.rows # call.rows
      <4>1. PICK row \in Row : row.run = Case /\ call'.rows = Append(call.rows, row)
        BY <2>2, <3>2, VerifySteps DEF Types, Verdict
      <4>2. /\ pc \in {"verify"} \cup VerifierStages /\ call.at \in DOMAIN call.cases
            /\ Case = call.cases[call.at] /\ Case \notin call.completed
        BY <2>2, VerifySteps, VerifyTouches DEF Types
      <4>3. Case \notin Before(call.cases, call.at)
        BY <1>0, <4>2 DEF PreparationInv, Before
      <4>4. Case \notin RunsOf(call.rows)
        BY <1>0, <4>2, <4>3 DEF EvaluationInv, Evaluation, Covers, VerifierStages
      <4>5. QED
        BY <1>0, <4>1, <4>4, SingleWhenAdded DEF SingleInv
    <3>3. QED
      BY <3>1, <3>2
  <2>3. QED
    BY <2>1, <2>2, RowsBecome
<1>4. QED
  BY <1>2, <1>3

\* A call that ends well has a verdict of every run whose contract could be built.
ToldInv == CompleteAccountsForEveryTask

\* What a call says when it ends accounts for every run.
LEMMA ToldKeeps ==
  ASSUME Types, PreparationInv, EvaluationInv, ToldInv, [CampaignNext]_campaignVars PROVE ToldInv'
<1>1. CASE told' = told
  BY <1>1 DEF ToldInv, CompleteAccountsForEveryTask
<1>2. ASSUME NEW status \in {"RAISED", "PREFLIGHT", "DIED"}, End(status) PROVE ToldInv'
  BY <1>2 DEF End, ToldInv, CompleteAccountsForEveryTask
<1>3. ASSUME TaskFails PROVE ToldInv'
  BY <1>1, <1>2, <1>3 DEF TaskFails
<1>4. CASE Prepare
  BY <1>1, <1>2, <1>3, <1>4 DEF Prepare, ExistingTrace, Preflight, CollectorRefuses, CollectorStarts,
     CollectorEnds, Ingest, IntakeFails, FreezeContract, ContractFails, Prepared
<1>5. CASE WriteSummary
  <2>1. pc = "summary" /\ End(ExitStatus)
    BY <1>5 DEF WriteSummary
  <2>2. told'.status = ExitStatus /\ told'.rows = RunsOf(results.rows) /\ told'.unbuilt = call.unbuilt
    BY <2>1 DEF End
  <2>3. ExitStatus = "AUTOMATED_EVALUATION_COMPLETE" => call.failed = {}
    BY DEF ExitStatus
  <2>4. Runs \subseteq Accounted
    BY <2>1 DEF PreparationInv, Evaluation
  <2>5. CaseRuns \subseteq RunsOf(results.rows)
    BY <2>1 DEF EvaluationInv, Evaluation
  <2>6. QED
    BY <2>2, <2>3, <2>4, <2>5 DEF ToldInv, CompleteAccountsForEveryTask, Accounted
<1>6. CASE Open \/ VerifierRaises \/ WriteDiagnostics \/ Dies
  BY <1>1, <1>2, <1>6 DEF Open, VerifierRaises, WriteDiagnostics, Dies
<1>7. CASE SkipCase \/ VerifyCase \/ SaveRows \/ FinishRows \/ WriteReviews
  BY <1>1, <1>7, VerifyTouches DEF SkipCase, SaveRows, FinishRows, WriteReviews
<1>8. ASSUME NEW mode \in Modes, Begin(mode) PROVE ToldInv'
  BY <1>8 DEF Begin, Untold, ToldInv, CompleteAccountsForEveryTask
<1>9. ASSUME NEW r \in Runs, Drift(r) PROVE ToldInv'
  BY <1>1, <1>9 DEF Drift
<1>10. ASSUME NEW r \in Runs, NEW judgement \in Judgements, Judge(r, judgement) PROVE ToldInv'
  BY <1>1, <1>10 DEF Judge
<1>11. CASE UNCHANGED campaignVars
  BY <1>1, <1>11 DEF campaignVars
<1>12. QED
  BY <1>4, <1>5, <1>6, <1>7, <1>8, <1>9, <1>10, <1>11 DEF CampaignNext, Process, Evaluate

CampaignInv ==
    /\ Types /\ OnceInv /\ SettledInv /\ BoundInv
    /\ PreparationInv /\ RootsInv /\ EvaluationInv /\ SingleInv /\ ToldInv

\* The invariant holds before the first call.
LEMMA CampaignStarts == CampaignInit => CampaignInv
<1> SUFFICES ASSUME CampaignInit PROVE CampaignInv
  OBVIOUS
<1>1. SourceTypes
  <2>1. receipt \in [Runs -> Trees \cup {Absent}]
    BY DEF CampaignInit
  <2>2. QED
    BY <2>1 DEF CampaignInit, SourceTypes
<1>2. OutputTypes
  <2>1. reviews = [state |-> "absent", marks |-> << >>] /\ results = [rows |-> <<>>, torn |-> FALSE]
        /\ diagnosed = {} /\ root = FALSE
    BY DEF CampaignInit
  <2>2. reviews \in [state : {"absent", "ok", "headless"}, marks : MarkFiles]
    BY <2>1, EmptyMarks
  <2>3. results \in [rows : Seq(Row), torn : BOOLEAN]
    BY <2>1
  <2>4. QED
    BY <2>1, <2>2, <2>3 DEF OutputTypes
<1>3. PersonTypes
  BY DEF CampaignInit, PersonTypes, Marks
<1>4. CallTypes /\ Where
  BY NoCallIsACall DEF CampaignInit, CallTypes, Where, States, VerifierStages
<1>5. OnceInv
  BY RunIsARun DEF CampaignInit, OnceInv
<1>6. call.cases = <<>> /\ call.rows = <<>> /\ results.rows = <<>> /\ pc = "idle"
  BY DEF CampaignInit, NoCall
<1>7. SettledInv /\ BoundInv
  BY <1>6 DEF SettledInv, BoundInv, CaseRuns, RunsOf
<1>8. PreparationInv /\ RootsInv /\ EvaluationInv /\ SingleInv
  BY <1>6 DEF PreparationInv, RootsInv, EvaluationInv, SingleInv, Single, Preparation, Evaluation,
     VerifierStages
<1>9. ToldInv
  BY DEF CampaignInit, Untold, ToldInv, CompleteAccountsForEveryTask
<1>10. QED
  BY <1>1, <1>2, <1>3, <1>4, <1>5, <1>7, <1>8, <1>9 DEF CampaignInv, Types

\* Every step keeps the invariant.
LEMMA CampaignKeeps == CampaignInv /\ [CampaignNext]_campaignVars => CampaignInv'
<1> SUFFICES ASSUME CampaignInv, [CampaignNext]_campaignVars PROVE CampaignInv'
  OBVIOUS
<1>1. Types'
  BY SourcesAreTyped, OutputIsTyped, PersonIsTyped, CallIsTyped, WhereKeeps DEF CampaignInv, Types
<1>2. QED
  BY <1>1, OnceKeeps, RowsKeep, PreparationKeeps, RootKeeps, EvaluationKeeps, SingleKeeps, ToldKeeps
     DEF CampaignInv

\* The invariant of the campaign.
LEMMA CampaignIsInvariant == CampaignSpec => []CampaignInv
BY CampaignStarts, CampaignKeeps, PTL DEF CampaignSpec

\* Every file and the memory of the call keep their types, for every plan, whatever
\* calls are made, die or are refused.
THEOREM CampaignTypesTheorem == CampaignSpec => []TypeOK
<1>1. CampaignInv => TypeOK
  BY DEF CampaignInv, Types, SourceTypes, OutputTypes, PersonTypes, CallTypes, Calls, MarkFiles, TypeOK
<1>2. QED
  BY <1>1, CampaignIsInvariant, PTL

\* For every plan and every sequence of calls and deaths, the device runs the task of
\* a run id at most once (prepare_generic_runner_collection.py).
THEOREM CollectedOnceTheorem == CampaignSpec => []CollectedOnce
<1>1. CampaignInv => CollectedOnce
  BY DEF CampaignInv, OnceInv, CollectedOnce
<1>2. QED
  BY <1>1, CampaignIsInvariant, PTL

\* results.jsonl never holds two verdicts of one run: what a resumed call read, what
\* it judged itself and what sorting made of both are of different runs, if the plan
\* names no run twice.
THEOREM OneVerdictTheorem == CampaignSpec => []OneVerdictPerRun
<1>1. CampaignInv => OneVerdictPerRun
  BY DEF CampaignInv, SingleInv, Single, OneVerdictPerRun
<1>2. QED
  BY <1>1, CampaignIsInvariant, PTL

\* The directory of a decisive verdict was compared with its receipt, and everything the
\* verifier read for it was in the tree accepted there, unless the directory changed
\* between the first reading and the last: the code looks once.  A run in the file that
\* the plan only collects has a complete trace and a frozen contract.
THEOREM BoundVerdictsTheorem == CampaignSpec => []DecisiveVerdictsAreBound
<1>1. ASSUME CampaignInv PROVE DecisiveVerdictsAreBound
  <2>1. SUFFICES ASSUME NEW i \in DOMAIN results.rows
                 PROVE  LET row == results.rows[i] IN
                        /\ row.verdict = "DECIDED" =>
                             /\ row.checked = receipt[row.run]
                             /\ row.disturbed \/ row.read = {receipt[row.run]}
                        /\ executed[row.run] > 0 /\ row.run \notin Existing
                             => trace[row.run] = "complete" /\ freeze[row.run] # Absent
    BY DEF DecisiveVerdictsAreBound
  <2>2. results.rows[i].run \in RunsOf(results.rows)
    BY DEF RunsOf
  <2>3. Settled(results.rows[i].run) /\ BoundRow(results.rows[i])
    BY <1>1, <2>2 DEF CampaignInv, SettledInv, BoundInv
  <2>4. results.rows[i].run \notin Existing =>
          trace[results.rows[i].run] = "complete" /\ freeze[results.rows[i].run] # Absent
    BY <2>3 DEF Settled, Existing
  <2>5. QED
    BY <2>3, <2>4 DEF BoundRow
<1>2. QED
  BY <1>1, CampaignIsInvariant, PTL

\* A call that reports COMPLETE has a verdict in the file for every run of the plan
\* whose contract could be built.
THEOREM AccountTheorem == CampaignSpec => []CompleteAccountsForEveryTask
<1>1. CampaignInv => CompleteAccountsForEveryTask
  BY DEF CampaignInv, ToldInv
<1>2. QED
  BY <1>1, CampaignIsInvariant, PTL

\* Only a death in the middle of rewriting results.jsonl loses the verdict of a run.
THEOREM RowsOutliveTheorem == CampaignSpec => RowsOutliveCalls
<1>1. ASSUME CampaignInv, [CampaignNext]_campaignVars
      PROVE  RunsOf(results.rows) \subseteq RunsOf(results'.rows) \/ Dies
  <2>1. CASE results'.rows = results.rows
    BY <2>1
  <2>2. ASSUME ~Dies, results'.rows # results.rows PROVE pc \in Evaluation
    BY <1>1, <2>2, VerifyTouches DEF CampaignNext, Process, Prepare, Evaluate, ExistingTrace, Preflight,
       CollectorRefuses, CollectorStarts, CollectorEnds, Ingest, IntakeFails, FreezeContract,
       ContractFails, Prepared, Open, SkipCase, VerifierRaises, WriteDiagnostics,
       SaveRows, FinishRows, WriteReviews, WriteSummary, Begin, Judge, Drift, output, campaignVars,
       Evaluation
  <2>3. CASE ~Dies /\ results'.rows # results.rows
    <3>1. RunsOf(results.rows) \subseteq RunsOf(call.rows)
      BY <1>1, <2>2, <2>3 DEF CampaignInv, EvaluationInv
    <3>2. results'.rows \in {call.rows, ByRun(call.rows)}
      BY <1>1, <2>3, RowsBecome DEF CampaignInv
    <3>3. RunsOf(ByRun(call.rows)) = RunsOf(call.rows)
      BY <1>1, RowsAreRows, ByRunKeepsRows DEF CampaignInv
    <3>4. QED
      BY <3>1, <3>2, <3>3
  <2>4. QED
    BY <2>1, <2>3
<1>2. QED
  BY <1>1, CampaignIsInvariant, PTL DEF CampaignSpec, RowsOutliveCalls

-----------------------------------------------------------------------------
(* The judgements of a person.  user_review.csv is written anew from what  *)
(* a call read when it opened, with the lines of the rows it then has.     *)

\* While a call judges its cases it has read the judgements of the file, but for
\* those entered meanwhile.
Reading == Evaluation \ {"summary"}
ReadInv ==
    pc \in Reading =>
        /\ DOMAIN call.marks = DOMAIN reviews.marks
        /\ \A r \in DOMAIN call.marks \ excused : call.marks[r] = reviews.marks[r]

\* The traces that exist are among the cases as soon as the call has passed their tasks.
Passed(n) == pc \in {"open"} \cup Evaluation \/ (pc \in Preparation /\ n < call.at)
PassedInv == \A n \in DOMAIN Plan :
    Plan[n].kind = "EXISTING_TRACE" /\ Passed(n) => Plan[n].run \in CaseRuns

\* The review speaks of runs that were ready to be judged, and only of an output
\* directory that exists.
MarkedInv ==
    /\ \A r \in DOMAIN reviews.marks : Settled(r)
    /\ root = FALSE => DOMAIN reviews.marks = {}

\* A run that was collected, and whose row was lost, is in no case and no row: the
\* collector refuses its directory, so it never comes back.
Collecting == {"collect", "intake", "contract"}
Dropped(r) ==
    /\ r \notin Existing /\ trace[r] = "complete"
    /\ r \notin CaseRuns /\ r \notin RunsOf(call.rows) /\ r \notin RunsOf(results.rows)
    /\ pc \in Collecting => Run # r

\* The review has the last judgement of every run it speaks of, and a blank only
\* where none was given.
JudgedInv ==
    \A r \in Runs \ excused :
        IF r \in DOMAIN reviews.marks THEN reviews.marks[r] = judged[r]
                                      ELSE judged[r] = "none" \/ Dropped(r)

\* Who touches the review file and the judgements.
LEMMA ReviewSteps ==
  ASSUME [CampaignNext]_campaignVars
  PROVE  \/ \E r \in Runs, judgement \in Judgements : Judge(r, judgement)
         \/ UNCHANGED <<judged, reviews, excused>>
         \/ WriteReviews /\ UNCHANGED <<judged, excused>>
         \/ Dies /\ pc = "review" /\ reviews' \in ReviewsCut /\ excused' = Runs /\ judged' = judged
<1>1. CASE Prepare
  BY <1>1 DEF Prepare, ExistingTrace, Preflight, CollectorRefuses, CollectorStarts, CollectorEnds,
     Ingest, IntakeFails, FreezeContract, ContractFails, Prepared, output, person
<1>2. CASE Open \/ SkipCase \/ VerifyCase \/ VerifierRaises \/ WriteDiagnostics \/ SaveRows
           \/ FinishRows \/ WriteSummary
  BY <1>2, VerifyTouches DEF Open, SkipCase, VerifierRaises, WriteDiagnostics, SaveRows, FinishRows,
     WriteSummary, output, person
<1>3. CASE WriteReviews
  BY <1>3 DEF WriteReviews, person
<1>4. CASE Dies
  BY <1>4 DEF Dies, person
<1>5. ASSUME NEW mode \in Modes, Begin(mode) PROVE UNCHANGED <<judged, reviews, excused>>
  BY <1>5 DEF Begin, output, person
<1>6. ASSUME NEW r \in Runs, Drift(r) PROVE UNCHANGED <<judged, reviews, excused>>
  BY <1>6 DEF Drift, output
<1>7. CASE UNCHANGED campaignVars
  BY <1>7 DEF campaignVars, output, person
<1>8. QED
  BY <1>1, <1>2, <1>3, <1>4, <1>5, <1>6, <1>7 DEF CampaignNext, Process, Evaluate

\* What a call knows of the review is what it read when it opened.
LEMMA MarksRead ==
  ASSUME Types, [CampaignNext]_campaignVars, pc' \in Reading
  PROVE  \/ Open /\ call'.marks = ExistingMarks /\ ~OutputRefused
         \/ pc \in Reading /\ call'.marks = call.marks
<1>0. call \in Calls
  BY DEF Types, CallTypes
<1>1. ASSUME NEW status, End(status) PROVE FALSE
  BY <1>1 DEF End, Reading, Evaluation
<1>2. ASSUME TaskFails PROVE FALSE
  BY <1>1, <1>2 DEF TaskFails, Reading, Evaluation
<1>3. ASSUME Prepare PROVE FALSE
  BY <1>1, <1>2, <1>3 DEF Prepare, ExistingTrace, Preflight, CollectorRefuses, CollectorStarts,
     CollectorEnds, Ingest, IntakeFails, FreezeContract, ContractFails, Prepared, RunnerTask,
     Preparing, Reading, Evaluation
<1>4. CASE Open
  BY <1>0, <1>1, <1>4 DEF Open, Calls
<1>5. CASE SkipCase \/ VerifyCase \/ SaveRows \/ FinishRows
  <2>1. VerifyCase => call'.marks = call.marks
    BY VerifySteps DEF Types, SameTasks
  <2>2. QED
    BY <1>0, <1>5, <2>1, VerifyTouches DEF SkipCase, SaveRows, FinishRows, Verifying, Advance, Calls,
       Reading, Evaluation, VerifierStages
<1>6. CASE WriteDiagnostics
  BY <1>1, <1>6 DEF WriteDiagnostics, Reading, Evaluation
<1>7. ASSUME VerifierRaises \/ WriteReviews \/ WriteSummary \/ Dies PROVE FALSE
  BY <1>1, <1>7 DEF VerifierRaises, WriteReviews, WriteSummary, Dies, Reading, Evaluation
<1>8. ASSUME NEW mode \in Modes, Begin(mode) PROVE FALSE
  BY <1>8 DEF Begin, Reading, Evaluation
<1>9. ASSUME NEW r \in Runs, Drift(r) PROVE UNCHANGED <<pc, call>>
  BY <1>9 DEF Drift
<1>10. ASSUME NEW r \in Runs, NEW judgement \in Judgements, Judge(r, judgement) PROVE UNCHANGED <<pc, call>>
  BY <1>10 DEF Judge
<1>11. CASE UNCHANGED <<pc, call>>
  BY <1>11
<1>12. CASE UNCHANGED campaignVars
  BY <1>11, <1>12 DEF campaignVars
<1>13. QED
  BY <1>3, <1>4, <1>5, <1>6, <1>7, <1>8, <1>9, <1>10, <1>11, <1>12 DEF CampaignNext, Process, Evaluate

LEMMA ReadKeeps ==
  ASSUME Types, ReadInv, MarkedInv, [CampaignNext]_campaignVars PROVE ReadInv'
<1> SUFFICES ASSUME pc' \in Reading
             PROVE  /\ DOMAIN call'.marks = DOMAIN reviews'.marks
                    /\ \A r \in DOMAIN call'.marks \ excused' : call'.marks[r] = reviews'.marks[r]
  BY DEF ReadInv
<1>1. CASE Open /\ call'.marks = ExistingMarks /\ ~OutputRefused
  <2>1. reviews' = reviews
    BY <1>1 DEF Open
  <2>2. CASE call.mode.resume
    BY <1>1, <2>1, <2>2 DEF ExistingMarks
  <2>3. CASE ~call.mode.resume
    <3>1. root = FALSE
      BY <1>1, <2>3 DEF OutputRefused, Types, OutputTypes
    <3>2. call'.marks = << >> /\ DOMAIN reviews.marks = {}
      BY <1>1, <2>3, <3>1 DEF ExistingMarks, MarkedInv
    <3>3. QED
      BY <2>1, <3>2
  <2>4. QED
    BY <2>2, <2>3
<1>2. CASE pc \in Reading /\ call'.marks = call.marks
  <2>1. ASSUME NEW r \in Runs, NEW judgement \in Judgements, Judge(r, judgement) PROVE ReadInv'
    <3>1. /\ reviews' = [reviews EXCEPT !.marks[r] = judgement]
          /\ excused' = excused \cup {r}
      BY <1>2, <2>1 DEF Judge, Reading, Evaluation
    <3>2. reviews \in [state : {"absent", "ok", "headless"}, marks : MarkFiles]
      BY DEF Types, OutputTypes
    <3>3. /\ DOMAIN reviews'.marks = DOMAIN reviews.marks
          /\ \A q \in DOMAIN reviews.marks \ {r} : reviews'.marks[q] = reviews.marks[q]
      BY <3>1, <3>2
    <3>4. QED
      BY <1>2, <3>1, <3>3 DEF ReadInv
  <2>2. CASE UNCHANGED <<reviews, excused>>
    BY <1>2, <2>2 DEF ReadInv
  <2>3. ~WriteReviews /\ ~Dies
    BY DEF WriteReviews, Dies, End, Reading, Evaluation
  <2>4. QED
    BY <2>1, <2>2, <2>3, ReviewSteps DEF ReadInv
<1>3. QED
  BY <1>1, <1>2, MarksRead

\* A call that ended, or that goes on with more cases, has passed nothing it left out.
LEMMA PassedGrows ==
  ASSUME Types, PassedInv, pc \in Preparation, pc' \in Preparation, call.at \in DOMAIN Plan,
         CaseRuns \subseteq CaseRuns',
         \/ call'.at = call.at
         \/ call'.at = call.at + 1 /\ (Plan[call.at].kind = "EXISTING_TRACE" => Run \in CaseRuns')
  PROVE  PassedInv'
<1>1. call.at \in Nat /\ \A n \in DOMAIN Plan : n \in Nat
  BY PlanAssumption DEF Types, CallTypes, Calls
<1>2. ASSUME NEW n \in DOMAIN Plan, Plan[n].kind = "EXISTING_TRACE", n < call'.at
      PROVE  Plan[n].run \in CaseRuns'
  <2>1. CASE n < call.at
    BY <1>2, <2>1 DEF PassedInv, Passed
  <2>2. CASE n = call.at
    BY <1>1, <1>2, <2>2 DEF Run, Task
  <2>3. QED
    BY <1>1, <1>2, <2>1, <2>2
<1>3. QED
  BY <1>2 DEF PassedInv, Passed, Preparation, Evaluation

LEMMA PassedEnds == ASSUME NEW status, End(status) PROVE PassedInv'
BY DEF End, PassedInv, Passed, Preparation, Evaluation

LEMMA PassedFails ==
  ASSUME Types, PassedInv, pc \in Preparation, call.at \in DOMAIN Plan,
         Plan[call.at].kind \in RunnerKinds, TaskFails
  PROVE  PassedInv'
<1>0. call \in Calls
  BY DEF Types, CallTypes
<1>1. CASE call.mode.failFast \/ ~call.mode.execute
  BY <1>1, PassedEnds DEF TaskFails
<1>2. CASE ~(call.mode.failFast \/ ~call.mode.execute)
  <2>1. call'.cases = call.cases /\ call'.at = call.at + 1 /\ pc' = "prepare"
    BY <1>0, <1>2 DEF TaskFails, Advance, Calls
  <2>2. CaseRuns' = CaseRuns
    BY <2>1 DEF CaseRuns
  <2>3. QED
    BY <2>1, <2>2, PassedGrows DEF Preparation, RunnerKinds
<1>3. QED
  BY <1>1, <1>2

\* The task at hand joins the cases.
LEMMA ReadyCases ==
  ASSUME Types, call.at \in DOMAIN Plan, call' = Ready(call)
  PROVE  CaseRuns' = CaseRuns \cup {Run} /\ call'.at = call.at + 1
<1>1. call \in Calls /\ call.cases \in Seq(Runs) /\ Run \in Runs
  BY RowsAreRows, RunIsARun DEF Types, CallTypes, Run, Task
<1>2. call'.cases = Append(call.cases, Run) /\ call'.at = call.at + 1
  BY <1>1 DEF Ready, Advance, Calls
<1>3. /\ DOMAIN call'.cases = DOMAIN call.cases \cup {Len(call.cases) + 1}
      /\ \A k \in DOMAIN call.cases : call'.cases[k] = call.cases[k]
      /\ call'.cases[Len(call.cases) + 1] = Run
  BY <1>1, <1>2
<1>4. QED
  BY <1>2, <1>3 DEF CaseRuns

LEMMA PassedKeeps ==
  ASSUME Types, PassedInv, [CampaignNext]_campaignVars PROVE PassedInv'
<1>0. call \in Calls
  BY DEF Types, CallTypes
<1>1. CASE ExistingTrace
  <2>1. CASE trace[Run] = "absent" \/ receipt[Run] = Absent
    BY <1>1, <2>1, PassedEnds DEF ExistingTrace
  <2>2. CASE ~(trace[Run] = "absent" \/ receipt[Run] = Absent)
    <3>1. call' = Ready(call) /\ pc' = pc /\ pc = "prepare" /\ call.at \in DOMAIN Plan
      BY <1>1, <2>2 DEF ExistingTrace, Preparing
    <3>2. QED
      BY <3>1, ReadyCases, PassedGrows DEF Preparation
  <2>3. QED
    BY <2>1, <2>2
<1>2. CASE FreezeContract
  <2>1. call' = Ready(call) /\ pc' = "prepare" /\ pc = "contract" /\ call.at \in DOMAIN Plan
    BY <1>2 DEF FreezeContract, Types, Where
  <2>2. QED
    BY <2>1, ReadyCases, PassedGrows DEF Preparation
<1>3. CASE Preflight
  <2>1. call'.cases = call.cases /\ call'.at = call.at + 1 /\ pc' = pc
    BY <1>0, <1>3 DEF Preflight, Advance, Calls
  <2>2. pc \in Preparation /\ call.at \in DOMAIN Plan /\ Plan[call.at].kind # "EXISTING_TRACE"
    BY <1>3 DEF Preflight, RunnerTask, Preparing, Preparation, Task, RunnerKinds
  <2>3. CaseRuns' = CaseRuns
    BY <2>1 DEF CaseRuns
  <2>4. QED
    BY <2>1, <2>2, <2>3, PassedGrows
<1>4. CASE CollectorRefuses
  BY <1>4, PassedFails DEF CollectorRefuses, RunnerTask, Preparing, Preparation, Task
<1>5. ASSUME call' = call, Passed(0)' => Passed(0), \A n \in DOMAIN Plan : Passed(n)' => Passed(n)
      PROVE  PassedInv'
  BY <1>5 DEF PassedInv, CaseRuns
<1>6. CASE CollectorStarts \/ Ingest
  BY <1>5, <1>6 DEF CollectorStarts, RunnerTask, Preparing, Ingest, Preparation, Passed, Evaluation
<1>7. ASSUME NEW status \in {"failed", "complete"}, CollectorEnds(status) PROVE PassedInv'
  <2>1. CASE status = "complete"
    BY <1>5, <1>7, <2>1 DEF CollectorEnds, Preparation, Passed, Evaluation
  <2>2. CASE status # "complete"
    BY <1>7, <2>2, PassedFails DEF CollectorEnds, Preparation, Types, Where
  <2>3. QED
    BY <2>1, <2>2
<1>8. CASE IntakeFails
  BY <1>8, PassedFails DEF IntakeFails, Preparation, Types, Where
<1>9. CASE ContractFails
  <2>1. CASE call.mode.failFast
    BY <1>9, <2>1, PassedEnds DEF ContractFails
  <2>2. CASE ~call.mode.failFast
    <3>1. call'.cases = call.cases /\ call'.at = call.at + 1 /\ pc' = "prepare"
      BY <1>0, <1>9, <2>2 DEF ContractFails, Advance, Calls
    <3>2. CaseRuns' = CaseRuns
      BY <3>1 DEF CaseRuns
    <3>3. /\ pc \in Preparation /\ call.at \in DOMAIN Plan
          /\ Plan[call.at].kind # "EXISTING_TRACE"
      BY <1>9 DEF ContractFails, Preparation, Types, Where, RunnerKinds
    <3>4. QED
      BY <3>1, <3>2, <3>3, PassedGrows DEF Preparation
  <2>3. QED
    BY <2>1, <2>2
<1>10. CASE Prepared
  <2>1. CASE ~call.mode.execute /\ HasRunnerTask
    BY <1>10, <2>1, PassedEnds DEF Prepared
  <2>2. CASE ~(~call.mode.execute /\ HasRunnerTask)
    <3>1. pc = "prepare" /\ call' = call /\ call.at = Len(Plan) + 1
      BY <1>10, <2>2 DEF Prepared
    <3>2. \A n \in DOMAIN Plan : Passed(n)
      BY <3>1, PlanAssumption DEF Passed, Preparation
    <3>3. QED
      BY <3>1, <3>2 DEF PassedInv, CaseRuns
  <2>3. QED
    BY <2>1, <2>2
<1>11. ASSUME call'.cases = call.cases, pc \in {"open"} \cup Evaluation PROVE PassedInv'
  BY <1>11 DEF PassedInv, Passed, CaseRuns
<1>12. CASE Open
  BY <1>0, <1>11, <1>12, PassedEnds DEF Open, Calls
<1>13. CASE SkipCase \/ VerifyCase \/ SaveRows \/ FinishRows \/ WriteReviews
  <2>1. pc \in Evaluation
    BY <1>13, VerifyTouches DEF SkipCase, SaveRows, FinishRows, WriteReviews, Verifying, Evaluation,
       VerifierStages
  <2>2. call'.cases = call.cases
    BY <1>0, <1>13, VerifySteps DEF Types, SameTasks, SkipCase, SaveRows, FinishRows, WriteReviews,
       Advance, Calls
  <2>3. QED
    BY <1>11, <2>1, <2>2
<1>14. CASE VerifierRaises \/ WriteDiagnostics \/ WriteSummary \/ Dies
  BY <1>11, <1>14, PassedEnds DEF VerifierRaises, WriteDiagnostics, WriteSummary, Dies, Evaluation
<1>15. ASSUME NEW mode \in Modes, Begin(mode) PROVE PassedInv'
  <2>1. pc' = "prepare" /\ call'.at = 1
    BY <1>15 DEF Begin, NoCall
  <2>2. \A n \in DOMAIN Plan : ~(n < 1)
    BY PlanAssumption
  <2>3. QED
    BY <2>1, <2>2 DEF PassedInv, Passed, Evaluation
<1>16. CASE UNCHANGED <<pc, call>>
  BY <1>16 DEF PassedInv, Passed, CaseRuns
<1>17. ASSUME NEW r \in Runs, Drift(r) PROVE UNCHANGED <<pc, call>>
  BY <1>17 DEF Drift
<1>18. ASSUME NEW r \in Runs, NEW judgement \in Judgements, Judge(r, judgement) PROVE UNCHANGED <<pc, call>>
  BY <1>18 DEF Judge
<1>19. CASE UNCHANGED campaignVars
  BY <1>16, <1>19 DEF campaignVars
<1>20. QED
  BY <1>1, <1>2, <1>3, <1>4, <1>6, <1>7, <1>8, <1>9, <1>10, <1>12, <1>13, <1>14, <1>15, <1>16,
     <1>17, <1>18, <1>19 DEF CampaignNext, Process, Prepare, Evaluate

\* The runs a review file may come to speak of.
LEMMA MarkedRuns ==
  ASSUME Types, [CampaignNext]_campaignVars
  PROVE  \/ DOMAIN reviews'.marks \subseteq DOMAIN reviews.marks
         \/ /\ pc = "review"
            /\ DOMAIN reviews'.marks \subseteq RunsOf(call.rows) \cup RunsOf(results.rows)
<1>1. results.rows \in Seq(Row)
  BY RowsAreRows
<1>2. ASSUME NEW r \in Runs, NEW judgement \in Judgements, Judge(r, judgement)
      PROVE  DOMAIN reviews'.marks = DOMAIN reviews.marks
  <2>1. reviews' = [reviews EXCEPT !.marks[r] = judgement]
    BY <1>2 DEF Judge
  <2>2. QED
    BY <2>1 DEF Types, OutputTypes
<1>3. CASE UNCHANGED reviews
  BY <1>3
<1>4. CASE WriteReviews
  BY <1>4 DEF WriteReviews, Reviews
<1>5. CASE pc = "review" /\ reviews' \in ReviewsCut
  <2>1. ASSUME NEW k \in 0 .. Len(results.rows)
        PROVE  RunsOf(SubSeq(results.rows, 1, k)) \subseteq RunsOf(results.rows)
    <3>1. /\ DOMAIN SubSeq(results.rows, 1, k) \subseteq DOMAIN results.rows
          /\ \A i \in DOMAIN SubSeq(results.rows, 1, k) :
                SubSeq(results.rows, 1, k)[i] = results.rows[i]
      BY <1>1, SubRows
    <3>2. QED
      BY <3>1 DEF RunsOf
  <2>2. CASE reviews' = reviews \/ reviews' = [state |-> "headless", marks |-> << >>]
    BY <2>2
  <2>3. CASE \E k \in 0 .. Len(results.rows) :
               reviews' = [state |-> "ok", marks |-> Reviews(SubSeq(results.rows, 1, k), call.marks)]
    BY <1>5, <2>1, <2>3 DEF Reviews
  <2>4. QED
    BY <1>5, <2>2, <2>3 DEF ReviewsCut
<1>6. QED
  BY <1>2, <1>3, <1>4, <1>5, ReviewSteps

LEMMA MarkedKeeps ==
  ASSUME Types, SettledInv, RootsInv, MarkedInv, [CampaignNext]_campaignVars PROVE MarkedInv'
<1>1. RunsOf(call.rows) \cup RunsOf(results.rows) \cup DOMAIN reviews.marks \subseteq Runs
  BY RowsAreRows, RunsOfRows DEF Types, OutputTypes, MarkFiles
<1>2. \A r \in DOMAIN reviews'.marks : Settled(r)'
  BY <1>1, MarkedRuns, SettledStays DEF MarkedInv, SettledInv
<1>3. root' = root \/ root' = TRUE
  BY VerifyTouches DEF CampaignNext, Process, Prepare, Evaluate, ExistingTrace, Preflight,
     CollectorRefuses, CollectorStarts, CollectorEnds, Ingest, IntakeFails, FreezeContract,
     ContractFails, Prepared, Open, SkipCase, VerifierRaises, WriteDiagnostics,
     SaveRows, FinishRows, WriteReviews, WriteSummary, Begin, Judge, Drift, Dies, output, campaignVars
<1>4. root' = FALSE => DOMAIN reviews'.marks = {}
  BY <1>3, MarkedRuns DEF MarkedInv, RootsInv, Evaluation
<1>5. QED
  BY <1>2, <1>4 DEF MarkedInv

\* A run becomes a case as a trace that exists, or as the one just collected.
LEMMA CasesAreTasks ==
  ASSUME Types, [CampaignNext]_campaignVars, NEW r \in CaseRuns'
  PROVE  r \in CaseRuns \/ r \in Existing \/ (pc = "contract" /\ r = Run)
<1>1. call \in Calls
  BY DEF Types, CallTypes
<1>2. CASE call'.cases = call.cases
  BY <1>2 DEF CaseRuns
<1>3. CASE call'.cases = <<>>
  BY <1>3 DEF CaseRuns
<1>4. CASE ExistingTrace
  <2>1. CASE trace[Run] = "absent" \/ receipt[Run] = Absent
    BY <1>3, <1>4, <2>1, EndForgets DEF ExistingTrace
  <2>2. CASE ~(trace[Run] = "absent" \/ receipt[Run] = Absent)
    <3>1. call' = Ready(call) /\ call.at \in DOMAIN Plan /\ Plan[call.at].kind = "EXISTING_TRACE"
      BY <1>4, <2>2 DEF ExistingTrace, Preparing, Task
    <3>2. Run \in Existing
      BY <3>1 DEF Existing, Run, Task
    <3>3. QED
      BY <3>1, <3>2, ReadyCases
  <2>3. QED
    BY <2>1, <2>2
<1>5. CASE FreezeContract
  <2>1. call' = Ready(call) /\ call.at \in DOMAIN Plan /\ pc = "contract"
    BY <1>5 DEF FreezeContract, Types, Where
  <2>2. QED
    BY <2>1, ReadyCases
<1>7. CASE Preflight \/ CollectorStarts \/ Ingest
  BY <1>1, <1>2, <1>7 DEF Preflight, CollectorStarts, Ingest, Advance, Calls
<1>8. CASE CollectorRefuses \/ IntakeFails
  BY <1>2, <1>3, <1>8, TaskFailsKeeps DEF CollectorRefuses, IntakeFails
<1>9. ASSUME NEW status \in {"failed", "complete"}, CollectorEnds(status)
      PROVE  call'.cases \in {call.cases, <<>>}
  BY <1>9, TaskFailsKeeps DEF CollectorEnds
<1>10. CASE Open
  BY <1>1, <1>2, <1>3, <1>10, EndForgets DEF Open, Calls
<1>11. CASE ContractFails
  BY <1>1, <1>2, <1>3, <1>11, EndForgets DEF ContractFails, Advance, Calls
<1>12. CASE Prepared
  BY <1>2, <1>3, <1>12, EndForgets DEF Prepared
<1>13. CASE SkipCase \/ SaveRows \/ VerifyCase
  <2>1. VerifyCase => call'.cases = call.cases
    BY VerifySteps DEF Types, SameTasks
  <2>2. QED
    BY <1>1, <1>2, <1>13, <2>1 DEF SkipCase, SaveRows, Advance, Calls
<1>14. CASE VerifierRaises \/ WriteDiagnostics \/ WriteSummary
  BY <1>2, <1>3, <1>14, EndForgets DEF VerifierRaises, WriteDiagnostics, WriteSummary
<1>15. CASE FinishRows \/ WriteReviews
  BY <1>2, <1>15 DEF FinishRows, WriteReviews
<1>16. CASE Dies
  BY <1>3, <1>16, EndForgets DEF Dies
<1>17. ASSUME NEW mode \in Modes, Begin(mode) PROVE call'.cases = <<>>
  BY <1>17 DEF Begin, NoCall
<1>18. ASSUME NEW q \in Runs, Drift(q) PROVE UNCHANGED call
  BY <1>18 DEF Drift
<1>19. ASSUME NEW q \in Runs, NEW judgement \in Judgements, Judge(q, judgement) PROVE UNCHANGED call
  BY <1>19 DEF Judge
<1>20. CASE UNCHANGED campaignVars
  BY <1>2, <1>20 DEF campaignVars
<1>21. QED
  BY <1>2, <1>3, <1>4, <1>5, <1>7, <1>8, <1>9, <1>10, <1>11, <1>12, <1>13, <1>14, <1>15,
     <1>16, <1>17, <1>18, <1>19, <1>20 DEF CampaignNext, Process, Prepare, Evaluate

\* A task is with the collector as it was before the step, or its directory was made now.
LEMMA CollectingSteps ==
  ASSUME [CampaignNext]_campaignVars, pc' \in Collecting
  PROVE  call' = call /\ (pc \in Collecting \/ trace[Run] = "absent")
<1>1. ASSUME NEW status, End(status) PROVE FALSE
  BY <1>1 DEF End, Collecting
<1>2. ASSUME TaskFails PROVE FALSE
  BY <1>1, <1>2 DEF TaskFails, Collecting
<1>3. CASE Prepare
  BY <1>1, <1>2, <1>3 DEF Prepare, ExistingTrace, Preflight, CollectorRefuses, CollectorStarts,
     CollectorEnds, Ingest, IntakeFails, FreezeContract, ContractFails, Prepared, RunnerTask,
     Preparing, MayCollect, Collecting
<1>4. ASSUME Evaluate PROVE FALSE
  BY <1>1, <1>4, VerifyTouches DEF Evaluate, Open, SkipCase, VerifierRaises, WriteDiagnostics,
     SaveRows, FinishRows, WriteReviews, WriteSummary, Verifying, Collecting, VerifierStages
<1>5. ~Dies
  BY <1>1 DEF Dies
<1>6. ASSUME NEW mode \in Modes, Begin(mode) PROVE FALSE
  BY <1>6 DEF Begin, Collecting
<1>7. ASSUME NEW r \in Runs, Drift(r) PROVE UNCHANGED <<pc, call>>
  BY <1>7 DEF Drift
<1>8. ASSUME NEW r \in Runs, NEW judgement \in Judgements, Judge(r, judgement) PROVE UNCHANGED <<pc, call>>
  BY <1>8 DEF Judge
<1>9. CASE UNCHANGED campaignVars
  BY <1>9 DEF campaignVars
<1>10. QED
  BY <1>3, <1>4, <1>5, <1>6, <1>7, <1>8, <1>9 DEF CampaignNext, Process

\* What was dropped stays out.
LEMMA DroppedStays ==
  ASSUME Types, [CampaignNext]_campaignVars, NEW r \in Runs, Dropped(r) PROVE Dropped(r)'
<1>1. r \notin Existing' /\ trace'[r] = "complete"
  BY FilesStand DEF Dropped, Existing
<1>2. r \notin CaseRuns'
  BY CasesAreTasks DEF Dropped, Collecting
<1>3. r \notin RunsOf(call'.rows)
  <2>1. ASSUME NEW i \in DOMAIN call'.rows PROVE call'.rows[i].run # r
    BY CallRowsCome DEF Dropped, RunsOf
  <2>2. QED
    BY <2>1 DEF RunsOf
<1>4. r \notin RunsOf(results'.rows)
  <2>1. ASSUME NEW i \in DOMAIN results'.rows PROVE results'.rows[i].run # r
    BY ResultRowsCome DEF Dropped, RunsOf
  <2>2. QED
    BY <2>1 DEF RunsOf
<1>5. pc' \in Collecting => Run' # r
  BY CollectingSteps DEF Dropped, Run, Task
<1>6. QED
  BY <1>1, <1>2, <1>3, <1>4, <1>5 DEF Dropped

\* The review keeps the judgements.
LEMMA JudgedKeeps ==
  ASSUME Types, PreparationInv, EvaluationInv, PassedInv, MarkedInv, ReadInv, JudgedInv,
         [CampaignNext]_campaignVars
  PROVE  JudgedInv'
<1>0. /\ call \in Calls /\ judged \in [Runs -> Marks]
      /\ reviews \in [state : {"absent", "ok", "headless"}, marks : MarkFiles]
  BY DEF Types, CallTypes, OutputTypes, PersonTypes
<1>1. ASSUME NEW r \in Runs, NEW judgement \in Judgements, Judge(r, judgement) PROVE JudgedInv'
  <2>1. /\ r \in DOMAIN reviews.marks
        /\ reviews' = [reviews EXCEPT !.marks[r] = judgement]
        /\ judged' = [judged EXCEPT ![r] = judgement]
        /\ excused \ {r} \subseteq excused'
    BY <1>1 DEF Judge
  <2>2. /\ DOMAIN reviews'.marks = DOMAIN reviews.marks
        /\ reviews'.marks[r] = judgement /\ judged'[r] = judgement
        /\ \A q \in DOMAIN reviews.marks \ {r} : reviews'.marks[q] = reviews.marks[q]
        /\ \A q \in Runs \ {r} : judged'[q] = judged[q]
    BY <1>0, <2>1
  <2>3. ASSUME NEW q \in Runs \ excused'
        PROVE  IF q \in DOMAIN reviews'.marks THEN reviews'.marks[q] = judged'[q]
                                              ELSE judged'[q] = "none" \/ Dropped(q)'
    <3>1. CASE q = r
      BY <2>1, <2>2, <3>1
    <3>2. CASE q # r
      BY <2>1, <2>2, <3>2, DroppedStays DEF JudgedInv
    <3>3. QED
      BY <3>1, <3>2
  <2>4. QED
    BY <2>3 DEF JudgedInv
<1>2. CASE UNCHANGED <<judged, reviews, excused>>
  BY <1>2, DroppedStays DEF JudgedInv
<1>3. CASE WriteReviews /\ UNCHANGED <<judged, excused>>
  <2>1. /\ pc = "review" /\ pc' = "summary" /\ call' = call /\ results' = results
        /\ trace' = trace
        /\ reviews'.marks = Reviews(call.rows, call.marks)
    BY <1>3 DEF WriteReviews, sources
  <2>2. /\ DOMAIN reviews'.marks = RunsOf(call.rows)
        /\ \A q \in RunsOf(call.rows) :
              reviews'.marks[q] = IF q \in DOMAIN call.marks THEN call.marks[q] ELSE "none"
    BY <2>1 DEF Reviews
  <2>3. ASSUME NEW q \in Runs \ excused, q \in RunsOf(call.rows)
        PROVE  reviews'.marks[q] = judged[q]
    <3>1. ~Dropped(q)
      BY <2>3 DEF Dropped
    <3>2. QED
      BY <2>1, <2>2, <2>3, <3>1 DEF JudgedInv, ReadInv, Reading, Evaluation
  <2>4. ASSUME NEW q \in Runs \ excused, q \notin RunsOf(call.rows)
        PROVE  judged[q] = "none" \/ Dropped(q)'
    <3>1. CASE q \notin DOMAIN reviews.marks
      BY <2>4, <3>1, DroppedStays DEF JudgedInv
    <3>2. CASE q \in DOMAIN reviews.marks
      <4>1. q \notin CaseRuns /\ q \notin RunsOf(results.rows)
        BY <2>1, <2>4 DEF EvaluationInv, Evaluation
      <4>2. q \notin Existing
        BY <2>1, <4>1 DEF Existing, PassedInv, Passed, Evaluation
      <4>3. trace[q] = "complete"
        BY <3>2, <4>2 DEF MarkedInv, Settled, Existing
      <4>4. QED
        BY <2>1, <2>4, <4>1, <4>2, <4>3 DEF Dropped, Collecting, CaseRuns, Existing
    <3>3. QED
      BY <3>1, <3>2
  <2>5. QED
    BY <1>3, <2>2, <2>3, <2>4 DEF JudgedInv
<1>4. CASE excused' = Runs
  BY <1>4 DEF JudgedInv
<1>5. QED
  BY <1>1, <1>2, <1>3, <1>4, ReviewSteps

ReviewInv == ReadInv /\ PassedInv /\ MarkedInv /\ JudgedInv

\* The review keeps the last judgement of every run it speaks of, and never gets a
\* blank in its place, unless it was given while a call was running or a call died as it
\* rewrote the file - however often the plan is called, whatever dies or is refused, and
\* though a run may lose its row.
THEOREM JudgementsTheorem == CampaignSpec => []JudgementsSurvive
<1>1. CampaignInit => ReviewInv
  <2> SUFFICES ASSUME CampaignInit PROVE ReviewInv
    OBVIOUS
  <2>1. pc = "idle" /\ DOMAIN reviews.marks = {} /\ judged = [r \in Runs |-> "none"]
    BY DEF CampaignInit
  <2>2. QED
    BY <2>1 DEF ReviewInv, ReadInv, PassedInv, Passed, MarkedInv, JudgedInv, Reading, Evaluation,
       Preparation
<1>2. CampaignInv /\ ReviewInv /\ [CampaignNext]_campaignVars => ReviewInv'
  BY ReadKeeps, PassedKeeps, MarkedKeeps, JudgedKeeps DEF ReviewInv, CampaignInv
<1>3. CampaignInv /\ ReviewInv => JudgementsSurvive
  <2>1. CampaignInv => DOMAIN reviews.marks \subseteq Runs
    BY DEF CampaignInv, Types, OutputTypes, MarkFiles
  <2>2. QED
    BY <2>1 DEF ReviewInv, JudgedInv, JudgementsSurvive
<1>4. QED
  BY <1>1, <1>2, <1>3, CampaignIsInvariant, PTL DEF CampaignSpec

-----------------------------------------------------------------------------
(* The desktop client.                                                     *)

FormFields == {"mode", "device", "serial", "tick", "folder"}
RequestFields == FormFields \cup {"shown"}
Event == [run : RunIds, index : Nat]
Reported == 0 .. MaxRuns + 1
Screens == [status : {"READY", "RUNNING", "COMPLETE", "ERROR"}, run : 0 .. MaxRuns,
            log : Seq(Event), report : Reported, output : Reported]
Messages ==
    [kind : {"devices"}, found : SUBSET Targets]
      \cup [kind : {"model_event"}, run : RunIds, index : Nat]
      \cup [kind : {"result", "error"}, run : RunIds]
Stages == {"NEW", "CALLED", "VALIDATED", "WORK", "TELL", "DONE"}

FormTypes == DOMAIN form = FormFields /\ form.mode \in PcEvaluationMode /\ form.folder \in Folders
RequestTypes ==
    /\ DOMAIN request = RunIds
    /\ \A r \in RunIds : /\ DOMAIN request[r] = RequestFields
                         /\ request[r].mode \in PcEvaluationMode /\ request[r].folder \in Folders
ThreadTypes ==
    /\ started \in 0 .. MaxRuns /\ stage \in [RunIds -> Stages]
    /\ saved \in [RunIds -> 0 .. MaxRuns] /\ environ \in 0 .. MaxRuns /\ counted \in Nat
    /\ folder \in [Folders -> [journal : Seq(Event), report : Reported]]
WindowTypes == running \in BOOLEAN /\ screen \in Screens /\ inbox \in Seq(Messages)

\* A sequence with one element appended.
LEMMA SeqAppend ==
  ASSUME NEW T, NEW s \in Seq(T), NEW x \in T
  PROVE  /\ Append(s, x) \in Seq(T)
         /\ DOMAIN s = 1 .. Len(s) /\ Len(s) \in Nat
         /\ DOMAIN Append(s, x) = 1 .. Len(s) + 1 /\ Len(Append(s, x)) = Len(s) + 1
         /\ \A i \in 1 .. Len(s) : Append(s, x)[i] = s[i]
         /\ Append(s, x)[Len(s) + 1] = x
OBVIOUS

\* A sequence without its first element.
LEMMA SeqTail ==
  ASSUME NEW T, NEW s \in Seq(T), s # <<>>
  PROVE  /\ Tail(s) \in Seq(T)
         /\ DOMAIN s = 1 .. Len(s) /\ Len(s) \in Nat /\ Len(s) > 0
         /\ DOMAIN Tail(s) = 1 .. Len(s) - 1 /\ Len(Tail(s)) = Len(s) - 1
         /\ \A i \in 1 .. Len(s) - 1 : Tail(s)[i] = s[i + 1]
         /\ Head(s) = s[1] /\ s[1] \in T
OBVIOUS

\* The folder proposed next is within the bound on folders.
LEMMA FolderIsNew ==
  ASSUME RequestTypes, ThreadTypes PROVE NewOutputDir \in Folders
<1> DEFINE given == {request[r].folder : r \in 1 .. started}
           f == [r \in 1 .. started |-> request[r].folder]
<1>1. started \in Nat /\ started <= MaxRuns /\ MaxRuns \in Nat
  BY BoundsAssumption DEF ThreadTypes
<1>2. f \in Surjection(1 .. started, given)
  BY DEF Surjection
<1>3. IsFiniteSet(1 .. started) /\ Cardinality(1 .. started) = started
  <2>1. Cardinality(1 .. started) = IF 1 > started THEN 0 ELSE started - 1 + 1
    BY <1>1, FS_Interval
  <2>2. QED
    BY <1>1, <2>1, FS_Interval
<1>4. IsFiniteSet(given) /\ Cardinality(given) <= started
  BY <1>2, <1>3, FS_Surjection
<1>5. Cardinality(given) \in Nat
  BY <1>4, FS_CardinalityType
<1>6. NewOutputDir = 1 + Cardinality(given)
  BY DEF NewOutputDir
<1> HIDE DEF given
<1>7. QED
  BY <1>1, <1>4, <1>5, <1>6 DEF Folders

\* The form names a mode and a folder, whatever is edited or detected.
LEMMA FormIsTyped ==
  ASSUME FormTypes, RequestTypes, ThreadTypes, [SessionNext]_sessionVars PROVE FormTypes'
<1>1. CASE UNCHANGED form
  BY <1>1 DEF FormTypes
<1>2. ASSUME NEW m \in PcEvaluationMode, SetMode(m) PROVE FormTypes'
  BY <1>2 DEF SetMode, FormTypes, FormFields
<1>3. CASE EditTarget
  BY <1>3 DEF EditTarget, Edits, FormTypes, FormFields
<1>4. CASE SelectDevice
  BY <1>4 DEF SelectDevice, FormTypes, FormFields
<1>5. CASE Tick
  BY <1>5 DEF Tick, FormTypes, FormFields
<1>6. CASE ChooseFolder
  <2>1. PICK r \in 1 .. started : form' = [form EXCEPT !.folder = request[r].folder]
    BY <1>6 DEF ChooseFolder
  <2>2. r \in RunIds
    BY BoundsAssumption DEF ThreadTypes, RunIds
  <2>3. QED
    BY <2>1, <2>2 DEF RequestTypes, FormTypes, FormFields
<1>7. CASE FinishDeviceDiscovery
  BY <1>1, <1>7 DEF FinishDeviceDiscovery, FormTypes, FormFields
<1>8. CASE FinishSuccess
  <2>1. UNCHANGED form \/ form' = [form EXCEPT !.folder = NewOutputDir, !.tick = FALSE]
    BY <1>8 DEF FinishSuccess
  <2>2. QED
    BY <1>1, <2>1, FolderIsNew DEF FormTypes, FormFields
<1>9. CASE RefreshDevices \/ StartRun \/ Confirm \/ Decline \/ Dismiss \/ ScanEnds \/ AppendModelEvent
           \/ FinishError
  BY <1>1, <1>9 DEF RefreshDevices, StartRun, Confirm, Decline, Dismiss, ScanEnds, AppendModelEvent,
     FinishError, window
<1>10. ASSUME NEW r \in RunIds, Worker(r) PROVE UNCHANGED form
  BY <1>10 DEF Worker, Validate, OpenJournal, WriteEvent, LoseEvent, TellEvent, Succeed, Fail, window
<1>11. CASE UNCHANGED sessionVars
  BY <1>1, <1>11 DEF sessionVars, window
<1>12. QED
  BY <1>1, <1>2, <1>3, <1>4, <1>5, <1>6, <1>7, <1>8, <1>9, <1>10, <1>11
     DEF SessionNext, Operator, PollEvents

SessionTypes == FormTypes /\ RequestTypes /\ ThreadTypes /\ WindowTypes

\* The one evaluation there is: the last one started, shown on the screen, alone in
\* having a thread, and the only one the queue speaks of.
OneEvaluation ==
    /\ \A r \in RunIds : /\ r > started => stage[r] = "NEW"
                         /\ r < started => stage[r] = "DONE"
                         /\ r = started => stage[r] # "NEW"
    /\ started > 0 /\ stage[started] # "DONE" => running
    /\ screen.run = started
    /\ box.kind = "CONFIRM" => ~running /\ started < MaxRuns
    /\ screen.status = "COMPLETE" => ~running /\ started > 0
Answers == {"result", "error"}
OneAnswer ==
    \A i \in DOMAIN inbox :
        /\ inbox[i].kind # "devices" => running /\ started > 0 /\ inbox[i].run = started
        /\ inbox[i].kind \in Answers =>
             /\ stage[started] = "DONE"
             /\ \A j \in DOMAIN inbox : j > i => inbox[j].kind = "devices"

\* What the operator may do: change the form, be asked, or start an evaluation.
Edited ==
    /\ UNCHANGED <<evaluation, running, screen, inbox>>
    /\ box'.kind = "CONFIRM" => box' = box \/ (~running /\ started < MaxRuns)
Launched ==
    /\ started < MaxRuns /\ ~running
    /\ \E serial : /\ Launch(started + 1, serial)
                   /\ form.mode = "DEVICE_EXECUTION" => box.kind = "CONFIRM" /\ serial = box.serial
    /\ box'.kind # "CONFIRM"
    /\ UNCHANGED <<saved, environ, counted, folder, inbox>>

\* An action of the operator edits, asks, or starts an evaluation that was agreed to.
LEMMA OperatorSteps ==
  ASSUME SessionTypes, OneEvaluation, Operator PROVE Edited \/ Launched
<1>1. CASE Confirm
  <2>1. started < MaxRuns /\ ~running /\ box.kind = "CONFIRM"
    BY <1>1 DEF Confirm, OneEvaluation
  <2>2. Launch(started + 1, box.serial) /\ box'.kind # "CONFIRM"
    BY <1>1 DEF Confirm, NoBox
  <2>3. UNCHANGED <<saved, environ, counted, folder, inbox>>
    BY <1>1 DEF Confirm
  <2>4. QED
    BY <2>1, <2>2, <2>3 DEF Launched
<1>2. CASE StartRun
  <2>1. CASE form.mode = "DEVICE_EXECUTION"
    BY <1>2, <2>1 DEF StartRun, Edited, evaluation
  <2>2. CASE form.mode # "DEVICE_EXECUTION"
    <3>1. started < MaxRuns /\ ~running /\ box' = box /\ box.kind = "NONE"
          /\ Launch(started + 1, form.serial) /\ UNCHANGED <<saved, environ, counted, folder, inbox>>
      BY <1>2, <2>2 DEF StartRun
    <3>2. QED
      BY <2>2, <3>1 DEF Launched
  <2>3. QED
    BY <2>1, <2>2
<1>3. CASE Decline \/ Dismiss
  <2>1. box'.kind = "NONE"
    <3>1. box' = NoBox
      BY <1>3 DEF Decline, Dismiss
    <3>2. QED
      BY <3>1 DEF NoBox
  <2>2. UNCHANGED <<evaluation, running, screen, inbox>>
    BY <1>3 DEF Decline, Dismiss
  <2>3. QED
    BY <2>1, <2>2 DEF Edited
<1>4. CASE EditTarget \/ SelectDevice \/ Tick \/ ChooseFolder \/ RefreshDevices
  BY <1>4 DEF EditTarget, SelectDevice, Tick, ChooseFolder, RefreshDevices, Edited
<1>5. ASSUME NEW m \in PcEvaluationMode, SetMode(m) PROVE Edited
  BY <1>5 DEF SetMode, Edited
<1>6. QED
  BY <1>1, <1>2, <1>3, <1>4, <1>5 DEF Operator

\* A thread that works is that of the last evaluation.
LEMMA OneWorks ==
  ASSUME SessionTypes, OneEvaluation, NEW r \in RunIds, stage[r] \notin {"NEW", "DONE"}
  PROVE  r = started /\ running /\ started > 0 /\ started \in RunIds
BY BoundsAssumption DEF SessionTypes, ThreadTypes, OneEvaluation, RunIds

\* A step of an evaluation is one of its live thread.
LEMMA WorkerWorks ==
  ASSUME NEW r \in RunIds, Worker(r) PROVE stage[r] \notin {"NEW", "DONE"}
BY DEF Worker, Validate, OpenJournal, WriteEvent, LoseEvent, TellEvent, Succeed, Fail, Reports

\* What the parts of a new request are.
LEMMA LaunchedRequest ==
  ASSUME SessionTypes, started < MaxRuns, NEW serial, Launch(started + 1, serial)
  PROVE  LET r == started + 1 IN
         /\ r \in RunIds /\ started' = r
         /\ DOMAIN request' = RunIds /\ DOMAIN request'[r] = RequestFields
         /\ request'[r].mode = form.mode /\ request'[r].folder = form.folder
         /\ form.mode = "DEVICE_EXECUTION" =>
              request'[r].serial = serial /\ request'[r].tick = form.tick /\ request'[r].shown = box
         /\ \A q \in RunIds : q # r => request'[q] = request[q]
<1> DEFINE r == started + 1
           asked == IF form.mode = "DEVICE_EXECUTION"
                    THEN [mode |-> form.mode, device |-> form.device, serial |-> serial,
                          tick |-> form.tick, folder |-> form.folder, shown |-> box]
                    ELSE [NoRequest EXCEPT !.mode = form.mode, !.folder = form.folder]
<1>1. r \in RunIds
  BY BoundsAssumption DEF SessionTypes, ThreadTypes, RunIds
<1>2. request' = [request EXCEPT ![r] = asked] /\ started' = r
  BY DEF Launch
<1>3. /\ DOMAIN asked = RequestFields /\ asked.mode = form.mode /\ asked.folder = form.folder
      /\ form.mode = "DEVICE_EXECUTION" =>
           asked.serial = serial /\ asked.tick = form.tick /\ asked.shown = box
  <2>1. CASE form.mode = "DEVICE_EXECUTION"
    BY <2>1 DEF RequestFields, FormFields
  <2>2. CASE form.mode # "DEVICE_EXECUTION"
    BY <2>2 DEF NoRequest, RequestFields, FormFields
  <2>3. QED
    BY <2>1, <2>2
<1> HIDE DEF asked
<1>4. request'[r] = asked /\ DOMAIN request' = RunIds /\ \A q \in RunIds : q # r => request'[q] = request[q]
  BY <1>1, <1>2 DEF SessionTypes, RequestTypes
<1>5. QED
  BY <1>1, <1>2, <1>3, <1>4

\* Of the request of an evaluation that ended, the mode and the folder remain.
LEMMA EndedRequest ==
  ASSUME SessionTypes, NEW r \in RunIds, NEW kind, Ends(r, kind)
  PROVE  /\ DOMAIN request' = RunIds /\ DOMAIN request'[r] = RequestFields
         /\ request'[r].mode = request[r].mode /\ request'[r].folder = request[r].folder
         /\ \A q \in RunIds : q # r => request'[q] = request[q]
<1> DEFINE left == [NoRequest EXCEPT !.mode = request[r].mode, !.folder = request[r].folder]
<1>1. request' = [request EXCEPT ![r] = left]
  BY DEF Ends
<1>2. DOMAIN left = RequestFields /\ left.mode = request[r].mode /\ left.folder = request[r].folder
  BY DEF NoRequest, RequestFields, FormFields
<1> HIDE DEF left
<1>3. QED
  BY <1>1, <1>2 DEF SessionTypes, RequestTypes

\* The requests keep their types.
LEMMA RequestIsTyped ==
  ASSUME SessionTypes, OneEvaluation, [SessionNext]_sessionVars PROVE RequestTypes'
<1>1. CASE UNCHANGED request
  BY <1>1 DEF SessionTypes, RequestTypes
<1>2. CASE Operator
  <2>1. CASE Edited
    BY <1>1, <2>1 DEF Edited, evaluation
  <2>2. CASE Launched
    BY <2>2, LaunchedRequest DEF Launched, SessionTypes, FormTypes, RequestTypes
  <2>3. QED
    BY <1>2, <2>1, <2>2, OperatorSteps
<1>3. ASSUME NEW r \in RunIds, Worker(r) PROVE RequestTypes'
  <2>1. ASSUME NEW kind, Ends(r, kind) PROVE RequestTypes'
    BY <2>1, EndedRequest DEF SessionTypes, RequestTypes
  <2>2. CASE Succeed(r) \/ Fail(r)
    BY <2>1, <2>2 DEF Succeed, Fail
  <2>3. CASE Validate(r) \/ OpenJournal(r) \/ WriteEvent(r) \/ LoseEvent(r) \/ TellEvent(r)
    BY <1>1, <2>3 DEF Validate, OpenJournal, WriteEvent, LoseEvent, TellEvent
  <2>4. QED
    BY <1>3, <2>2, <2>3 DEF Worker
<1>4. CASE ScanEnds \/ PollEvents
  BY <1>1, <1>4 DEF ScanEnds, PollEvents, FinishDeviceDiscovery, AppendModelEvent, FinishSuccess,
     FinishError, evaluation
<1>5. CASE UNCHANGED sessionVars
  BY <1>1, <1>5 DEF sessionVars, evaluation
<1>6. QED
  BY <1>2, <1>3, <1>4, <1>5 DEF SessionNext

\* The threads, the settings and the folders keep their types.
LEMMA ThreadsAreTyped ==
  ASSUME SessionTypes, OneEvaluation, [SessionNext]_sessionVars PROVE ThreadTypes'
<1>1. CASE UNCHANGED <<started, stage, saved, environ, counted, folder>>
  BY <1>1 DEF SessionTypes, ThreadTypes
<1>2. CASE Operator
  <2>1. CASE Edited
    BY <1>1, <2>1 DEF Edited, evaluation
  <2>2. CASE Launched
    <3>1. PICK serial : Launch(started + 1, serial)
      BY <2>2 DEF Launched
    <3>2. started' = started + 1 /\ stage' = [stage EXCEPT ![started + 1] = "CALLED"]
      BY <3>1 DEF Launch
    <3>3. started' \in 0 .. MaxRuns /\ stage' \in [RunIds -> Stages]
      <4>1. started < MaxRuns /\ started \in Nat /\ MaxRuns \in Nat /\ stage \in [RunIds -> Stages]
        BY <2>2, BoundsAssumption DEF Launched, SessionTypes, ThreadTypes
      <4>2. "CALLED" \in Stages
        BY DEF Stages
      <4>3. started' \in 0 .. MaxRuns
        BY <3>2, <4>1
      <4>4. stage' \in [RunIds -> Stages]
        BY <3>2, <4>1, <4>2
      <4>5. QED
        BY <4>3, <4>4
    <3>4. QED
      BY <2>2, <3>3 DEF Launched, SessionTypes, ThreadTypes
  <2>3. QED
    BY <1>2, <2>1, <2>2, OperatorSteps
<1>3. ASSUME NEW r \in RunIds, Worker(r) PROVE ThreadTypes'
  <2>0. /\ request[r].folder \in Folders /\ r \in 0 .. MaxRuns /\ r \in Reported /\ Torn \in Reported
        /\ counted \in Nat /\ saved[r] \in 0 .. MaxRuns
        /\ folder[request[r].folder].journal \in Seq(Event)
    BY BoundsAssumption DEF SessionTypes, RequestTypes, ThreadTypes, RunIds, Reported, Torn
  <2>1. ASSUME NEW kind, Ends(r, kind), started' = started,
               folder' \in [Folders -> [journal : Seq(Event), report : Reported]]
        PROVE  ThreadTypes'
    BY <2>0, <2>1, BoundsAssumption DEF Ends, SessionTypes, ThreadTypes, Stages, Inherited, NoRun
  <2>2. ASSUME NEW content \in {r, Torn}, WriteReport(r, content)
        PROVE  folder' \in [Folders -> [journal : Seq(Event), report : Reported]]
    BY <2>0, <2>2 DEF WriteReport, SessionTypes, ThreadTypes
  <2>3. CASE Succeed(r)
    BY <2>1, <2>2, <2>3 DEF Succeed, SessionTypes, ThreadTypes
  <2>4. CASE Fail(r)
    BY <2>1, <2>2, <2>4 DEF Fail, SessionTypes, ThreadTypes
  <2>5. CASE Validate(r)
    BY <2>0, <2>5 DEF Validate, SessionTypes, ThreadTypes, Stages
  <2>6. CASE OpenJournal(r)
    <3>1. folder' = [folder EXCEPT ![request[r].folder].journal = <<>>] /\ <<>> \in Seq(Event)
      BY <2>6 DEF OpenJournal
    <3>2. folder' \in [Folders -> [journal : Seq(Event), report : Reported]]
      BY <2>0, <3>1 DEF SessionTypes, ThreadTypes
    <3>3. QED
      BY <2>6, <3>2 DEF OpenJournal, SessionTypes, ThreadTypes, Stages
  <2>7. CASE WriteEvent(r)
    <3>1. [run |-> r, index |-> counted + 1] \in Event
      BY <2>0 DEF Event
    <3>2. Append(folder[request[r].folder].journal, [run |-> r, index |-> counted + 1]) \in Seq(Event)
      BY <2>0, <3>1, SeqAppend
    <3>3. folder' = [folder EXCEPT ![request[r].folder].journal =
             Append(folder[request[r].folder].journal, [run |-> r, index |-> counted + 1])]
      BY <2>7 DEF WriteEvent
    <3>4. folder' \in [Folders -> [journal : Seq(Event), report : Reported]]
      BY <2>0, <3>2, <3>3 DEF SessionTypes, ThreadTypes
    <3>5. QED
      BY <2>0, <2>7, <3>4 DEF WriteEvent, SessionTypes, ThreadTypes, Stages
  <2>8. CASE LoseEvent(r) \/ TellEvent(r)
    BY <2>0, <2>8 DEF LoseEvent, TellEvent, SessionTypes, ThreadTypes, Stages
  <2>9. QED
    BY <1>3, <2>3, <2>4, <2>5, <2>6, <2>7, <2>8 DEF Worker
<1>4. CASE ScanEnds \/ PollEvents
  BY <1>1, <1>4 DEF ScanEnds, PollEvents, FinishDeviceDiscovery, AppendModelEvent, FinishSuccess,
     FinishError, evaluation
<1>5. CASE UNCHANGED sessionVars
  BY <1>1, <1>5 DEF sessionVars, evaluation
<1>6. QED
  BY <1>2, <1>3, <1>4, <1>5 DEF SessionNext

\* The screen and the queue keep their types.
LEMMA WindowIsTyped ==
  ASSUME SessionTypes, OneEvaluation, [SessionNext]_sessionVars PROVE WindowTypes'
<1>0. /\ inbox \in Seq(Messages) /\ screen \in Screens /\ running \in BOOLEAN
      /\ form.folder \in Reported /\ NoRun \in Reported /\ \A r \in RunIds : r \in 0 .. MaxRuns
  BY BoundsAssumption DEF SessionTypes, WindowTypes, FormTypes, Folders, Reported, NoRun, RunIds
<1>1. CASE UNCHANGED <<running, screen, inbox>>
  BY <1>1 DEF SessionTypes, WindowTypes
<1>2. ASSUME NEW message \in Messages, inbox' = Append(inbox, message), UNCHANGED <<running, screen>>
      PROVE  WindowTypes'
  BY <1>0, <1>2, SeqAppend DEF WindowTypes
<1>3. CASE Operator
  <2>1. CASE Edited
    BY <1>1, <2>1 DEF Edited
  <2>2. CASE Launched
    <3>1. PICK serial : Launch(started + 1, serial)
      BY <2>2 DEF Launched
    <3>2. running' = TRUE /\ screen' = [Blank EXCEPT !.status = "RUNNING", !.run = started + 1]
      BY <3>1 DEF Launch
    <3>3. started + 1 \in 0 .. MaxRuns
      BY <2>2, BoundsAssumption DEF Launched, SessionTypes, ThreadTypes
    <3>4. screen' \in Screens
      <4>1. screen' = [status |-> "RUNNING", run |-> started + 1, log |-> <<>>, report |-> NoRun,
                       output |-> NoRun]
        BY <3>2 DEF Blank
      <4>2. <<>> \in Seq(Event)
        OBVIOUS
      <4>3. QED
        BY <1>0, <3>3, <4>1, <4>2 DEF Screens
    <3>5. QED
      BY <1>0, <2>2, <3>2, <3>4 DEF Launched, WindowTypes
  <2>3. QED
    BY <1>3, <2>1, <2>2, OperatorSteps
<1>4. CASE ScanEnds
  <2>1. PICK found \in SUBSET Targets : inbox' = Append(inbox, [kind |-> "devices", found |-> found])
    BY <1>4 DEF ScanEnds
  <2>2. [kind |-> "devices", found |-> found] \in Messages
    BY DEF Messages
  <2>3. UNCHANGED <<running, screen>>
    BY <1>4 DEF ScanEnds, window
  <2>4. QED
    BY <1>2, <2>1, <2>2, <2>3
<1>5. ASSUME NEW r \in RunIds, Worker(r) PROVE WindowTypes'
  <2>1. UNCHANGED <<running, screen>>
    BY <1>5 DEF Worker, Validate, OpenJournal, WriteEvent, LoseEvent, TellEvent, Succeed, Fail, window
  <2>2. CASE Succeed(r) \/ Fail(r)
    <3>1. PICK kind \in {"result", "error"} : inbox' = Append(inbox, [kind |-> kind, run |-> r])
      BY <2>2 DEF Succeed, Fail, Ends
    <3>2. [kind |-> kind, run |-> r] \in Messages
      BY DEF Messages
    <3>3. QED
      BY <1>2, <2>1, <3>1, <3>2
  <2>3. CASE TellEvent(r)
    <3>1. inbox' = Append(inbox, [kind |-> "model_event", run |-> r, index |-> counted])
      BY <2>3 DEF TellEvent
    <3>2. [kind |-> "model_event", run |-> r, index |-> counted] \in Messages
      BY DEF Messages, SessionTypes, ThreadTypes
    <3>3. QED
      BY <1>2, <2>1, <3>1, <3>2
  <2>4. CASE Validate(r) \/ OpenJournal(r) \/ WriteEvent(r) \/ LoseEvent(r)
    BY <1>1, <2>1, <2>4 DEF Validate, OpenJournal, WriteEvent, LoseEvent
  <2>5. QED
    BY <1>5, <2>2, <2>3, <2>4 DEF Worker
<1>6. CASE PollEvents
  <2>1. inbox # <<>> /\ inbox' = Tail(inbox)
    BY <1>6 DEF PollEvents, FinishDeviceDiscovery, AppendModelEvent, FinishSuccess, FinishError, Receive
  <2>2. inbox' \in Seq(Messages) /\ Head(inbox) \in Messages
    BY <1>0, <2>1, SeqTail
  <2>3. running' \in BOOLEAN
    BY <1>0, <1>6 DEF PollEvents, FinishDeviceDiscovery, AppendModelEvent, FinishSuccess, FinishError
  <2>4. ASSUME FinishDeviceDiscovery PROVE screen' \in Screens
    BY <1>0, <2>4 DEF FinishDeviceDiscovery
  <2>5. ASSUME AppendModelEvent PROVE screen' \in Screens
    <3>1. Head(inbox).kind = "model_event"
      BY <2>5 DEF AppendModelEvent, Receive
    <3>2. [run |-> Head(inbox).run, index |-> Head(inbox).index] \in Event
      BY <2>2, <3>1 DEF Messages, Event
    <3>3. Append(screen.log, [run |-> Head(inbox).run, index |-> Head(inbox).index]) \in Seq(Event)
      BY <1>0, <3>2, SeqAppend DEF Screens
    <3>4. screen' = [screen EXCEPT !.log =
             Append(screen.log, [run |-> Head(inbox).run, index |-> Head(inbox).index])]
      BY <2>5 DEF AppendModelEvent
    <3>5. QED
      BY <1>0, <3>3, <3>4 DEF Screens
  <2>6. ASSUME FinishSuccess PROVE screen' \in Screens
    <3>1. Head(inbox).kind = "result"
      BY <2>6 DEF FinishSuccess, Receive
    <3> DEFINE r == Head(inbox).run
               given == request[r].folder
               report == folder[given].report
    <3>2. r \in RunIds
      BY <2>2, <3>1 DEF Messages
    <3>3. given \in Folders /\ given \in Reported
      BY <3>2, BoundsAssumption DEF SessionTypes, RequestTypes, Folders, Reported
    <3>4. report \in Reported
      BY <3>3 DEF SessionTypes, ThreadTypes
    <3>5. \/ screen' = [screen EXCEPT !.status = "COMPLETE", !.output = given]
          \/ screen' = [screen EXCEPT !.status = "COMPLETE", !.output = given, !.report = report]
      BY <2>6 DEF FinishSuccess
    <3> HIDE DEF given, report
    <3>6. QED
      BY <1>0, <3>3, <3>4, <3>5 DEF Screens
  <2>7. ASSUME FinishError PROVE screen' \in Screens
    <3>1. PICK given \in {NoRun, form.folder} :
             screen' = [screen EXCEPT !.status = "ERROR", !.output = given]
      BY <2>7 DEF FinishError
    <3>2. given \in Reported
      BY <1>0
    <3>3. QED
      BY <1>0, <3>1, <3>2 DEF Screens
  <2>8. screen' \in Screens
    BY <1>6, <2>4, <2>5, <2>6, <2>7 DEF PollEvents
  <2>9. QED
    BY <2>2, <2>3, <2>8 DEF WindowTypes
<1>7. CASE UNCHANGED sessionVars
  BY <1>1, <1>7 DEF sessionVars, window
<1>8. QED
  BY <1>3, <1>4, <1>5, <1>6, <1>7 DEF SessionNext

\* The queue and what an evaluation leaves of it: how a step changes the two.
LEMMA OneEvaluationKeeps ==
  ASSUME SessionTypes, OneEvaluation, OneAnswer, [SessionNext]_sessionVars PROVE OneEvaluation'
<1>0. started \in Nat /\ stage \in [RunIds -> Stages] /\ running \in BOOLEAN /\ RunIds \subseteq Nat
      /\ DOMAIN screen = {"status", "run", "log", "report", "output"}
  BY BoundsAssumption DEF SessionTypes, ThreadTypes, WindowTypes, RunIds, Screens
<1>1. CASE UNCHANGED <<started, stage, running, box, screen>>
  BY <1>1 DEF OneEvaluation
<1>2. CASE Operator
  <2>1. CASE Edited
    BY <2>1 DEF Edited, evaluation, OneEvaluation
  <2>2. CASE Launched
    <3>1. PICK serial : Launch(started + 1, serial)
      BY <2>2 DEF Launched
    <3>2. /\ started' = started + 1 /\ stage' = [stage EXCEPT ![started + 1] = "CALLED"]
          /\ running' = TRUE /\ screen' = [Blank EXCEPT !.status = "RUNNING", !.run = started + 1]
          /\ box'.kind # "CONFIRM" /\ ~running
      BY <2>2, <3>1 DEF Launch, Launched
    <3>3. screen'.run = started' /\ screen'.status = "RUNNING"
      BY <3>2 DEF Blank
    <3>4. started > 0 => stage[started] = "DONE"
      BY <3>2 DEF OneEvaluation
    <3>5. \A r \in RunIds : /\ r > started' => stage'[r] = "NEW"
                            /\ r < started' => stage'[r] = "DONE"
                            /\ r = started' => stage'[r] # "NEW"
      <4>1. \A r \in RunIds : stage'[r] = IF r = started + 1 THEN "CALLED" ELSE stage[r]
        BY <1>0, <3>2
      <4>2. TAKE r \in RunIds
      <4>3. r \in Nat /\ started' = started + 1
        BY <1>0, <3>2
      <4>4. r > started' => stage'[r] = "NEW"
        BY <1>0, <4>1, <4>3 DEF OneEvaluation
      <4>5. r < started' => stage'[r] = "DONE"
        <5>1. CASE r < started
          BY <1>0, <4>1, <4>3, <5>1 DEF OneEvaluation
        <5>2. CASE r = started
          BY <1>0, <3>4, <4>1, <4>3, <5>2, BoundsAssumption DEF RunIds
        <5>3. QED
          BY <1>0, <4>3, <5>1, <5>2
      <4>6. r = started' => stage'[r] # "NEW"
        BY <4>1, <4>3
      <4>7. QED
        BY <4>4, <4>5, <4>6
    <3>6. QED
      BY <3>2, <3>3, <3>5 DEF OneEvaluation
  <2>3. QED
    BY <1>2, <2>1, <2>2, OperatorSteps
<1>3. ASSUME NEW r \in RunIds, Worker(r) PROVE OneEvaluation'
  <2>1. r = started /\ running /\ started > 0
    BY <1>3, OneWorks, WorkerWorks
  <2>2. UNCHANGED <<running, screen, box, started>>
    BY <1>3 DEF Worker, Validate, OpenJournal, WriteEvent, LoseEvent, TellEvent, Succeed, Fail, window
  <2>3. stage' = stage \/ \E s \in {"VALIDATED", "WORK", "TELL", "DONE"} : stage' = [stage EXCEPT ![r] = s]
    BY <1>3 DEF Worker, Validate, OpenJournal, WriteEvent, LoseEvent, TellEvent, Succeed, Fail, Ends
  <2>4. \A q \in RunIds : q # r => stage'[q] = stage[q]
    BY <1>0, <2>3
  <2>5. stage'[r] # "NEW"
    BY <1>0, <1>3, <2>3, WorkerWorks
  <2>6. QED
    BY <1>0, <2>1, <2>2, <2>4, <2>5 DEF OneEvaluation
<1>4. CASE ScanEnds
  BY <1>1, <1>4 DEF ScanEnds, window, evaluation
<1>5. CASE FinishDeviceDiscovery
  BY <1>1, <1>5 DEF FinishDeviceDiscovery, evaluation
<1>6. CASE AppendModelEvent
  <2>1. UNCHANGED <<started, stage, running, box>>
    BY <1>6 DEF AppendModelEvent, evaluation
  <2>2. screen'.run = screen.run /\ screen'.status = screen.status
    BY <1>0, <1>6 DEF AppendModelEvent
  <2>3. QED
    BY <2>1, <2>2 DEF OneEvaluation
<1>7. CASE FinishSuccess \/ FinishError
  <2>1. inbox # <<>> /\ Head(inbox).kind \in Answers
    BY <1>7 DEF FinishSuccess, FinishError, Receive, Answers
  <2>2. 1 \in DOMAIN inbox /\ Head(inbox) = inbox[1]
    BY <2>1, SeqTail DEF SessionTypes, WindowTypes
  <2>3. stage[started] = "DONE" /\ started > 0 /\ running
    BY <2>1, <2>2 DEF OneAnswer, Answers
  <2>4. UNCHANGED <<started, stage>> /\ running' = FALSE
    BY <1>7 DEF FinishSuccess, FinishError, evaluation
  <2>5. screen'.run = screen.run
    BY <1>0, <1>7 DEF FinishSuccess, FinishError
  <2>6. box'.kind # "CONFIRM"
    BY <1>7, <2>3 DEF FinishSuccess, FinishError, NoBox, OneEvaluation
  <2>7. QED
    BY <2>3, <2>4, <2>5, <2>6 DEF OneEvaluation
<1>8. CASE UNCHANGED sessionVars
  BY <1>1, <1>8 DEF sessionVars, window, evaluation
<1>9. QED
  BY <1>2, <1>3, <1>4, <1>5, <1>6, <1>7, <1>8 DEF SessionNext, PollEvents

\* The queue speaks of the running evaluation only, and its answer comes last.
LEMMA OneAnswerKeeps ==
  ASSUME SessionTypes, OneEvaluation, OneAnswer, [SessionNext]_sessionVars PROVE OneAnswer'
<1>0. inbox \in Seq(Messages) /\ started \in Nat /\ stage \in [RunIds -> Stages]
  BY DEF SessionTypes, ThreadTypes, WindowTypes
<1>1. CASE UNCHANGED <<started, stage, running, inbox>>
  BY <1>1 DEF OneAnswer
<1>2. CASE Operator
  <2>1. CASE Edited
    BY <1>1, <2>1 DEF Edited, evaluation
  <2>2. CASE Launched
    <3>1. ~running /\ inbox' = inbox
      BY <2>2 DEF Launched
    <3>2. \A i \in DOMAIN inbox : inbox[i].kind = "devices"
      BY <3>1 DEF OneAnswer
    <3>3. QED
      BY <3>1, <3>2 DEF OneAnswer, Answers
  <2>3. QED
    BY <1>2, <2>1, <2>2, OperatorSteps
<1>3. CASE ScanEnds
  <2>1. PICK found \in SUBSET Targets : inbox' = Append(inbox, [kind |-> "devices", found |-> found])
    BY <1>3 DEF ScanEnds
  <2> DEFINE message == [kind |-> "devices", found |-> found]
  <2>2. message \in Messages /\ message.kind = "devices"
    BY DEF Messages
  <2>3. inbox' = Append(inbox, message)
    BY <2>1
  <2> HIDE DEF message
  <2>4. UNCHANGED <<started, stage, running>>
    BY <1>3 DEF ScanEnds, window, evaluation
  <2>5. /\ DOMAIN inbox = 1 .. Len(inbox) /\ Len(inbox) \in Nat /\ DOMAIN inbox' = 1 .. Len(inbox) + 1
        /\ \A i \in 1 .. Len(inbox) : inbox'[i] = inbox[i]
        /\ inbox'[Len(inbox) + 1] = message
    BY <1>0, <2>2, <2>3, SeqAppend
  <2>6. QED
    BY <2>2, <2>4, <2>5 DEF OneAnswer, Answers
<1>4. ASSUME NEW r \in RunIds, Worker(r) PROVE OneAnswer'
  <2>1. r = started /\ running /\ started > 0 /\ stage[r] # "DONE"
    BY <1>4, OneWorks, WorkerWorks
  <2>2. UNCHANGED <<running, started>>
    BY <1>4 DEF Worker, Validate, OpenJournal, WriteEvent, LoseEvent, TellEvent, Succeed, Fail, window
  <2>3. \A i \in DOMAIN inbox : inbox[i].kind \notin Answers
    BY <2>1 DEF OneAnswer
  <2>4. CASE inbox' = inbox
    BY <2>2, <2>3, <2>4 DEF OneAnswer
  <2>5. ASSUME NEW message \in Messages, inbox' = Append(inbox, message), message.run = r,
               message.kind \in Answers => stage'[r] = "DONE"
        PROVE  OneAnswer'
    <3>1. /\ DOMAIN inbox = 1 .. Len(inbox) /\ Len(inbox) \in Nat /\ DOMAIN inbox' = 1 .. Len(inbox) + 1
          /\ \A i \in 1 .. Len(inbox) : inbox'[i] = inbox[i]
          /\ inbox'[Len(inbox) + 1] = message
      BY <1>0, <2>5, SeqAppend
    <3>2. QED
      BY <2>1, <2>2, <2>3, <2>5, <3>1 DEF OneAnswer
  <2>6. CASE TellEvent(r)
    <3> DEFINE message == [kind |-> "model_event", run |-> r, index |-> counted]
    <3>1. message \in Messages /\ message.kind = "model_event" /\ message.run = r
      BY DEF Messages, SessionTypes, ThreadTypes
    <3>2. inbox' = Append(inbox, message)
      BY <2>6 DEF TellEvent
    <3> HIDE DEF message
    <3>3. QED
      BY <2>5, <3>1, <3>2 DEF Answers
  <2>7. CASE Succeed(r) \/ Fail(r)
    <3>1. PICK kind \in Answers : Ends(r, kind)
      BY <2>7 DEF Succeed, Fail, Answers
    <3> DEFINE message == [kind |-> kind, run |-> r]
    <3>2. message \in Messages /\ message.run = r
      BY DEF Messages, Answers
    <3>3. inbox' = Append(inbox, message) /\ stage'[r] = "DONE"
      BY <1>0, <3>1 DEF Ends
    <3> HIDE DEF message
    <3>4. QED
      BY <2>5, <3>2, <3>3
  <2>8. CASE Validate(r) \/ OpenJournal(r) \/ WriteEvent(r) \/ LoseEvent(r)
    BY <2>4, <2>8 DEF Validate, OpenJournal, WriteEvent, LoseEvent
  <2>9. QED
    BY <1>4, <2>6, <2>7, <2>8 DEF Worker
<1>5. CASE PollEvents
  <2>1. inbox # <<>> /\ inbox' = Tail(inbox) /\ UNCHANGED <<started, stage>>
    BY <1>5 DEF PollEvents, FinishDeviceDiscovery, AppendModelEvent, FinishSuccess, FinishError, Receive,
       evaluation
  <2>2. /\ DOMAIN inbox = 1 .. Len(inbox) /\ Len(inbox) \in Nat /\ Len(inbox) > 0
        /\ DOMAIN inbox' = 1 .. Len(inbox) - 1 /\ Head(inbox) = inbox[1]
        /\ \A i \in 1 .. Len(inbox) - 1 : inbox'[i] = inbox[i + 1]
    BY <1>0, <2>1, SeqTail
  <2>3. CASE running' = running
    BY <2>1, <2>2, <2>3 DEF OneAnswer
  <2>4. CASE running' # running
    <3>1. Head(inbox).kind \in Answers
      BY <1>5, <2>4 DEF PollEvents, FinishDeviceDiscovery, AppendModelEvent, FinishSuccess, FinishError,
         Receive, Answers
    <3>2. \A i \in DOMAIN inbox : i > 1 => inbox[i].kind = "devices"
      BY <2>2, <3>1 DEF OneAnswer
    <3>3. \A i \in DOMAIN inbox' : inbox'[i].kind = "devices"
      <4>1. TAKE i \in DOMAIN inbox'
      <4>2. inbox'[i] = inbox[i + 1] /\ i + 1 \in DOMAIN inbox /\ i + 1 > 1
        BY <2>2
      <4>3. QED
        BY <3>2, <4>2
    <3>4. QED
      BY <3>3 DEF OneAnswer, Answers
  <2>5. QED
    BY <2>3, <2>4
<1>6. CASE UNCHANGED sessionVars
  BY <1>1, <1>6 DEF sessionVars, window, evaluation
<1>7. QED
  BY <1>2, <1>3, <1>4, <1>5, <1>6 DEF SessionNext

-----------------------------------------------------------------------------
Operates(r) == stage[r] \notin {"NEW", "DONE"} /\ request[r].mode = "DEVICE_EXECUTION"
\* What the operator agreed to is what the thread was given.
AgreedInv ==
    \A r \in RunIds : Operates(r) =>
        /\ request[r].shown.kind = "CONFIRM" /\ request[r].serial = request[r].shown.serial
        /\ stage[r] \in Working => request[r].tick

\* What a thread that operates a device was given is what its operator agreed to.
LEMMA AgreedKeeps ==
  ASSUME SessionTypes, OneEvaluation, AgreedInv, [SessionNext]_sessionVars PROVE AgreedInv'
<1>0. stage \in [RunIds -> Stages]
  BY DEF SessionTypes, ThreadTypes
<1>1. CASE UNCHANGED <<stage, request>>
  BY <1>1 DEF AgreedInv, Operates
<1>2. CASE Operator
  <2>1. CASE Edited
    BY <1>1, <2>1 DEF Edited, evaluation
  <2>2. CASE Launched
    <3>1. PICK serial : /\ Launch(started + 1, serial)
                        /\ form.mode = "DEVICE_EXECUTION" => box.kind = "CONFIRM" /\ serial = box.serial
      BY <2>2 DEF Launched
    <3>2. started < MaxRuns
      BY <2>2 DEF Launched
    <3> DEFINE r == started + 1
    <3>3. /\ r \in RunIds /\ request'[r].mode = form.mode
          /\ form.mode = "DEVICE_EXECUTION" =>
               request'[r].serial = serial /\ request'[r].tick = form.tick /\ request'[r].shown = box
          /\ \A q \in RunIds : q # r => request'[q] = request[q]
      BY <3>1, <3>2, LaunchedRequest
    <3>4. stage' = [stage EXCEPT ![r] = "CALLED"]
      BY <3>1 DEF Launch
    <3> HIDE DEF r
    <3>5. \A q \in RunIds : stage'[q] = IF q = r THEN "CALLED" ELSE stage[q]
      BY <1>0, <3>4
    <3>6. QED
      BY <3>1, <3>3, <3>5 DEF AgreedInv, Operates, Working
  <2>3. QED
    BY <1>2, <2>1, <2>2, OperatorSteps
<1>3. ASSUME NEW r \in RunIds, Worker(r) PROVE AgreedInv'
  <2>1. CASE Succeed(r) \/ Fail(r)
    <3>1. PICK kind : Ends(r, kind)
      BY <2>1 DEF Succeed, Fail
    <3>2. \A q \in RunIds : q # r => request'[q] = request[q]
      BY <3>1, EndedRequest
    <3>3. stage' = [stage EXCEPT ![r] = "DONE"]
      BY <3>1 DEF Ends
    <3>4. QED
      BY <1>0, <3>2, <3>3 DEF AgreedInv, Operates
  <2>2. CASE Validate(r)
    <3>1. /\ request' = request /\ stage' = [stage EXCEPT ![r] = "VALIDATED"] /\ stage[r] = "CALLED"
          /\ request[r].mode = "DEVICE_EXECUTION" => request[r].tick
      BY <2>2 DEF Validate
    <3>2. QED
      BY <1>0, <3>1 DEF AgreedInv, Operates, Working
  <2>3. CASE OpenJournal(r) \/ WriteEvent(r) \/ LoseEvent(r) \/ TellEvent(r)
    <3>1. /\ request' = request /\ stage[r] \in Working
          /\ stage' = stage \/ \E s \in {"WORK", "TELL"} : stage' = [stage EXCEPT ![r] = s]
      BY <2>3 DEF OpenJournal, WriteEvent, LoseEvent, TellEvent, Working
    <3>2. \A q \in RunIds : stage'[q] = stage[q] \/ q = r
      BY <1>0, <3>1
    <3>3. \A q \in RunIds : /\ Operates(q)' => Operates(q)
                            /\ stage'[q] \in Working => stage[q] \in Working
      BY <3>1, <3>2 DEF Operates, Working
    <3>4. QED
      BY <3>1, <3>3 DEF AgreedInv
  <2>4. QED
    BY <1>3, <2>1, <2>2, <2>3 DEF Worker
<1>4. CASE ScanEnds \/ PollEvents
  BY <1>1, <1>4 DEF ScanEnds, PollEvents, FinishDeviceDiscovery, AppendModelEvent, FinishSuccess,
     FinishError, evaluation
<1>5. CASE UNCHANGED sessionVars
  BY <1>1, <1>5 DEF sessionVars, evaluation
<1>6. QED
  BY <1>2, <1>3, <1>4, <1>5 DEF SessionNext

SettingsInv ==
    \A r \in RunIds :
        /\ (environ = r) <=> stage[r] \in Working /\ request[r].mode = "DEVICE_EXECUTION"
        /\ environ = r => saved[r] = Inherited

\* The settings of the process are those of the evaluation that operates a device.
LEMMA SettingsKeep ==
  ASSUME SessionTypes, OneEvaluation, SettingsInv, [SessionNext]_sessionVars PROVE SettingsInv'
<1>0. /\ stage \in [RunIds -> Stages] /\ environ \in 0 .. MaxRuns /\ saved \in [RunIds -> 0 .. MaxRuns]
      /\ \A r \in RunIds : r \in Nat /\ r # Inherited
      /\ environ # Inherited => environ \in RunIds
  BY BoundsAssumption DEF SessionTypes, ThreadTypes, RunIds, Inherited, NoRun
<1>1. CASE UNCHANGED <<stage, request, saved, environ>>
  BY <1>1 DEF SettingsInv
<1>2. CASE Operator
  <2>1. CASE Edited
    BY <1>1, <2>1 DEF Edited, evaluation
  <2>2. CASE Launched
    <3>1. PICK serial : Launch(started + 1, serial)
      BY <2>2 DEF Launched
    <3>2. started < MaxRuns /\ UNCHANGED <<saved, environ>>
      BY <2>2 DEF Launched
    <3> DEFINE r == started + 1
    <3>3. r \in RunIds /\ \A q \in RunIds : q # r => request'[q] = request[q]
      BY <3>1, <3>2, LaunchedRequest
    <3>4. stage' = [stage EXCEPT ![r] = "CALLED"]
      BY <3>1 DEF Launch
    <3>5. stage[r] = "NEW"
      BY <3>3, BoundsAssumption DEF OneEvaluation, SessionTypes, ThreadTypes
    <3> HIDE DEF r
    <3>6. \A q \in RunIds : stage'[q] = IF q = r THEN "CALLED" ELSE stage[q]
      BY <1>0, <3>4
    <3>7. QED
      BY <3>2, <3>3, <3>5, <3>6 DEF SettingsInv, Working
  <2>3. QED
    BY <1>2, <2>1, <2>2, OperatorSteps
<1>3. ASSUME NEW r \in RunIds, Worker(r) PROVE SettingsInv'
  <2>1. CASE Succeed(r) \/ Fail(r)
    <3>1. PICK kind : Ends(r, kind)
      BY <2>1 DEF Succeed, Fail
    <3>2. \A q \in RunIds : q # r => request'[q] = request[q]
      BY <3>1, EndedRequest
    <3>3. \A q \in RunIds : /\ stage'[q] = IF q = r THEN "DONE" ELSE stage[q]
                            /\ saved'[q] = IF q = r THEN Inherited ELSE saved[q]
      BY <1>0, <3>1 DEF Ends
    <3>4. environ' = IF environ = r THEN Inherited ELSE environ
      BY <3>1 DEF Ends, SettingsInv
    <3>5. QED
      BY <1>0, <3>2, <3>3, <3>4 DEF SettingsInv, Working
  <2>2. CASE Validate(r)
    <3>1. /\ request' = request /\ stage[r] = "CALLED"
          /\ \A q \in RunIds : stage'[q] = IF q = r THEN "VALIDATED" ELSE stage[q]
      BY <1>0, <2>2 DEF Validate
    <3>2. environ = Inherited
      <4>1. SUFFICES ASSUME environ \in RunIds PROVE FALSE
        BY <1>0
      <4>2. stage[environ] \in Working
        BY <4>1 DEF SettingsInv
      <4>3. environ = started /\ r = started
        BY <3>1, <4>1, <4>2, OneWorks DEF Working
      <4>4. QED
        BY <3>1, <4>2, <4>3 DEF Working
    <3>3. CASE request[r].mode = "DEVICE_EXECUTION"
      <4>1. environ' = r /\ \A q \in RunIds : saved'[q] = IF q = r THEN Inherited ELSE saved[q]
        BY <1>0, <2>2, <3>2, <3>3 DEF Validate
      <4>2. QED
        BY <1>0, <3>1, <3>2, <3>3, <4>1 DEF SettingsInv, Working
    <3>4. CASE request[r].mode # "DEVICE_EXECUTION"
      <4>1. UNCHANGED <<saved, environ>>
        BY <2>2, <3>4 DEF Validate
      <4>2. QED
        BY <1>0, <3>1, <3>2, <3>4, <4>1 DEF SettingsInv, Working
    <3>5. QED
      BY <3>3, <3>4
  <2>3. CASE OpenJournal(r) \/ WriteEvent(r) \/ LoseEvent(r) \/ TellEvent(r)
    <3>1. /\ UNCHANGED <<request, saved, environ>> /\ stage[r] \in Working
          /\ stage' = stage \/ \E s \in {"WORK", "TELL"} : stage' = [stage EXCEPT ![r] = s]
      BY <2>3 DEF OpenJournal, WriteEvent, LoseEvent, TellEvent, Working
    <3>2. \A q \in RunIds : stage'[q] = stage[q] \/ (q = r /\ stage'[q] \in Working)
      BY <1>0, <3>1 DEF Working
    <3>3. \A q \in RunIds : stage'[q] \in Working <=> stage[q] \in Working
      BY <3>1, <3>2
    <3>4. QED
      BY <3>1, <3>3 DEF SettingsInv
  <2>4. QED
    BY <1>3, <2>1, <2>2, <2>3 DEF Worker
<1>4. CASE ScanEnds \/ PollEvents
  BY <1>1, <1>4 DEF ScanEnds, PollEvents, FinishDeviceDiscovery, AppendModelEvent, FinishSuccess,
     FinishError, evaluation
<1>5. CASE UNCHANGED sessionVars
  BY <1>1, <1>5 DEF sessionVars, evaluation
<1>6. QED
  BY <1>2, <1>3, <1>4, <1>5 DEF SessionNext

-----------------------------------------------------------------------------
\* The events of the journal: those on the screen, those in the queue in their
\* order, and perhaps one the thread has still to tell of.
Placed(journal, log, queue, untold, n, place) ==
    /\ Len(journal) = Len(log) + n + untold
    /\ \A i \in 1 .. Len(log) : log[i] = journal[i]
    /\ \A k \in 1 .. n : /\ queue[place[k]].kind = "model_event"
                         /\ queue[place[k]].run = journal[Len(log) + k].run
                         /\ queue[place[k]].index = journal[Len(log) + k].index
    /\ \A k, l \in 1 .. n : k < l => place[k] < place[l]
    /\ \A i \in DOMAIN queue : queue[i].kind = "model_event" => \E k \in 1 .. n : place[k] = i
Flowing(journal, log, queue, untold) ==
    \E n \in Nat : \E place \in [1 .. n -> DOMAIN queue] : Placed(journal, log, queue, untold, n, place)
Silent(queue) == \A i \in DOMAIN queue : queue[i].kind # "model_event"

\* An empty journal, nothing shown and nothing queued.
LEMMA FlowStarts ==
  ASSUME NEW queue \in Seq(Messages), Silent(queue) PROVE Flowing(<<>>, <<>>, queue, 0)
<1> DEFINE place == [k \in 1 .. 0 |-> 0]
<1>1. place \in [1 .. 0 -> DOMAIN queue]
  OBVIOUS
<1> HIDE DEF place
<1>2. Len(<<>>) = Len(<<>>) + 0 + 0
  OBVIOUS
<1>3. \A k \in 1 .. 0 : FALSE
  OBVIOUS
<1>4. \A i \in 1 .. Len(<<>>) : FALSE
  OBVIOUS
<1>5. QED
  <2>1. Placed(<<>>, <<>>, queue, 0, 0, place)
    BY <1>2, <1>3, <1>4 DEF Placed, Silent
  <2>2. QED
    BY <1>1, <2>1 DEF Flowing

\* A queued message that is no event changes nothing.
LEMMA FlowQueuesOther ==
  ASSUME NEW journal, NEW log, NEW queue \in Seq(Messages), NEW untold, NEW message \in Messages,
         Flowing(journal, log, queue, untold), message.kind # "model_event"
  PROVE  Flowing(journal, log, Append(queue, message), untold)
<1> DEFINE more == Append(queue, message)
<1>1. /\ DOMAIN queue = 1 .. Len(queue) /\ Len(queue) \in Nat /\ DOMAIN more = 1 .. Len(queue) + 1
      /\ \A i \in 1 .. Len(queue) : more[i] = queue[i]
      /\ more[Len(queue) + 1] = message
  BY SeqAppend
<1> HIDE DEF more
<1>n. PICK n \in Nat : \E place \in [1 .. n -> DOMAIN queue] : Placed(journal, log, queue, untold, n, place)
  BY DEF Flowing
<1>p. PICK place \in [1 .. n -> DOMAIN queue] : Placed(journal, log, queue, untold, n, place)
  BY <1>n
<1>2. /\ Len(journal) = Len(log) + n + untold
      /\ \A i \in 1 .. Len(log) : log[i] = journal[i]
      /\ \A k \in 1 .. n : /\ queue[place[k]].kind = "model_event"
                           /\ queue[place[k]].run = journal[Len(log) + k].run
                           /\ queue[place[k]].index = journal[Len(log) + k].index
      /\ \A k, l \in 1 .. n : k < l => place[k] < place[l]
      /\ \A i \in DOMAIN queue : queue[i].kind = "model_event" => \E k \in 1 .. n : place[k] = i
  BY <1>p DEF Placed
<1>3. place \in [1 .. n -> DOMAIN more]
  BY <1>1
<1>4. \A k \in 1 .. n : more[place[k]] = queue[place[k]]
  BY <1>1
<1>5. \A i \in DOMAIN more : more[i].kind = "model_event" => \E k \in 1 .. n : place[k] = i
  BY <1>1, <1>2
<1>6. Flowing(journal, log, more, untold)
  <2>1. Placed(journal, log, more, untold, n, place)
    BY <1>2, <1>4, <1>5 DEF Placed
  <2>2. QED
    BY <1>3, <2>1 DEF Flowing
<1>7. QED
  BY <1>6 DEF more

\* Nor does one that is taken from the queue.
LEMMA FlowTakesOther ==
  ASSUME NEW journal, NEW log, NEW queue \in Seq(Messages), NEW untold,
         queue # <<>>, Flowing(journal, log, queue, untold), Head(queue).kind # "model_event"
  PROVE  Flowing(journal, log, Tail(queue), untold)
<1> DEFINE rest == Tail(queue)
<1>1. /\ DOMAIN queue = 1 .. Len(queue) /\ Len(queue) \in Nat /\ Len(queue) > 0
      /\ DOMAIN rest = 1 .. Len(queue) - 1 /\ Head(queue) = queue[1]
      /\ \A i \in 1 .. Len(queue) - 1 : rest[i] = queue[i + 1]
  BY SeqTail
<1> HIDE DEF rest
<1>n. PICK n \in Nat : \E place \in [1 .. n -> DOMAIN queue] : Placed(journal, log, queue, untold, n, place)
  BY DEF Flowing
<1>p. PICK place \in [1 .. n -> DOMAIN queue] : Placed(journal, log, queue, untold, n, place)
  BY <1>n
<1>2. /\ Len(journal) = Len(log) + n + untold
      /\ \A i \in 1 .. Len(log) : log[i] = journal[i]
      /\ \A k \in 1 .. n : /\ queue[place[k]].kind = "model_event"
                           /\ queue[place[k]].run = journal[Len(log) + k].run
                           /\ queue[place[k]].index = journal[Len(log) + k].index
      /\ \A k, l \in 1 .. n : k < l => place[k] < place[l]
      /\ \A i \in DOMAIN queue : queue[i].kind = "model_event" => \E k \in 1 .. n : place[k] = i
  BY <1>p DEF Placed
<1>3. \A k \in 1 .. n : place[k] \in 2 .. Len(queue)
  BY <1>1, <1>2
<1> DEFINE moved == [k \in 1 .. n |-> place[k] - 1]
<1>4. moved \in [1 .. n -> DOMAIN rest] /\ \A k \in 1 .. n : moved[k] = place[k] - 1
  BY <1>1, <1>3
<1> HIDE DEF moved
<1>5. \A k \in 1 .. n : rest[moved[k]] = queue[place[k]]
  BY <1>1, <1>3, <1>4
<1>6. \A k, l \in 1 .. n : k < l => moved[k] < moved[l]
  BY <1>2, <1>3, <1>4
<1>7. ASSUME NEW i \in DOMAIN rest, rest[i].kind = "model_event" PROVE \E k \in 1 .. n : moved[k] = i
  <2>1. i + 1 \in DOMAIN queue /\ queue[i + 1].kind = "model_event" /\ i \in Nat
    BY <1>1, <1>7
  <2>2. PICK k \in 1 .. n : place[k] = i + 1
    BY <1>2, <2>1
  <2>3. moved[k] = i
    BY <1>4, <2>1, <2>2
  <2>4. QED
    BY <2>3
<1>8. Flowing(journal, log, rest, untold)
  <2>1. Placed(journal, log, rest, untold, n, moved)
    BY <1>2, <1>5, <1>6, <1>7 DEF Placed
  <2>2. QED
    BY <1>4, <2>1 DEF Flowing
<1>9. QED
  BY <1>8 DEF rest

\* Telling the last event of the journal queues it.
LEMMA FlowQueuesEvent ==
  ASSUME NEW journal \in Seq(Event), NEW log \in Seq(Event), NEW queue \in Seq(Messages),
         NEW message \in Messages, Flowing(journal, log, queue, 1), message.kind = "model_event",
         message.run = journal[Len(journal)].run, message.index = journal[Len(journal)].index
  PROVE  Flowing(journal, log, Append(queue, message), 0)
<1> DEFINE more == Append(queue, message)
<1>1. /\ DOMAIN queue = 1 .. Len(queue) /\ Len(queue) \in Nat /\ DOMAIN more = 1 .. Len(queue) + 1
      /\ \A i \in 1 .. Len(queue) : more[i] = queue[i]
      /\ more[Len(queue) + 1] = message
  BY SeqAppend
<1> HIDE DEF more
<1>n. PICK n \in Nat : \E place \in [1 .. n -> DOMAIN queue] : Placed(journal, log, queue, 1, n, place)
  BY DEF Flowing
<1>p. PICK place \in [1 .. n -> DOMAIN queue] : Placed(journal, log, queue, 1, n, place)
  BY <1>n
<1>2. /\ Len(journal) = Len(log) + n + 1
      /\ \A i \in 1 .. Len(log) : log[i] = journal[i]
      /\ \A k \in 1 .. n : /\ queue[place[k]].kind = "model_event"
                           /\ queue[place[k]].run = journal[Len(log) + k].run
                           /\ queue[place[k]].index = journal[Len(log) + k].index
      /\ \A k, l \in 1 .. n : k < l => place[k] < place[l]
      /\ \A i \in DOMAIN queue : queue[i].kind = "model_event" => \E k \in 1 .. n : place[k] = i
  BY <1>p DEF Placed
<1>3. Len(log) \in Nat /\ \A k \in 1 .. n : place[k] \in 1 .. Len(queue)
  BY <1>1
<1> DEFINE longer == [k \in 1 .. n + 1 |-> IF k = n + 1 THEN Len(queue) + 1 ELSE place[k]]
<1>4. /\ longer \in [1 .. n + 1 -> DOMAIN more]
      /\ longer[n + 1] = Len(queue) + 1
      /\ \A k \in 1 .. n : longer[k] = place[k]
  BY <1>1, <1>3
<1> HIDE DEF longer
<1>5. \A k \in 1 .. n + 1 : /\ more[longer[k]].kind = "model_event"
                            /\ more[longer[k]].run = journal[Len(log) + k].run
                            /\ more[longer[k]].index = journal[Len(log) + k].index
  <2>1. TAKE k \in 1 .. n + 1
  <2>2. CASE k = n + 1
    <3>1. Len(log) + k = Len(journal)
      BY <1>2, <1>3, <2>2
    <3>2. QED
      BY <1>1, <1>4, <2>2, <3>1
  <2>3. CASE k # n + 1
    <3>1. k \in 1 .. n
      BY <2>3
    <3>2. more[longer[k]] = queue[place[k]]
      BY <1>1, <1>3, <1>4, <3>1
    <3>3. QED
      BY <1>2, <3>1, <3>2
  <2>4. QED
    BY <2>2, <2>3
<1>6. \A k, l \in 1 .. n + 1 : k < l => longer[k] < longer[l]
  <2>1. TAKE k, l \in 1 .. n + 1
  <2>2. CASE l = n + 1
    BY <1>1, <1>3, <1>4, <2>2
  <2>3. CASE l # n + 1
    BY <1>2, <1>4, <2>3
  <2>4. QED
    BY <2>2, <2>3
<1>7. ASSUME NEW i \in DOMAIN more, more[i].kind = "model_event" PROVE \E k \in 1 .. n + 1 : longer[k] = i
  <2>1. CASE i = Len(queue) + 1
    BY <1>4, <2>1
  <2>2. CASE i # Len(queue) + 1
    <3>1. i \in DOMAIN queue /\ queue[i].kind = "model_event"
      BY <1>1, <1>7, <2>2
    <3>2. PICK k \in 1 .. n : place[k] = i
      BY <1>2, <3>1
    <3>3. k \in 1 .. n + 1 /\ longer[k] = i
      BY <1>4, <3>2
    <3>4. QED
      BY <3>3
  <2>3. QED
    BY <2>1, <2>2
<1>8. n + 1 \in Nat /\ Len(journal) = Len(log) + (n + 1) + 0
  BY <1>2, <1>3
<1>9. Flowing(journal, log, more, 0)
  <2>1. Placed(journal, log, more, 0, n + 1, longer)
    BY <1>2, <1>5, <1>6, <1>7, <1>8 DEF Placed
  <2>2. QED
    BY <1>4, <1>8, <2>1 DEF Flowing
<1>10. QED
  BY <1>9 DEF more

\* Showing the first event of the queue shows the next one of the journal.
LEMMA FlowTakesEvent ==
  ASSUME NEW journal \in Seq(Event), NEW log \in Seq(Event), NEW queue \in Seq(Messages),
         NEW untold \in 0 .. 1, queue # <<>>, Flowing(journal, log, queue, untold),
         Head(queue).kind = "model_event"
  PROVE  Flowing(journal, Append(log, [run |-> Head(queue).run, index |-> Head(queue).index]),
                 Tail(queue), untold)
<1> DEFINE rest == Tail(queue)
           event == [run |-> Head(queue).run, index |-> Head(queue).index]
           shown == Append(log, event)
<1>1. /\ DOMAIN queue = 1 .. Len(queue) /\ Len(queue) \in Nat /\ Len(queue) > 0
      /\ DOMAIN rest = 1 .. Len(queue) - 1 /\ Head(queue) = queue[1] /\ Head(queue) \in Messages
      /\ \A i \in 1 .. Len(queue) - 1 : rest[i] = queue[i + 1]
  BY SeqTail
<1> HIDE DEF rest
<1>2. event \in Event /\ event.run = queue[1].run /\ event.index = queue[1].index
  BY <1>1 DEF Event, Messages
<1>3. event = [run |-> event.run, index |-> event.index]
  OBVIOUS
<1> HIDE DEF event
<1>4. /\ Len(log) \in Nat /\ Len(shown) = Len(log) + 1
      /\ \A i \in 1 .. Len(log) : shown[i] = log[i]
      /\ shown[Len(log) + 1] = event
  BY <1>2, SeqAppend
<1> HIDE DEF shown
<1>n. PICK n \in Nat : \E place \in [1 .. n -> DOMAIN queue] : Placed(journal, log, queue, untold, n, place)
  BY DEF Flowing
<1>p. PICK place \in [1 .. n -> DOMAIN queue] : Placed(journal, log, queue, untold, n, place)
  BY <1>n
<1>5. /\ Len(journal) = Len(log) + n + untold
      /\ \A i \in 1 .. Len(log) : log[i] = journal[i]
      /\ \A k \in 1 .. n : /\ queue[place[k]].kind = "model_event"
                           /\ queue[place[k]].run = journal[Len(log) + k].run
                           /\ queue[place[k]].index = journal[Len(log) + k].index
      /\ \A k, l \in 1 .. n : k < l => place[k] < place[l]
      /\ \A i \in DOMAIN queue : queue[i].kind = "model_event" => \E k \in 1 .. n : place[k] = i
  BY <1>p DEF Placed
<1>6. n > 0 /\ place[1] = 1
  <2>1. PICK k \in 1 .. n : place[k] = 1
    BY <1>1, <1>5
  <2>2. place[1] \in 1 .. Len(queue)
    BY <1>1, <2>1
  <2>3. k = 1
    BY <1>5, <2>1, <2>2
  <2>4. QED
    BY <2>1, <2>3
<1> DEFINE m == n - 1
           moved == [k \in 1 .. m |-> place[k + 1] - 1]
<1>7. \A k \in 1 .. m : k + 1 \in 1 .. n /\ place[k + 1] \in 2 .. Len(queue)
  <2>1. TAKE k \in 1 .. m
  <2>2. k + 1 \in 1 .. n /\ 1 \in 1 .. n /\ 1 < k + 1
    BY <1>6
  <2>3. place[1] < place[k + 1] /\ place[k + 1] \in 1 .. Len(queue)
    BY <1>1, <1>5, <2>2
  <2>4. QED
    BY <1>6, <2>2, <2>3
<1>8. moved \in [1 .. m -> DOMAIN rest] /\ \A k \in 1 .. m : moved[k] = place[k + 1] - 1
  BY <1>1, <1>7
<1>9. m \in Nat /\ n = m + 1
  BY <1>6
<1> HIDE DEF moved, m
<1>10. \A k \in 1 .. m : rest[moved[k]] = queue[place[k + 1]]
  BY <1>1, <1>7, <1>8
<1>11. \A k \in 1 .. m : /\ rest[moved[k]].kind = "model_event"
                         /\ rest[moved[k]].run = journal[Len(shown) + k].run
                         /\ rest[moved[k]].index = journal[Len(shown) + k].index
  <2>1. TAKE k \in 1 .. m
  <2>2. Len(shown) + k = Len(log) + (k + 1)
    BY <1>4, <1>9
  <2>3. /\ queue[place[k + 1]].kind = "model_event"
        /\ queue[place[k + 1]].run = journal[Len(log) + (k + 1)].run
        /\ queue[place[k + 1]].index = journal[Len(log) + (k + 1)].index
    BY <1>5, <1>7
  <2>4. QED
    BY <1>10, <2>2, <2>3
<1>12. \A k, l \in 1 .. m : k < l => moved[k] < moved[l]
  <2>1. TAKE k, l \in 1 .. m
  <2>2. HAVE k < l
  <2>3. place[k + 1] < place[l + 1]
    BY <1>5, <1>7, <1>9, <2>2
  <2>4. QED
    BY <1>7, <1>8, <2>3
<1>13. ASSUME NEW i \in DOMAIN rest, rest[i].kind = "model_event" PROVE \E k \in 1 .. m : moved[k] = i
  <2>1. i + 1 \in DOMAIN queue /\ queue[i + 1].kind = "model_event" /\ i \in Nat /\ i > 0
    BY <1>1, <1>13
  <2>2. PICK k \in 1 .. n : place[k] = i + 1
    BY <1>5, <2>1
  <2>3. k # 1
    BY <1>6, <2>1, <2>2
  <2>4. k - 1 \in 1 .. m /\ (k - 1) + 1 = k
    BY <1>9, <2>3
  <2>5. moved[k - 1] = i
    BY <1>8, <2>1, <2>2, <2>4
  <2>6. QED
    BY <2>4, <2>5
<1>14. \A i \in 1 .. Len(shown) : shown[i] = journal[i]
  <2>1. TAKE i \in 1 .. Len(shown)
  <2>2. CASE i = Len(log) + 1
    <3>1. event.run = journal[i].run /\ event.index = journal[i].index
      BY <1>2, <1>5, <1>6, <2>2
    <3>2. i \in 1 .. Len(journal)
      BY <1>4, <1>5, <1>6, <2>2
    <3>3. journal[i] \in Event
      BY <3>2
    <3>4. event = journal[i]
      BY <1>2, <3>1, <3>3 DEF Event
    <3>5. QED
      BY <1>4, <2>2, <3>4
  <2>3. CASE i # Len(log) + 1
    <3>1. i \in 1 .. Len(log)
      BY <1>4, <2>3
    <3>2. shown[i] = log[i] /\ log[i] = journal[i]
      BY <1>4, <1>5, <3>1
    <3>3. QED
      BY <3>2
  <2>4. QED
    BY <2>2, <2>3
<1>15. Len(journal) = Len(shown) + m + untold
  BY <1>4, <1>5, <1>9
<1>16. Flowing(journal, shown, rest, untold)
  <2>1. Placed(journal, shown, rest, untold, m, moved)
    BY <1>11, <1>12, <1>13, <1>14, <1>15 DEF Placed
  <2>2. QED
    BY <1>8, <1>9, <2>1 DEF Flowing
<1>17. QED
  BY <1>16 DEF shown, rest, event

\* An event written is an event to tell.
LEMMA FlowWrites ==
  ASSUME NEW journal \in Seq(Event), NEW log \in Seq(Event), NEW queue \in Seq(Messages),
         NEW event \in Event, Flowing(journal, log, queue, 0)
  PROVE  Flowing(Append(journal, event), log, queue, 1)
<1> DEFINE more == Append(journal, event)
<1>1. /\ Len(journal) \in Nat /\ Len(more) = Len(journal) + 1
      /\ \A i \in 1 .. Len(journal) : more[i] = journal[i]
      /\ Len(log) \in Nat
  BY SeqAppend
<1> HIDE DEF more
<1>n. PICK n \in Nat : \E place \in [1 .. n -> DOMAIN queue] : Placed(journal, log, queue, 0, n, place)
  BY DEF Flowing
<1>p. PICK place \in [1 .. n -> DOMAIN queue] : Placed(journal, log, queue, 0, n, place)
  BY <1>n
<1>2. /\ Len(journal) = Len(log) + n + 0
      /\ \A i \in 1 .. Len(log) : log[i] = journal[i]
      /\ \A k \in 1 .. n : /\ queue[place[k]].kind = "model_event"
                           /\ queue[place[k]].run = journal[Len(log) + k].run
                           /\ queue[place[k]].index = journal[Len(log) + k].index
      /\ \A k, l \in 1 .. n : k < l => place[k] < place[l]
      /\ \A i \in DOMAIN queue : queue[i].kind = "model_event" => \E k \in 1 .. n : place[k] = i
  BY <1>p DEF Placed
<1>3. \A i \in 1 .. Len(log) : log[i] = more[i]
  BY <1>1, <1>2
<1>4. \A k \in 1 .. n : more[Len(log) + k] = journal[Len(log) + k]
  BY <1>1, <1>2
<1>5. Len(more) = Len(log) + n + 1
  BY <1>1, <1>2
<1>6. Flowing(more, log, queue, 1)
  <2>1. Placed(more, log, queue, 1, n, place)
    BY <1>2, <1>3, <1>4, <1>5 DEF Placed
  <2>2. QED
    BY <2>1 DEF Flowing
<1>7. QED
  BY <1>6 DEF more

\* What is shown begins the journal, and is all of it once nothing is queued or untold.
LEMMA FlowShows ==
  ASSUME NEW journal \in Seq(Event), NEW log \in Seq(Event), NEW queue, NEW untold \in 0 .. 1,
         Flowing(journal, log, queue, untold)
  PROVE  /\ IsPrefix(log, journal)
         /\ Silent(queue) /\ untold = 0 => log = journal
<1>n. PICK n \in Nat : \E place \in [1 .. n -> DOMAIN queue] : Placed(journal, log, queue, untold, n, place)
  BY DEF Flowing
<1>p. PICK place \in [1 .. n -> DOMAIN queue] : Placed(journal, log, queue, untold, n, place)
  BY <1>n
<1>1. /\ Len(journal) = Len(log) + n + untold
      /\ \A i \in 1 .. Len(log) : log[i] = journal[i]
      /\ \A k \in 1 .. n : queue[place[k]].kind = "model_event"
  BY <1>p DEF Placed
<1>2. Len(log) <= Len(journal)
  BY <1>1
<1>3. SubSeq(log, 1, Len(log)) = SubSeq(journal, 1, Len(log))
  BY <1>1, <1>2
<1>4. Silent(queue) /\ untold = 0 => Len(log) = Len(journal)
  <2>1. SUFFICES ASSUME Silent(queue), untold = 0 PROVE n = 0
    BY <1>1
  <2>2. n > 0 => 1 \in 1 .. n /\ place[1] \in DOMAIN queue
    OBVIOUS
  <2>3. QED
    BY <1>1, <2>1, <2>2 DEF Silent
<1>5. Silent(queue) /\ untold = 0 => log = journal
  BY <1>1, <1>4
<1>6. QED
  BY <1>2, <1>3, <1>5 DEF IsPrefix

Journal == folder[request[started].folder].journal
ToTell == IF stage[started] = "TELL" THEN 1 ELSE 0
Unanswered == \A i \in DOMAIN inbox : inbox[i].kind # "result"
\* Before the journal is opened there is nothing to show; from then on the screen,
\* the queue and the event not yet told make up the journal.
Unopened ==
    /\ screen.log = <<>> /\ Silent(inbox) /\ stage[started] \notin {"WORK", "TELL"}
    /\ request[started].mode = "DEVICE_EXECUTION" => screen.status # "COMPLETE" /\ Unanswered
Opened ==
    /\ stage[started] \in {"WORK", "TELL", "DONE"}
    /\ Flowing(Journal, screen.log, inbox, ToTell)
    /\ stage[started] = "TELL" =>
           Len(Journal) > 0 /\ Journal[Len(Journal)] = [run |-> started, index |-> counted]
JournalInv == started > 0 => Unopened \/ Opened

\* A device listing in the queue does not disturb the events.
LEMMA QueuesOther ==
  ASSUME SessionTypes, JournalInv, NEW message \in Messages, message.kind = "devices",
         inbox' = Append(inbox, message),
         UNCHANGED <<started, stage, request, folder, counted, screen>>
  PROVE  JournalInv'
<1>1. inbox \in Seq(Messages)
  BY DEF SessionTypes, WindowTypes
<1>2. /\ DOMAIN inbox = 1 .. Len(inbox) /\ Len(inbox) \in Nat /\ DOMAIN inbox' = 1 .. Len(inbox) + 1
      /\ \A i \in 1 .. Len(inbox) : inbox'[i] = inbox[i]
      /\ inbox'[Len(inbox) + 1] = message
  BY <1>1, SeqAppend
<1>3. (Silent(inbox) => Silent(inbox')) /\ (Unanswered => Unanswered')
  BY <1>2 DEF Silent, Unanswered
<1>4. Journal' = Journal /\ ToTell' = ToTell
  BY DEF Journal, ToTell
<1>5. Opened => Opened'
  BY <1>1, <1>4, FlowQueuesOther DEF Opened
<1>6. Unopened => Unopened'
  BY <1>3 DEF Unopened
<1>7. QED
  BY <1>5, <1>6 DEF JournalInv

\* One sequence is not two different ones appended.
LEMMA SeqAppendsOne ==
  ASSUME NEW T, NEW s \in Seq(T), NEW x \in T, NEW y \in T, Append(s, x) = Append(s, y)
  PROVE  x = y
<1>1. Append(s, x)[Len(s) + 1] = x /\ Append(s, y)[Len(s) + 1] = y
  OBVIOUS
<1>2. QED
  BY <1>1

\* An evaluation on a device succeeds only once its journal is open.
LEMMA EndsAnswer ==
  ASSUME NEW r \in RunIds, NEW kind \in Answers, Succeed(r) \/ Fail(r), Ends(r, kind),
         SessionTypes, stage[r] # "WORK", request[r].mode = "DEVICE_EXECUTION"
  PROVE  kind # "result"
<1>1. ~Succeed(r)
  BY DEF Succeed, Reports
<1>2. Ends(r, "error") /\ inbox \in Seq(Messages)
  BY <1>1 DEF Fail, SessionTypes, WindowTypes
<1> DEFINE failure == [kind |-> "error", run |-> r]
           answer == [kind |-> kind, run |-> r]
<1>3. /\ inbox' = Append(inbox, failure) /\ inbox' = Append(inbox, answer)
      /\ failure \in Messages /\ answer \in Messages /\ failure.kind = "error" /\ answer.kind = kind
  BY <1>2 DEF Ends, Messages, Answers
<1> HIDE DEF failure, answer
<1>4. failure = answer
  <2>1. /\ inbox \in Seq(Messages) /\ failure \in Messages /\ answer \in Messages
        /\ Append(inbox, failure) = Append(inbox, answer)
    BY <1>2, <1>3
  <2>2. QED
    BY <2>1, SeqAppendsOne
<1>5. QED
  BY <1>3, <1>4

\* The screen, the queue and the untold event make up the journal.
LEMMA JournalKeeps ==
  ASSUME SessionTypes, OneEvaluation, OneAnswer, JournalInv, [SessionNext]_sessionVars PROVE JournalInv'
<1>0. /\ started \in 0 .. MaxRuns /\ stage \in [RunIds -> Stages] /\ inbox \in Seq(Messages)
      /\ screen \in Screens /\ screen.log \in Seq(Event) /\ counted \in Nat
      /\ folder \in [Folders -> [journal : Seq(Event), report : Reported]]
      /\ started > 0 => started \in RunIds /\ Journal \in Seq(Event) /\ request[started].folder \in Folders
  BY BoundsAssumption DEF SessionTypes, ThreadTypes, WindowTypes, RequestTypes, Screens, RunIds, Journal
<1>1. CASE UNCHANGED <<started, stage, request, folder, counted, screen, inbox>>
  BY <1>1 DEF JournalInv, Unopened, Opened, Silent, Unanswered, Journal, ToTell
<1>2. CASE Operator
  <2>1. CASE Edited
    BY <1>1, <2>1 DEF Edited, evaluation
  <2>2. CASE Launched
    <3>1. PICK serial : Launch(started + 1, serial)
      BY <2>2 DEF Launched
    <3>2. ~running /\ inbox' = inbox /\ started < MaxRuns
      BY <2>2 DEF Launched
    <3>3. /\ started' = started + 1 /\ stage' = [stage EXCEPT ![started + 1] = "CALLED"]
          /\ screen' = [Blank EXCEPT !.status = "RUNNING", !.run = started + 1]
      BY <3>1 DEF Launch
    <3>4. screen'.log = <<>> /\ screen'.status = "RUNNING"
      BY <3>3 DEF Blank
    <3>5. \A i \in DOMAIN inbox' : inbox'[i].kind = "devices"
      BY <3>2 DEF OneAnswer
    <3>6. stage'[started'] = "CALLED"
      BY <1>0, <3>2, <3>3, BoundsAssumption DEF RunIds
    <3>7. QED
      BY <3>4, <3>5, <3>6 DEF JournalInv, Unopened, Silent, Unanswered
  <2>3. QED
    BY <1>2, <2>1, <2>2, OperatorSteps
<1>3. CASE ScanEnds
  <2>1. PICK found \in SUBSET Targets : inbox' = Append(inbox, [kind |-> "devices", found |-> found])
    BY <1>3 DEF ScanEnds
  <2> DEFINE message == [kind |-> "devices", found |-> found]
  <2>2. message \in Messages /\ message.kind = "devices"
    BY DEF Messages
  <2>3. inbox' = Append(inbox, message)
    BY <2>1
  <2> HIDE DEF message
  <2>4. UNCHANGED <<started, stage, request, folder, counted, screen>>
    BY <1>3 DEF ScanEnds, window, evaluation
  <2>5. QED
    BY <1>0, <2>2, <2>3, <2>4, QueuesOther
<1>4. ASSUME NEW r \in RunIds, Worker(r) PROVE JournalInv'
  <2>1. r = started /\ running /\ started > 0 /\ stage[r] # "DONE"
    BY <1>4, OneWorks, WorkerWorks
  <2>2. UNCHANGED <<started, screen>>
    BY <1>4 DEF Worker, Validate, OpenJournal, WriteEvent, LoseEvent, TellEvent, Succeed, Fail, window
  <2>3. CASE Succeed(r) \/ Fail(r)
    <3>1. PICK kind \in Answers : Ends(r, kind)
      BY <2>3 DEF Succeed, Fail, Answers
    <3> DEFINE message == [kind |-> kind, run |-> r]
    <3>2. message \in Messages /\ message.kind = kind
      BY DEF Messages, Answers
    <3>3. inbox' = Append(inbox, message) /\ stage'[started] = "DONE"
      BY <1>0, <2>1, <3>1 DEF Ends
    <3> HIDE DEF message
    <3>4. /\ request'[started].mode = request[started].mode
          /\ request'[started].folder = request[started].folder
      BY <2>1, <3>1, EndedRequest
    <3>5. folder'[request[started].folder].journal = folder[request[started].folder].journal
      <4>1. \/ folder' = folder
            \/ \E content : folder' = [folder EXCEPT ![request[started].folder].report = content]
        BY <2>1, <2>3 DEF Succeed, Fail, WriteReport
      <4>2. QED
        BY <1>0, <2>1, <4>1
    <3>6. Journal' = Journal
      BY <2>2, <3>4, <3>5 DEF Journal
    <3>7. /\ DOMAIN inbox = 1 .. Len(inbox) /\ Len(inbox) \in Nat /\ DOMAIN inbox' = 1 .. Len(inbox) + 1
          /\ \A i \in 1 .. Len(inbox) : inbox'[i] = inbox[i]
          /\ inbox'[Len(inbox) + 1] = message
      BY <1>0, <3>2, <3>3, SeqAppend
    <3>8. CASE Unopened
      <4>1. Silent(inbox')
        BY <3>2, <3>7, <3>8 DEF Unopened, Silent, Answers
      <4>2. ASSUME request[started].mode = "DEVICE_EXECUTION" PROVE Unanswered'
        <5>1. message.kind # "result"
          BY <2>1, <2>3, <3>1, <3>2, <3>8, <4>2, EndsAnswer DEF Unopened
        <5>2. QED
          BY <3>7, <3>8, <4>2, <5>1 DEF Unopened, Unanswered
      <4>3. QED
        BY <2>2, <3>3, <3>4, <3>8, <4>1, <4>2 DEF JournalInv, Unopened
    <3>9. CASE Opened
      <4>1. stage[started] # "TELL"
        BY <2>1, <2>3 DEF Succeed, Fail, Reports
      <4>2. Flowing(Journal, screen.log, inbox, 0)
        BY <3>9, <4>1 DEF Opened, ToTell
      <4>3. Flowing(Journal, screen.log, inbox', 0)
        BY <1>0, <3>2, <3>3, <4>2, FlowQueuesOther DEF Answers
      <4>4. QED
        BY <2>2, <3>3, <3>6, <4>3 DEF JournalInv, Opened, ToTell
    <3>10. QED
      BY <2>1, <3>8, <3>9 DEF JournalInv
  <2>4. CASE Validate(r)
    <3>1. /\ UNCHANGED <<request, folder, counted, inbox>> /\ stage[r] = "CALLED"
          /\ stage' = [stage EXCEPT ![r] = "VALIDATED"]
      BY <2>4 DEF Validate
    <3>2. Unopened
      BY <2>1, <3>1 DEF JournalInv, Opened
    <3>3. stage'[started] = "VALIDATED"
      BY <1>0, <2>1, <3>1
    <3>4. QED
      BY <2>2, <3>1, <3>2, <3>3 DEF JournalInv, Unopened, Silent, Unanswered
  <2>5. CASE OpenJournal(r)
    <3>1. /\ UNCHANGED <<request, inbox>> /\ stage[r] = "VALIDATED"
          /\ stage' = [stage EXCEPT ![r] = "WORK"]
          /\ folder' = [folder EXCEPT ![request[r].folder].journal = <<>>]
      BY <2>5 DEF OpenJournal
    <3>2. Unopened
      BY <2>1, <3>1 DEF JournalInv, Opened
    <3>3. Flowing(<<>>, screen.log, inbox, 0)
      BY <1>0, <3>2, FlowStarts DEF Unopened
    <3>4. Journal' = <<>> /\ stage'[started] = "WORK"
      BY <1>0, <2>1, <2>2, <3>1 DEF Journal
    <3>5. QED
      BY <2>2, <3>1, <3>3, <3>4 DEF JournalInv, Opened, ToTell
  <2>6. CASE WriteEvent(r)
    <3> DEFINE event == [run |-> r, index |-> counted + 1]
    <3>1. /\ UNCHANGED <<request, inbox>> /\ stage[r] = "WORK" /\ counted' = counted + 1
          /\ stage' = [stage EXCEPT ![r] = "TELL"]
          /\ folder' = [folder EXCEPT ![request[r].folder].journal = Append(@, event)]
      BY <2>6 DEF WriteEvent
    <3>2. event \in Event
      BY <1>0 DEF Event
    <3>3. event = [run |-> started, index |-> counted']
      BY <2>1, <3>1
    <3> HIDE DEF event
    <3>4. Flowing(Journal, screen.log, inbox, 0)
      BY <2>1, <3>1 DEF JournalInv, Unopened, Opened, ToTell
    <3>5. Flowing(Append(Journal, event), screen.log, inbox, 1)
      BY <1>0, <2>1, <3>2, <3>4, FlowWrites
    <3>6. Journal' = Append(Journal, event) /\ stage'[started] = "TELL"
      BY <1>0, <2>1, <2>2, <3>1 DEF Journal
    <3>7. Len(Append(Journal, event)) > 0
          /\ Append(Journal, event)[Len(Append(Journal, event))] = event
      <4> DEFINE J == Journal
      <4>1. J \in Seq(Event)
        BY <1>0, <2>1
      <4> HIDE DEF J
      <4>2. Len(Append(J, event)) > 0 /\ Append(J, event)[Len(Append(J, event))] = event
        BY <3>2, <4>1, SeqAppend
      <4>3. QED
        BY <4>2 DEF J
    <3>8. QED
      BY <2>2, <3>1, <3>3, <3>5, <3>6, <3>7 DEF JournalInv, Opened, ToTell
  <2>7. CASE LoseEvent(r)
    <3>1. UNCHANGED <<request, inbox, stage, folder>> /\ stage[r] = "WORK"
      BY <2>7 DEF LoseEvent
    <3>2. Opened
      BY <2>1, <3>1 DEF JournalInv, Unopened
    <3>3. QED
      BY <2>1, <2>2, <3>1, <3>2 DEF JournalInv, Opened, ToTell, Journal
  <2>8. CASE TellEvent(r)
    <3> DEFINE message == [kind |-> "model_event", run |-> r, index |-> counted]
    <3>1. /\ UNCHANGED <<request, folder, counted>> /\ stage[r] = "TELL"
          /\ stage' = [stage EXCEPT ![r] = "WORK"] /\ inbox' = Append(inbox, message)
      BY <2>8 DEF TellEvent
    <3>2. message \in Messages /\ message.kind = "model_event" /\ message.run = r
          /\ message.index = counted
      BY <1>0 DEF Messages
    <3> HIDE DEF message
    <3>3. /\ Flowing(Journal, screen.log, inbox, 1)
          /\ Journal[Len(Journal)] = [run |-> started, index |-> counted]
      BY <2>1, <3>1 DEF JournalInv, Unopened, Opened, ToTell
    <3>4. Flowing(Journal, screen.log, inbox', 0)
      BY <1>0, <2>1, <3>1, <3>2, <3>3, FlowQueuesEvent
    <3>5. Journal' = Journal /\ stage'[started] = "WORK"
      BY <1>0, <2>1, <2>2, <3>1 DEF Journal
    <3>6. QED
      BY <2>2, <3>4, <3>5 DEF JournalInv, Opened, ToTell
  <2>9. QED
    BY <1>4, <2>3, <2>4, <2>5, <2>6, <2>7, <2>8 DEF Worker
<1>5. CASE PollEvents
  <2>1. /\ inbox # <<>> /\ inbox' = Tail(inbox)
        /\ UNCHANGED <<started, stage, request, folder, counted>>
    BY <1>5 DEF PollEvents, FinishDeviceDiscovery, AppendModelEvent, FinishSuccess, FinishError, Receive,
       evaluation
  <2>2. /\ DOMAIN inbox = 1 .. Len(inbox) /\ Len(inbox) \in Nat /\ Len(inbox) > 0
        /\ DOMAIN inbox' = 1 .. Len(inbox) - 1 /\ Head(inbox) = inbox[1]
        /\ \A i \in 1 .. Len(inbox) - 1 : inbox'[i] = inbox[i + 1]
    BY <1>0, <2>1, SeqTail
  <2>3. Journal' = Journal /\ ToTell' = ToTell
    BY <2>1 DEF Journal, ToTell
  <2>4. CASE AppendModelEvent
    <3>1. /\ Head(inbox).kind = "model_event"
          /\ screen' = [screen EXCEPT !.log =
                Append(screen.log, [run |-> Head(inbox).run, index |-> Head(inbox).index])]
      BY <2>4 DEF AppendModelEvent, Receive
    <3>2. screen'.log = Append(screen.log, [run |-> Head(inbox).run, index |-> Head(inbox).index])
      BY <1>0, <3>1 DEF Screens
    <3>3. started > 0 /\ Opened
      BY <2>2, <3>1 DEF OneAnswer, JournalInv, Unopened, Silent
    <3>4. Flowing(Journal, screen'.log, inbox', ToTell)
      BY <1>0, <2>1, <3>1, <3>2, <3>3, FlowTakesEvent DEF Opened, ToTell
    <3>5. QED
      BY <2>1, <2>3, <3>3, <3>4 DEF JournalInv, Opened
  <2>5. CASE ~AppendModelEvent
    <3>1. /\ Head(inbox).kind # "model_event" /\ screen'.log = screen.log
          /\ screen'.status = "COMPLETE" =>
               screen.status = "COMPLETE" \/ Head(inbox).kind = "result"
      BY <1>0, <1>5, <2>5 DEF PollEvents, FinishDeviceDiscovery, FinishSuccess, FinishError, Receive, Screens
    <3>2. ASSUME started > 0, Unopened PROVE Unopened'
      <4>1. Silent(inbox) => Silent(inbox')
        BY <2>2 DEF Silent
      <4>2. Unanswered => Unanswered' /\ Head(inbox).kind # "result"
        BY <2>2 DEF Unanswered
      <4>3. QED
        BY <2>1, <3>1, <3>2, <4>1, <4>2 DEF Unopened
    <3>3. ASSUME started > 0, Opened PROVE Opened'
      <4>1. Flowing(Journal, screen.log, inbox', ToTell)
        BY <1>0, <2>1, <3>1, <3>3, FlowTakesOther DEF Opened
      <4>2. QED
        BY <2>1, <2>3, <3>1, <3>3, <4>1 DEF Opened
    <3>4. QED
      BY <2>1, <3>2, <3>3 DEF JournalInv
  <2>6. QED
    BY <2>4, <2>5
<1>6. CASE UNCHANGED sessionVars
  BY <1>1, <1>6 DEF sessionVars, window, evaluation
<1>7. QED
  BY <1>2, <1>3, <1>4, <1>5, <1>6 DEF SessionNext

-----------------------------------------------------------------------------
\* The answer of an evaluation that wrote a report finds that report, and so does the screen.
Reporting(r) == request[r].mode # "DEVICE_PREFLIGHT"
ReportInv ==
    /\ \A i \in DOMAIN inbox : inbox[i].kind = "result" /\ Reporting(started) =>
           folder[request[started].folder].report = started
    /\ ResultIsOfTheEvaluation

\* An evaluation that succeeds finds its own report, and so does the screen.
LEMMA ReportKeeps ==
  ASSUME SessionTypes, OneEvaluation, OneAnswer, ReportInv, [SessionNext]_sessionVars PROVE ReportInv'
<1>0. /\ started \in 0 .. MaxRuns /\ inbox \in Seq(Messages) /\ screen \in Screens /\ MaxRuns \in Nat
      /\ folder \in [Folders -> [journal : Seq(Event), report : Reported]]
      /\ started > 0 => started \in RunIds /\ request[started].folder \in Folders
  BY BoundsAssumption DEF SessionTypes, ThreadTypes, WindowTypes, RequestTypes, RunIds
<1>1. CASE UNCHANGED <<started, request, folder, screen, inbox>>
  BY <1>1 DEF ReportInv, Reporting, ResultIsOfTheEvaluation
<1>2. CASE Operator
  <2>1. CASE Edited
    BY <1>1, <2>1 DEF Edited, evaluation
  <2>2. CASE Launched
    <3>1. PICK serial : Launch(started + 1, serial)
      BY <2>2 DEF Launched
    <3>2. ~running /\ inbox' = inbox
      BY <2>2 DEF Launched
    <3>3. screen' = [Blank EXCEPT !.status = "RUNNING", !.run = started + 1]
      BY <3>1 DEF Launch
    <3>4. screen'.status = "RUNNING"
      BY <3>3 DEF Blank
    <3>5. \A i \in DOMAIN inbox' : inbox'[i].kind = "devices"
      BY <3>2 DEF OneAnswer
    <3>6. QED
      BY <3>4, <3>5 DEF ReportInv, ResultIsOfTheEvaluation
  <2>3. QED
    BY <1>2, <2>1, <2>2, OperatorSteps
<1>3. CASE ScanEnds
  <2>1. PICK found \in SUBSET Targets : inbox' = Append(inbox, [kind |-> "devices", found |-> found])
    BY <1>3 DEF ScanEnds
  <2> DEFINE message == [kind |-> "devices", found |-> found]
  <2>2. message \in Messages /\ message.kind = "devices"
    BY DEF Messages
  <2>3. inbox' = Append(inbox, message)
    BY <2>1
  <2> HIDE DEF message
  <2>4. UNCHANGED <<started, request, folder, screen>>
    BY <1>3 DEF ScanEnds, window, evaluation
  <2>5. /\ DOMAIN inbox = 1 .. Len(inbox) /\ Len(inbox) \in Nat /\ DOMAIN inbox' = 1 .. Len(inbox) + 1
        /\ \A i \in 1 .. Len(inbox) : inbox'[i] = inbox[i]
        /\ inbox'[Len(inbox) + 1] = message
    BY <1>0, <2>2, <2>3, SeqAppend
  <2>6. QED
    BY <2>2, <2>4, <2>5 DEF ReportInv, Reporting, ResultIsOfTheEvaluation
<1>4. ASSUME NEW r \in RunIds, Worker(r) PROVE ReportInv'
  <2>1. r = started /\ running /\ started > 0 /\ stage[r] # "DONE"
    BY <1>4, OneWorks, WorkerWorks
  <2>2. UNCHANGED <<started, screen>> /\ screen.status # "COMPLETE"
    BY <1>4, <2>1 DEF Worker, Validate, OpenJournal, WriteEvent, LoseEvent, TellEvent, Succeed, Fail,
       window, OneEvaluation
  <2>3. \A i \in DOMAIN inbox : inbox[i].kind # "result"
    BY <2>1 DEF OneAnswer, Answers
  <2>4. ASSUME NEW message \in Messages, inbox' = Append(inbox, message),
               message.kind = "result" /\ Reporting(started)' =>
                 folder'[request'[started].folder].report = started
        PROVE  ReportInv'
    <3>1. /\ DOMAIN inbox = 1 .. Len(inbox) /\ Len(inbox) \in Nat /\ DOMAIN inbox' = 1 .. Len(inbox) + 1
          /\ \A i \in 1 .. Len(inbox) : inbox'[i] = inbox[i]
          /\ inbox'[Len(inbox) + 1] = message
      BY <1>0, <2>4, SeqAppend
    <3>2. QED
      BY <2>2, <2>3, <2>4, <3>1 DEF ReportInv, Reporting, ResultIsOfTheEvaluation
  <2>5. CASE Succeed(r)
    <3> DEFINE message == [kind |-> "result", run |-> r]
    <3>1. message \in Messages /\ inbox' = Append(inbox, message)
      BY <2>5 DEF Messages, Succeed, Ends
    <3> HIDE DEF message
    <3>2. Ends(r, "result")
      BY <2>5 DEF Succeed
    <3>3. /\ request'[started].mode = request[started].mode
          /\ request'[started].folder = request[started].folder
      BY <2>1, <3>2, EndedRequest
    <3>4. Reporting(started) => folder'[request[started].folder].report = started
      BY <1>0, <2>1, <2>5 DEF Succeed, WriteReport, Reporting
    <3>5. QED
      BY <2>2, <2>4, <3>1, <3>3, <3>4 DEF Reporting
  <2>6. CASE Fail(r)
    <3> DEFINE message == [kind |-> "error", run |-> r]
    <3>1. message \in Messages /\ inbox' = Append(inbox, message) /\ message.kind = "error"
      BY <2>6 DEF Messages, Fail, Ends
    <3> HIDE DEF message
    <3>2. QED
      BY <2>4, <3>1
  <2>7. CASE TellEvent(r)
    <3> DEFINE message == [kind |-> "model_event", run |-> r, index |-> counted]
    <3>1. message \in Messages /\ inbox' = Append(inbox, message) /\ message.kind = "model_event"
      BY <2>7 DEF Messages, TellEvent, SessionTypes, ThreadTypes
    <3> HIDE DEF message
    <3>2. QED
      BY <2>4, <3>1
  <2>8. CASE inbox' = inbox
    BY <2>2, <2>3, <2>8 DEF ReportInv, ResultIsOfTheEvaluation
  <2>9. QED
    BY <1>4, <2>5, <2>6, <2>7, <2>8 DEF Worker, Validate, OpenJournal, WriteEvent, LoseEvent
<1>5. CASE PollEvents
  <2>1. /\ inbox # <<>> /\ inbox' = Tail(inbox) /\ UNCHANGED <<started, request, folder>>
    BY <1>5 DEF PollEvents, FinishDeviceDiscovery, AppendModelEvent, FinishSuccess, FinishError, Receive,
       evaluation
  <2>2. /\ DOMAIN inbox = 1 .. Len(inbox) /\ Len(inbox) \in Nat /\ Len(inbox) > 0
        /\ DOMAIN inbox' = 1 .. Len(inbox) - 1 /\ Head(inbox) = inbox[1]
        /\ \A i \in 1 .. Len(inbox) - 1 : inbox'[i] = inbox[i + 1]
    BY <1>0, <2>1, SeqTail
  <2>3. \A i \in DOMAIN inbox' : inbox'[i].kind = "result" /\ Reporting(started)' =>
           folder'[request'[started'].folder].report = started'
    BY <2>1, <2>2 DEF ReportInv, Reporting
  <2>4. CASE FinishSuccess
    <3>1. inbox[1].kind = "result" /\ inbox[1].run = started /\ started > 0
      BY <2>2, <2>4 DEF FinishSuccess, Receive, OneAnswer
    <3> DEFINE given == request[started].folder
               report == folder[given].report
    <3>2. Reporting(started) => report = started /\ report # Torn
      BY <1>0, <2>2, <3>1 DEF ReportInv, Torn
    <3>3. \/ report = Torn /\ screen' = [screen EXCEPT !.status = "COMPLETE", !.output = given]
          \/ screen' = [screen EXCEPT !.status = "COMPLETE", !.output = given, !.report = report]
      BY <2>2, <2>4, <3>1 DEF FinishSuccess
    <3>4. screen.run = started
      BY DEF OneEvaluation
    <3>5. /\ screen'.run = started /\ screen'.output = given
          /\ Reporting(started) => screen'.report = started
      BY <1>0, <3>2, <3>3, <3>4 DEF Screens
    <3>6. QED
      BY <2>1, <2>3, <3>5 DEF ReportInv, ResultIsOfTheEvaluation, Reporting
  <2>5. CASE ~FinishSuccess
    <3>1. screen'.status = "COMPLETE" => /\ screen'.run = screen.run /\ screen'.output = screen.output
                                         /\ screen'.report = screen.report /\ screen.status = "COMPLETE"
      BY <1>0, <1>5, <2>5 DEF PollEvents, FinishDeviceDiscovery, AppendModelEvent, FinishError, Screens
    <3>2. QED
      BY <2>1, <2>3, <3>1 DEF ReportInv, ResultIsOfTheEvaluation
  <2>6. QED
    BY <2>4, <2>5
<1>6. CASE UNCHANGED sessionVars
  BY <1>1, <1>6 DEF sessionVars, window, evaluation
<1>7. QED
  BY <1>2, <1>3, <1>4, <1>5, <1>6 DEF SessionNext

-----------------------------------------------------------------------------
SessionInv ==
    /\ SessionTypes /\ OneEvaluation /\ OneAnswer
    /\ AgreedInv /\ SettingsInv /\ JournalInv /\ ReportInv

\* The invariant holds when the window opens.
LEMMA SessionStarts == SessionInit => SessionInv
<1> SUFFICES ASSUME SessionInit PROVE SessionInv
  OBVIOUS
<1>1. MaxRuns \in Nat /\ 1 \in Folders /\ RunIds \subseteq Nat \ {0}
  BY BoundsAssumption DEF Folders, RunIds
<1>2. FormTypes
  BY <1>1 DEF SessionInit, FormTypes, FormFields, PcEvaluationMode, DeviceModes
<1>3. RequestTypes
  BY <1>1 DEF SessionInit, NoRequest, RequestTypes, RequestFields, FormFields, PcEvaluationMode
<1>4. ThreadTypes
  <2>1. <<>> \in Seq(Event) /\ NoRun \in Reported
    BY <1>1 DEF NoRun, Reported
  <2>2. folder \in [Folders -> [journal : Seq(Event), report : Reported]]
    BY <2>1 DEF SessionInit
  <2>3. QED
    <3>1. /\ started = 0 /\ environ = 0 /\ counted = 0 /\ saved = [r \in RunIds |-> 0]
          /\ stage = [r \in RunIds |-> "NEW"]
      BY DEF SessionInit, Inherited, NoRun
    <3>2. 0 \in 0 .. MaxRuns /\ "NEW" \in Stages /\ 0 \in Nat
      BY <1>1 DEF Stages
    <3>3. QED
      BY <2>2, <3>1, <3>2 DEF ThreadTypes
<1>5. inbox = <<>> /\ started = 0 /\ environ = 0 /\ \A r \in RunIds : stage[r] = "NEW"
  BY DEF SessionInit, Inherited, NoRun
<1>6. screen = [status |-> "READY", run |-> 0, log |-> <<>>, report |-> 0, output |-> 0]
  BY DEF SessionInit, Blank, NoRun
<1>7. WindowTypes
  <2>1. <<>> \in Seq(Event) /\ <<>> \in Seq(Messages) /\ 0 \in Reported
    BY <1>1 DEF Reported
  <2>2. screen \in Screens
    BY <1>1, <1>6, <2>1 DEF Screens
  <2>3. QED
    BY <1>5, <2>1, <2>2 DEF SessionInit, WindowTypes
<1>8. OneEvaluation /\ OneAnswer
  <2>1. box.kind = "NONE"
    BY DEF SessionInit, NoBox
  <2>2. OneEvaluation
    BY <1>1, <1>5, <1>6, <2>1 DEF OneEvaluation
  <2>3. OneAnswer
    BY <1>5 DEF OneAnswer
  <2>4. QED
    BY <2>2, <2>3
<1>9. AgreedInv /\ SettingsInv
  BY <1>1, <1>5 DEF AgreedInv, Operates, SettingsInv, Working
<1>10. JournalInv /\ ReportInv
  BY <1>5, <1>6 DEF JournalInv, ReportInv, ResultIsOfTheEvaluation
<1>11. QED
  BY <1>2, <1>3, <1>4, <1>7, <1>8, <1>9, <1>10 DEF SessionInv, SessionTypes

\* Every step keeps the invariant.
LEMMA SessionKeeps == SessionInv /\ [SessionNext]_sessionVars => SessionInv'
<1> SUFFICES ASSUME SessionInv, [SessionNext]_sessionVars PROVE SessionInv'
  OBVIOUS
<1>1. SessionTypes'
  BY FormIsTyped, RequestIsTyped, ThreadsAreTyped, WindowIsTyped DEF SessionInv, SessionTypes
<1>2. QED
  BY <1>1, OneEvaluationKeeps, OneAnswerKeeps, AgreedKeeps, SettingsKeep, JournalKeeps, ReportKeeps
     DEF SessionInv

\* The invariant of the session.
LEMMA SessionIsInvariant == SessionSpec => []SessionInv
BY SessionStarts, SessionKeeps, PTL DEF SessionSpec

\* For every set of devices and number of evaluations, a device is operated only under
\* the serial that was confirmed, whatever a listing changed in the form meanwhile.
THEOREM ConfirmedSerialTheorem == SessionSpec => []ConfirmedSerialExecutes
<1>1. SessionInv => ConfirmedSerialExecutes
  BY DEF SessionInv, AgreedInv, Operates, Working, ConfirmedSerialExecutes
<1>2. QED
  BY <1>1, SessionIsInvariant, PTL

\* The process has an evaluation's settings exactly while that evaluation operates its
\* device, and its own again afterwards.
THEOREM SettingsTheorem == SessionSpec => []SettingsFollowTheEvaluation
<1>1. SessionInv => SettingsFollowTheEvaluation
  BY DEF SessionInv, SettingsInv, SettingsFollowTheEvaluation
<1>2. QED
  BY <1>1, SessionIsInvariant, PTL

\* The live view is a beginning of the journal, and the whole journal once the
\* evaluation is reported complete, though writes fail and the queue lags behind.
THEOREM ScreenTheorem == SessionSpec => []ScreenFollowsTheJournal
<1>1. ASSUME SessionInv PROVE ScreenFollowsTheJournal
  <2>1. SUFFICES ASSUME screen.run # NoRun
                 PROVE  /\ IsPrefix(screen.log, Journal) \/ screen.log = <<>>
                        /\ screen.status = "COMPLETE" /\ request[started].mode = "DEVICE_EXECUTION" =>
                             screen.log = Journal
    BY <1>1 DEF ScreenFollowsTheJournal, Journal, SessionInv, OneEvaluation
  <2>2. started > 0 /\ started \in RunIds
    BY <1>1, <2>1, BoundsAssumption DEF SessionInv, OneEvaluation, SessionTypes, ThreadTypes, NoRun, RunIds
  <2>3. Journal \in Seq(Event) /\ screen.log \in Seq(Event)
    BY <1>1, <2>2 DEF SessionInv, SessionTypes, RequestTypes, ThreadTypes, WindowTypes, Screens, Journal
  <2>4. CASE Unopened
    BY <2>4 DEF Unopened
  <2>5. CASE Opened
    <3>1. Flowing(Journal, screen.log, inbox, ToTell) /\ ToTell \in 0 .. 1
      BY <2>5 DEF Opened, ToTell
    <3>2. IsPrefix(screen.log, Journal) /\ (Silent(inbox) /\ ToTell = 0 => screen.log = Journal)
      BY <2>3, <3>1, FlowShows
    <3>3. screen.status = "COMPLETE" => Silent(inbox) /\ ToTell = 0
      BY <1>1, <2>2 DEF SessionInv, OneEvaluation, OneAnswer, Silent, ToTell
    <3>4. QED
      BY <3>2, <3>3
  <2>6. QED
    BY <1>1, <2>2, <2>4, <2>5 DEF SessionInv, JournalInv
<1>2. QED
  BY <1>1, SessionIsInvariant, PTL

\* The report on the screen is that of the evaluation reported, from its own folder.
THEOREM ResultTheorem == SessionSpec => []ResultIsOfTheEvaluation
<1>1. SessionInv => ResultIsOfTheEvaluation
  BY DEF SessionInv, ReportInv
<1>2. QED
  BY <1>1, SessionIsInvariant, PTL
=============================================================================

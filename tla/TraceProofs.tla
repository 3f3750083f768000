---------------------------- MODULE TraceProofs ----------------------------
(***************************************************************************)
(* Theorems about the recorded trace, its evidence and its verdict: the    *)
(* events the audit source publishes while the runner writes               *)
(* (RunnerTrace), where the runner types, what a public verdict on a trace *)
(* rests on (TraceVerifier, with the selection of the contract, the event  *)
(* log and the temporal replay under it), and what a paid model is asked   *)
(* and what is kept of its answers (EvidencePipeline).                     *)
(*                                                                         *)
(* The runner: RunnerInv and AuditInv tell the listing, the frames emitted *)
(* and the numbers of the events apart; WriteInv and ListInv say which     *)
(* frames of a listing the runner may still write, so that an event tells  *)
(* what stays; FocusInv says that the focus the device object remembers is *)
(* the target last touched for typing.                                     *)
(* The verifier: VerifierInv carries what a stage has established to the   *)
(* next one; the step to the verdict rests on EventsTell and StatusTells,  *)
(* which follow an observation through the event log and the replay.       *)
(* The recorder: RecorderInv says that what it holds in memory is what is  *)
(* on disk, up to the answer it is about to write, and that what it has    *)
(* spent and may still spend is within what the session was allowed.       *)
(***************************************************************************)
EXTENDS RunnerTrace, TraceVerifier, EvidencePipeline, FiniteSetTheorems, WellFoundedInduction, TLAPS

-----------------------------------------------------------------------------
(* Numbers and sequences.                                                  *)

\* A nonempty set of numbers has a least one.
LEMMA LeastNumber ==
    ASSUME NEW S \in SUBSET Nat, S # {}
    PROVE  \E i \in S : \A j \in S : i <= j
<1> DEFINE Before == {ss \in Nat \X Nat : ss[1] < ss[2]}
<1>1. IsWellFoundedOn(Before, Nat)
  BY NatLessThanWellFounded DEF OpToRel
<1>2. \E x \in S : \A y \in S : ~ (<<y, x>> \in Before)
  <2> HIDE DEF Before
  <2> QED BY <1>1, WFMin
<1>3. \A x, y \in S : <<y, x>> \notin Before => x <= y
  BY DEF Before
<1>4. QED
  <2> HIDE DEF Before
  <2> QED BY <1>2, <1>3

\* A nonempty set of numbers with a bound has a greatest one.
LEMMA GreatestNumber ==
    ASSUME NEW n \in Nat, NEW S \in SUBSET (0..n), S # {}
    PROVE  \E i \in S : \A j \in S : j <= i
<1> DEFINE T == {n - i : i \in S}
<1>1. T \in SUBSET Nat /\ T # {}
  <2>1. \A i \in 0..n : n - i \in Nat
    OBVIOUS
  <2>2. \A i \in S : n - i \in Nat
    BY <2>1
  <2>3. T \in SUBSET Nat
    BY <2>2
  <2>4. QED
    BY <2>3
<1>2. PICK m \in T : \A j \in T : m <= j
  <2> HIDE DEF T
  <2> QED BY <1>1, LeastNumber
<1>3. PICK i \in S : m = n - i
  BY <1>2
<1>4. ASSUME NEW j \in S PROVE j <= i
  <2>1. n - j \in T
    OBVIOUS
  <2>2. m <= n - j
    BY <1>2, <2>1
  <2>3. i \in 0..n /\ j \in 0..n
    OBVIOUS
  <2>4. QED
    BY <1>3, <2>2, <2>3
<1>5. QED
  BY <1>4

\* A nonempty set of bounded numbers has a greatest one, which Max and LastOf name.
LEMMA MaxIsGreatest ==
    ASSUME NEW n \in Nat, NEW S \in SUBSET (0..n), S # {}
    PROVE  /\ Max(S) \in S /\ \A j \in S : j <= Max(S)
           /\ LastOf(S) \in S
<1> DEFINE T == {n - k : k \in S}
<1>1. T \in SUBSET Nat /\ T # {}
  <2>1. \A k \in S : k \in Nat /\ k <= n /\ n - k \in Nat
    OBVIOUS
  <2>2. QED
    BY <2>1
<1>2. PICK m \in T : \A t \in T : m <= t
  <2> HIDE DEF T
  <2> QED BY <1>1, LeastNumber
<1>3. PICK k \in S : m = n - k
  BY <1>2
<1>4. \A j \in S : j \in Nat /\ j <= k
  <2>1. \A j \in S : n - j \in T /\ j \in Nat
    OBVIOUS
  <2>2. k \in Nat
    OBVIOUS
  <2> HIDE DEF T
  <2>3. \A j \in S : n - k <= n - j
    BY <1>2, <1>3, <2>1
  <2>4. QED
    BY <2>1, <2>2, <2>3
<1>5. \E x \in S : \A y \in S : x >= y
  BY <1>4
<1>6. Max(S) \in S /\ \A j \in S : Max(S) >= j
  BY <1>5 DEF Max
<1>7. LastOf(S) \in S
  BY <1>4 DEF LastOf
<1>8. QED
  BY <1>4, <1>6, <1>7

\* The elements after an Append.
LEMMA ToSetOfAppend ==
    ASSUME NEW T, NEW a \in Seq(T), NEW e \in T
    PROVE  ToSet(Append(a, e)) = ToSet(a) \cup {e}
<1>1. \A i \in DOMAIN a : i \in DOMAIN Append(a, e) /\ Append(a, e)[i] = a[i]
  OBVIOUS
<1>2. Len(a) + 1 \in DOMAIN Append(a, e) /\ Append(a, e)[Len(a) + 1] = e
  OBVIOUS
<1>3. \A i \in DOMAIN Append(a, e) : i \in DOMAIN a \/ i = Len(a) + 1
  OBVIOUS
<1>4. QED
  BY <1>1, <1>2, <1>3 DEF ToSet

\* The elements of a short sequence.
LEMMA ToSetOfFew == \A e : ToSet(<<>>) = {} /\ ToSet(<<e>>) = {e}
<1>1. ToSet(<<>>) = {}
  BY DEF ToSet
<1>2. \A e : DOMAIN <<e>> = {1} /\ <<e>>[1] = e
  OBVIOUS
<1>3. QED
  BY <1>1, <1>2 DEF ToSet

\* A nonempty set of positions has a last one, which Max names.
LEMMA MaxIsLast ==
    ASSUME NEW n \in Nat, NEW S \in SUBSET (1..n), S # {}
    PROVE  Max(S) \in S /\ \A j \in S : j <= Max(S)
<1>1. S \in SUBSET (0..n)
  OBVIOUS
<1>2. QED
  BY <1>1, MaxIsGreatest

-----------------------------------------------------------------------------
(* The runner and its directory.                                           *)

Contents == {"absent", "torn", "good", "bad"}
Points == {NoPoint} \cup (Nat \X Nat)
ActionRecord == [type : ActionTypes, point : Points]
FrameFiles == [Artifacts -> Contents]

RunnerTypes ==
    /\ run \in [task : Tasks, act : ActionTypes \cup {"none"},
                pc : {"start", "look", "act", "actions", "react", "stop", "ended", "died"}
                     \cup Artifacts]
    /\ actions \in Seq(ActionRecord)
    /\ focus \in Points
    /\ disk.frames \in [Frames -> FrameFiles]
    /\ disk = [frames |-> disk.frames, actions |-> disk.actions, react |-> disk.react]

Shown(i) == \E k \in Artifacts : disk.frames[i][k] # "absent"

\* The frames before the current one are on the disk, and none after it; an
\* action is performed only with its picture saved.
DiskInv ==
    /\ Len(actions) \in 0 .. MaxSteps
    /\ run.pc \in Artifacts \cup {"act"} => Len(actions) < MaxSteps
    /\ run.pc \in {"act", "json", "xml"} => disk.frames[image_index]["jpg"] # "absent"
    /\ \A i \in Frames : /\ i < image_index => Shown(i)
                         /\ i > image_index => ~Shown(i)

RunnerInv == RunnerTypes /\ DiskInv

\* The point a click_input is remembered by is a point.
LEMMA PreviousPoint ==
    ASSUME NEW list \in Seq(ActionRecord)
    PROVE  previous_click_input_point(list) \in Points
<1> DEFINE relevant == {i \in DOMAIN list : list[i].type \in {"touch", "click_input"}}
<1>1. relevant # {} => Max(relevant) \in relevant
  <2>1. relevant \in SUBSET (1..Len(list)) /\ Len(list) \in Nat
    OBVIOUS
  <2> HIDE DEF relevant
  <2>2. QED
    BY <2>1, MaxIsLast
<1>2. previous_click_input_point(list)
      = IF relevant = {} \/ list[Max(relevant)].type = "touch"
        THEN NoPoint ELSE list[Max(relevant)].point
  BY DEF previous_click_input_point
<1>3. \A i \in relevant : list[i] \in ActionRecord
  OBVIOUS
<1> HIDE DEF relevant
<1>4. QED
  BY <1>1, <1>2, <1>3 DEF ActionRecord, Points

\* The runner keeps its directory in the order of its frames.
LEMMA RunnerKeeps ==
    ASSUME RunnerInv, [Next]_vars
    PROVE  RunnerInv'
<1> USE RunnerBounds DEF RunnerInv
<1>1. image_index \in Nat /\ Len(actions) \in Nat /\ image_index = Len(actions) + 1
  BY DEF image_index, RunnerTypes
<1>2. CASE UNCHANGED runner
  BY <1>2 DEF runner, RunnerTypes, DiskInv, Shown, image_index
<1>3. ASSUME UNCHANGED <<actions, focus, disk>>, run' \in [task : Tasks, act : ActionTypes \cup {"none"},
                pc : {"start", "look", "actions", "react", "stop", "ended", "died"}]
      PROVE  RunnerInv'
  <2>1. run'.pc \notin Artifacts \cup {"act", "json", "xml"}
    BY <1>3 DEF Artifacts
  <2>2. RunnerTypes'
    BY <1>3 DEF RunnerTypes
  <2>3. DiskInv'
    BY <1>3, <2>1 DEF DiskInv, Shown, image_index
  <2>4. QED
    BY <2>2, <2>3
<1>4. CASE app_start
  BY <1>3, <1>4 DEF app_start, RunnerTypes
<1>5. CASE Decide
  <2>1. CASE Len(actions) >= MaxSteps
    BY <1>3, <1>5, <2>1 DEF Decide, RunnerTypes
  <2>2. CASE ~(Len(actions) >= MaxSteps)
    <3>0. Len(actions) < MaxSteps
      BY <1>1, <2>2
    <3>1. /\ UNCHANGED <<actions, focus, disk>> /\ Len(actions) < MaxSteps
          /\ \E act \in ActionTypes : run' = [run EXCEPT !.pc = "jpg", !.act = act]
      BY <1>5, <2>2, <3>0 DEF Decide
    <3>2. RunnerTypes' /\ run'.pc = "jpg"
      BY <3>1 DEF RunnerTypes, Artifacts
    <3>3. DiskInv'
      BY <3>1, <3>2 DEF DiskInv, Shown, image_index
    <3>4. QED
      BY <3>2, <3>3
  <2>3. QED
    BY <2>1, <2>2
<1>6. CASE OpenArtifact
  <2> DEFINE k == run.pc
             n == image_index
  <2>1. /\ k \in Artifacts /\ n \in Frames /\ UNCHANGED <<actions, focus, run>>
        /\ disk' = [disk EXCEPT !.frames[n][k] = "torn"]
    BY <1>1, <1>6 DEF OpenArtifact, DiskInv, Frames
  <2>2. disk'.frames = [disk.frames EXCEPT ![n] = [disk.frames[n] EXCEPT ![k] = "torn"]]
    BY <2>1 DEF RunnerTypes
  <2>3. RunnerTypes'
    BY <2>1, <2>2 DEF RunnerTypes, FrameFiles, Contents
  <2>4. \A i \in Frames : i # n => disk'.frames[i] = disk.frames[i]
    BY <2>1, <2>2 DEF RunnerTypes
  <2>5. disk'.frames[n] = [disk.frames[n] EXCEPT ![k] = "torn"]
    BY <2>1, <2>2 DEF RunnerTypes
  <2>6. disk.frames[n]["jpg"] # "absent" => disk'.frames[n]["jpg"] # "absent"
    BY <2>1, <2>5 DEF RunnerTypes, FrameFiles, Artifacts
  <2>7. image_index' = n /\ n \in Nat
    BY <1>1, <2>1 DEF image_index
  <2>8. DiskInv'
    BY <2>1, <2>4, <2>6, <2>7 DEF DiskInv, Shown, Frames
  <2>9. QED
    BY <2>3, <2>8
<1>7. CASE CloseArtifact
  <2> DEFINE k == run.pc
             n == image_index
  <2>1. PICK content \in {"good", "bad"} :
          /\ content = "bad" => run.pc # "jpg"
          /\ disk' = [disk EXCEPT !.frames[n] =
               [j \in Artifacts |-> IF j = k \/ (content = "bad" /\ @[j] # "absent" /\ j = "json")
                                    THEN content ELSE @[j]]]
          /\ run' = [run EXCEPT !.pc = IF content = "bad" THEN "act" ELSE AfterArtifact(run.pc)]
    BY <1>7 DEF CloseArtifact
  <2>2. k \in Artifacts /\ n \in Frames /\ UNCHANGED <<actions, focus>>
    BY <1>1, <1>7 DEF CloseArtifact, DiskInv, Frames
  <2> DEFINE files == [j \in Artifacts |->
                 IF j = k \/ (content = "bad" /\ disk.frames[n][j] # "absent" /\ j = "json")
                 THEN content ELSE disk.frames[n][j]]
  <2>3. disk' = [disk EXCEPT !.frames = [disk.frames EXCEPT ![n] = files]]
    BY <2>1, <2>2 DEF RunnerTypes
  <2>4. files \in FrameFiles
    BY <2>2 DEF RunnerTypes, FrameFiles, Contents
  <2>5. files["jpg"] # "absent"
    BY <2>1, <2>2 DEF RunnerTypes, FrameFiles, DiskInv, Artifacts
  <2> HIDE DEF files
  <2>6. disk'.frames = [disk.frames EXCEPT ![n] = files]
    BY <2>3 DEF RunnerTypes
  <2>7. run' \in [task : Tasks, act : ActionTypes \cup {"none"}, pc : {"json", "xml", "act"}]
    BY <2>1, <2>2 DEF RunnerTypes, AfterArtifact, Artifacts
  <2>8. RunnerTypes'
    BY <2>2, <2>3, <2>4, <2>6, <2>7 DEF RunnerTypes, Artifacts
  <2>9. /\ \A i \in Frames : i # n => disk'.frames[i] = disk.frames[i]
        /\ disk'.frames[n] = files
    BY <2>2, <2>6 DEF RunnerTypes
  <2>10. image_index' = n /\ n \in Nat
    BY <1>1, <2>2 DEF image_index
  <2>11. Len(actions) < MaxSteps
    BY <2>2 DEF DiskInv
  <2>12. DiskInv'
    BY <2>2, <2>5, <2>9, <2>10, <2>11 DEF DiskInv, Shown, Frames
  <2>13. QED
    BY <2>8, <2>12
<1>8. ASSUME run.pc = "act", NEW point \in Points,
             actions' = Append(actions, [type |-> run.act, point |-> point]),
             run.act \in ActionTypes, disk' = disk, focus' \in Points,
             run' \in [task : Tasks, act : ActionTypes \cup {"none"}, pc : {"look", "actions"}]
      PROVE  RunnerInv'
  <2>1. [type |-> run.act, point |-> point] \in ActionRecord
    BY <1>8 DEF ActionRecord
  <2>2. actions' \in Seq(ActionRecord) /\ Len(actions') = Len(actions) + 1
    BY <1>8, <2>1 DEF RunnerTypes
  <2>3. RunnerTypes'
    BY <1>8, <2>2 DEF RunnerTypes
  <2>4. image_index \in Frames /\ Shown(image_index)
    BY <1>1, <1>8 DEF DiskInv, Frames, Shown, Artifacts
  <2>5. DiskInv'
    BY <1>1, <1>8, <2>2, <2>4 DEF DiskInv, Shown, image_index, Frames, Artifacts
  <2>6. QED
    BY <2>3, <2>5
<1>9. NoPoint \in Points /\ <<run.task, image_index>> \in Points
  BY <1>1 DEF RunnerTypes, Tasks, Points
<1>10. CASE handle_touch_action
  BY <1>8, <1>9, <1>10 DEF handle_touch_action, Record, ActionTypes, RunnerTypes
<1>11. CASE handle_click_input_action
  BY <1>8, <1>9, <1>11 DEF handle_click_input_action, TypeAt, Record, ActionTypes, RunnerTypes
<1>12. CASE handle_input_action
  <2>1. FocusPoint \in Points
    BY PreviousPoint DEF FocusPoint, RunnerTypes
  <2>2. QED
    BY <1>8, <1>12, <2>1 DEF handle_input_action, TypeAt, Record, ActionTypes, RunnerTypes
<1>13. CASE handle_other_action
  BY <1>8, <1>9, <1>13 DEF handle_other_action, Record, ActionTypes, RunnerTypes
<1>14. CASE Die
  BY <1>3, <1>14 DEF Die, RunnerTypes
<1>15. CASE WriteFinalFiles
  <2>1. /\ run.pc \in {"actions", "react"} /\ UNCHANGED <<actions, focus>>
        /\ run' \in [task : Tasks, act : ActionTypes \cup {"none"},
                     pc : {"actions", "react", "stop"}]
    BY <1>15 DEF WriteFinalFiles, RunnerTypes
  <2>2. disk'.frames = disk.frames
        /\ disk' = [frames |-> disk'.frames, actions |-> disk'.actions, react |-> disk'.react]
    BY <1>15 DEF WriteFinalFiles, RunnerTypes
  <2>3. RunnerTypes'
    BY <2>1, <2>2 DEF RunnerTypes
  <2>4. DiskInv'
    BY <2>1, <2>2 DEF DiskInv, Shown, image_index, Artifacts
  <2>5. QED
    BY <2>3, <2>4
<1>16. CASE app_stop
  <2>1. CASE run.task < MaxTasks
    <3>1. /\ run' = [task |-> run.task + 1, pc |-> "start", act |-> "none"]
          /\ actions' = <<>> /\ disk' = Empty /\ focus' = focus
      BY <1>16, <2>1 DEF app_stop, RunnerTypes, Tasks
    <3>2. RunnerTypes'
      BY <2>1, <3>1 DEF RunnerTypes, Empty, FrameFiles, Contents, Tasks
    <3>3. disk'.frames = [i \in Frames |-> [k \in Artifacts |-> "absent"]]
      BY <3>1 DEF Empty
    <3>4. image_index' = 1 /\ Len(actions') = 0
      BY <3>1 DEF image_index
    <3>5. DiskInv'
      BY <3>1, <3>3, <3>4 DEF DiskInv, Shown, Frames, Artifacts
    <3>6. QED
      BY <3>2, <3>5
  <2>2. CASE ~(run.task < MaxTasks)
    BY <1>3, <1>16, <2>2 DEF app_stop, RunnerTypes
  <2>3. QED
    BY <2>1, <2>2
<1>17. QED
  BY <1>2, <1>4, <1>5, <1>6, <1>7, <1>10, <1>11, <1>12, <1>13, <1>14, <1>15, <1>16
     DEF Next, RunnerStep, AuditStep, vars

-----------------------------------------------------------------------------
(* The audit source and its channel.                                       *)

Event == [index : Nat, frame : Nat, got : FrameFiles, final : BOOLEAN, previous : Nat]

\* The n-th event tells of the n-th frame, but for the one that ends the trace.
InPlace(e, n) == e.index = n - 1 /\ e.frame = n /\ e.previous = n - 1
IsEnd(e, n) == e.index = n - 1 /\ e.frame = 0

\* The frames told so far are the first ones, in order.
ToldInv(all, count) ==
    /\ all \in Seq(Event)
    /\ emitted = 1 .. count
    /\ sequence = Len(all)
    /\ \A n \in 1 .. count : InPlace(all[n], n)
    /\ IF finalized THEN Len(all) = count + 1 /\ IsEnd(all[count + 1], count + 1)
                    ELSE Len(all) = count

SourceTypes ==
    /\ source \in [pc : {"idle", "final", "frames", "finalized"}, on : BOOLEAN,
                   listing : {source.listing}, final : BOOLEAN, errors : Nat]
    /\ \E m \in 0 .. MaxSteps : Listed = 1 .. m
    /\ queue \in Seq(Event) /\ seen \in Seq(Event)

AuditInv == SourceTypes /\ \E count \in Nat : ToldInv(published, count)

\* A set of all the numbers up to one is an interval.
LEMMA FirstPart ==
    ASSUME NEW M \in Nat, NEW T \in SUBSET (1 .. M), NEW n \in 0 .. M,
           \A j \in 1 .. M : j \in T <=> j <= n
    PROVE  T = 1 .. n
<1>1. \A j \in T : j \in 1 .. n
  OBVIOUS
<1>2. \A j \in 1 .. n : j \in T
  OBVIOUS
<1>3. QED
  BY <1>1, <1>2

\* The directory shows a first part of the frames.
LEMMA FirstFrames ==
    ASSUME RunnerInv
    PROVE  \E m \in 0 .. MaxSteps :
              {j \in Frames : {k \in Artifacts : Watched.frames[j][k] # "absent"} # {}} = 1 .. m
<1> USE RunnerBounds
<1> DEFINE there == {j \in Frames : {k \in Artifacts : Watched.frames[j][k] # "absent"} # {}}
<1>1. CASE run.task # MaxTasks
  <2>1. \A j \in Frames : \A k \in Artifacts : Watched.frames[j][k] = "absent"
    BY <1>1 DEF Watched, Empty
  <2>2. there = 1 .. 0 /\ 0 \in 0 .. MaxSteps
    BY <2>1
  <2> HIDE DEF there
  <2>3. \E m \in 0 .. MaxSteps : there = 1 .. m
    BY <2>2
  <2>4. QED
    BY <2>3 DEF there
<1>2. CASE run.task = MaxTasks
  <2>1. Watched = disk
    BY <1>2 DEF Watched
  <2>2. \A j \in Frames : j \in there <=> Shown(j)
    BY <2>1 DEF Shown
  <2>3. there \subseteq Frames
    OBVIOUS
  <2> HIDE DEF there
  <2>4. Len(actions) \in 0 .. MaxSteps /\ image_index = Len(actions) + 1
        /\ \A i \in Frames : (i < image_index => Shown(i)) /\ (i > image_index => ~Shown(i))
    BY DEF RunnerInv, DiskInv, image_index
  <2>5. CASE image_index \in Frames /\ Shown(image_index)
    <3>1. \A j \in Frames : j \in there <=> j <= image_index
      BY <2>2, <2>4, <2>5 DEF Frames
    <3>2. image_index \in 0 .. MaxSteps
      BY <2>5 DEF Frames
    <3>3. there = 1 .. image_index
      BY <2>3, <3>1, <3>2, FirstPart DEF Frames
    <3>4. QED
      BY <3>2, <3>3 DEF there
  <2>6. CASE ~(image_index \in Frames /\ Shown(image_index))
    <3>1. \A j \in Frames : j \in there <=> j <= Len(actions)
      BY <2>2, <2>4, <2>6 DEF Frames
    <3>2. there = 1 .. Len(actions)
      BY <2>3, <2>4, <3>1, FirstPart DEF Frames
    <3>3. QED
      BY <2>4, <3>2 DEF there
  <2>7. QED
    BY <2>5, <2>6
<1>3. QED
  BY <1>1, <1>2

\* What is left to tell begins after what was told.
LEMMA NextToTell ==
    ASSUME NEW m \in Nat, NEW e \in Nat, Listed = 1 .. m, emitted = 1 .. e, Pending # {}
    PROVE  Min(Pending) = e + 1 /\ e + 1 <= m
<1>1. Pending = e + 1 .. m /\ e + 1 <= m
  BY DEF Pending
<1>2. e + 1 \in Pending /\ \A y \in Pending : e + 1 <= y
  BY <1>1
<1>3. Min(Pending) \in Pending /\ \A y \in Pending : Min(Pending) <= y
  BY <1>2 DEF Min
<1>4. QED
  BY <1>1, <1>2, <1>3

LEMMA LastTold ==
    ASSUME NEW e \in Nat, emitted = 1 .. e
    PROVE  (IF emitted = {} THEN 0 ELSE Max(emitted)) = e
<1>1. CASE e = 0
  BY <1>1
<1>2. CASE e # 0
  <2>1. emitted # {} /\ e \in emitted
    BY <1>2
  <2>2. Max(emitted) \in emitted /\ \A j \in emitted : j <= Max(emitted)
    BY <2>1, MaxIsLast
  <2>3. QED
    BY <2>1, <2>2
<1>3. QED
  BY <1>1, <1>2

\* An event goes through the channel as it was put there.
LEMMA Channel ==
    ASSUME NEW S, NEW s \in Seq(S), NEW q \in Seq(S)
    PROVE  /\ s \o q \in Seq(S)
           /\ \A e \in S : /\ Append(q, e) \in Seq(S)
                           /\ s \o Append(q, e) = Append(s \o q, e)
           /\ q # <<>> => /\ Append(s, Head(q)) \in Seq(S) /\ Tail(q) \in Seq(S)
                          /\ Append(s, Head(q)) \o Tail(q) = s \o q
<1>1. s \o q \in Seq(S)
  OBVIOUS
<1>2. ASSUME NEW e \in S
      PROVE  Append(q, e) \in Seq(S) /\ s \o Append(q, e) = Append(s \o q, e)
  OBVIOUS
<1>3. ASSUME q # <<>>
      PROVE  /\ Append(s, Head(q)) \in Seq(S) /\ Tail(q) \in Seq(S)
             /\ Append(s, Head(q)) \o Tail(q) = s \o q
  BY <1>3
<1>4. QED
  BY <1>1, <1>2, <1>3

\* What is published next stands after what was.
LEMMA Published ==
    ASSUME NEW S, NEW all \in Seq(S), NEW e \in S
    PROVE  /\ Append(all, e) \in Seq(S) /\ Len(Append(all, e)) = Len(all) + 1
           /\ Append(all, e)[Len(all) + 1] = e
           /\ \A n \in 1 .. Len(all) : Append(all, e)[n] = all[n]
  OBVIOUS

LEMMA AuditKeeps ==
    ASSUME RunnerInv, AuditInv, [Next]_vars
    PROVE  AuditInv'
<1> USE RunnerBounds
<1>1. PICK count \in Nat : ToldInv(published, count)
  BY DEF AuditInv
<1>2. PICK m \in 0 .. MaxSteps : Listed = 1 .. m
  BY DEF AuditInv, SourceTypes
<1>3. /\ source \in [pc : {"idle", "final", "frames", "finalized"}, on : BOOLEAN,
                     listing : {source.listing}, final : BOOLEAN, errors : Nat]
      /\ queue \in Seq(Event) /\ seen \in Seq(Event)
  BY DEF AuditInv, SourceTypes
<1>4. published \in Seq(Event) /\ emitted = 1 .. count /\ sequence = Len(published)
  BY <1>1 DEF ToldInv
<1>5. ASSUME UNCHANGED <<queue, seen, emitted, sequence>>,
             source' \in [pc : {"idle", "final", "frames", "finalized"}, on : BOOLEAN,
                          listing : {source'.listing}, final : BOOLEAN, errors : Nat],
             finalized' <=> finalized, \E l \in 0 .. MaxSteps : Listed' = 1 .. l
      PROVE  AuditInv'
  <2>1. published' = published
    BY <1>5 DEF published
  <2>2. ToldInv(published, count)'
    BY <1>1, <1>5, <2>1 DEF ToldInv, InPlace, IsEnd
  <2>3. SourceTypes'
    BY <1>3, <1>5 DEF SourceTypes
  <2>4. QED
    BY <2>2, <2>3 DEF AuditInv
<1>6. ASSUME UNCHANGED <<queue, seen, emitted, sequence>>, ~finalized,
             source' \in [pc : {"idle", "final", "frames"}, on : BOOLEAN,
                          listing : {source.listing}, final : BOOLEAN, errors : Nat]
      PROVE  AuditInv'
  <2>1. source' \in [pc : {"idle", "final", "frames", "finalized"}, on : BOOLEAN,
                     listing : {source'.listing}, final : BOOLEAN, errors : Nat]
        /\ source'.listing = source.listing /\ ~finalized'
    BY <1>6 DEF finalized
  <2>2. Listed' = 1 .. m
    BY <1>2, <2>1 DEF Listed
  <2>3. QED
    BY <1>2, <1>5, <1>6, <2>1, <2>2
<1>7. CASE UNCHANGED audit
  <2>1. UNCHANGED <<source, queue, seen, emitted, sequence>>
    BY <1>7 DEF audit
  <2>2. QED
    BY <1>2, <1>3, <1>5, <2>1 DEF finalized, Listed
<1>8. CASE artifact_map
  <2> DEFINE present(i) == {k \in Artifacts : Watched.frames[i][k] # "absent"}
             there == {j \in Frames : present(j) # {}}
             listing == [i \in there |-> present(i)]
  <2>1. /\ source.pc = "idle" /\ UNCHANGED <<emitted, sequence, queue, seen>>
        /\ source' = [source EXCEPT !.pc = "final", !.listing = listing]
    BY <1>8 DEF artifact_map
  <2>2. DOMAIN listing = there
    OBVIOUS
  <2>3. \E l \in 0 .. MaxSteps : there = 1 .. l
    BY FirstFrames
  <2> HIDE DEF listing, there
  <2>4. source' \in [pc : {"idle", "final", "frames", "finalized"}, on : BOOLEAN,
                     listing : {source'.listing}, final : BOOLEAN, errors : Nat]
        /\ source'.listing = listing /\ source'.pc = "final"
    BY <1>3, <2>1
  <2>5. (finalized' <=> finalized) /\ Listed' = there
    BY <2>1, <2>2, <2>4 DEF finalized, Listed
  <2>6. QED
    BY <1>5, <2>1, <2>3, <2>4, <2>5
<1>9. CASE final_bundle_if_ready
  <2>1. PICK b \in BOOLEAN : /\ source.pc = "final" /\ UNCHANGED <<emitted, sequence, queue, seen>>
                             /\ source' = [source EXCEPT !.pc = "frames", !.final = b]
    BY <1>9 DEF final_bundle_if_ready
  <2>2. source' \in [pc : {"idle", "final", "frames", "finalized"}, on : BOOLEAN,
                     listing : {source'.listing}, final : BOOLEAN, errors : Nat]
        /\ source'.listing = source.listing /\ source'.pc = "frames"
    BY <1>3, <2>1
  <2>3. QED
    BY <1>2, <1>5, <2>1, <2>2 DEF finalized, Listed
<1>10. CASE EmitFrame
  <2> DEFINE i == Min(Pending)
             e == FrameContext(i)
  <2>1. /\ source.pc = "frames" /\ Pending # {} /\ seen' = seen
        /\ \/ /\ queue' = Append(queue, e) /\ emitted' = emitted \cup {i}
              /\ sequence' = sequence + 1 /\ UNCHANGED source
           \/ source' = [source EXCEPT !.pc = "idle"] /\ UNCHANGED <<queue, emitted, sequence>>
    BY <1>10 DEF EmitFrame, publish_nowait
  <2>2. i = count + 1 /\ i \in Frames /\ ~finalized /\ i \in Listed
    <3>1. i = count + 1 /\ count + 1 <= m
      BY <1>2, <1>4, <2>1, NextToTell
    <3>2. QED
      BY <1>2, <2>1, <3>1 DEF Frames, finalized
  <2>3. CASE /\ queue' = Append(queue, e) /\ emitted' = emitted \cup {i}
             /\ sequence' = sequence + 1 /\ UNCHANGED source
    <3>1. e \in Event /\ e.index = sequence /\ e.frame = i /\ e.previous = count
      <4>1. Read(i) \in FrameFiles
        <5>1. \A k \in Artifacts : Watched.frames[i][k] \in Contents
          BY <2>2 DEF Watched, Empty, Contents, RunnerInv, RunnerTypes, FrameFiles
        <5>2. QED
          BY <5>1 DEF Read, FrameFiles, Contents
      <4>2. (IF emitted = {} THEN 0 ELSE Max(emitted)) = count
        BY <1>4, LastTold
      <4>3. sequence \in Nat /\ source.final \in BOOLEAN /\ i \in Nat
        BY <1>3, <1>4, <2>2
      <4>4. e = [index |-> sequence, frame |-> i, got |-> Read(i), final |-> source.final,
                 previous |-> count]
        BY <4>2 DEF FrameContext
      <4> HIDE DEF e, i
      <4>5. QED
        BY <4>1, <4>3, <4>4 DEF Event
    <3> HIDE DEF e, i
    <3>2. /\ published' = Append(published, e) /\ published' \in Seq(Event)
          /\ queue' \in Seq(Event) /\ seen' \in Seq(Event)
      BY <1>3, <2>1, <2>3, <3>1, Channel DEF published
    <3>3. ~finalized' /\ Listed' = Listed
      BY <2>2, <2>3 DEF finalized, Listed
    <3>4. Len(published) = count /\ \A n \in 1 .. count : InPlace(published[n], n)
      BY <1>1, <2>2 DEF ToldInv
    <3>5. /\ Len(published') = count + 1 /\ published'[count + 1] = e
          /\ \A n \in 1 .. count : published'[n] = published[n]
      BY <1>4, <3>1, <3>2, <3>4, Published
    <3>6. \A n \in 1 .. count + 1 : InPlace(published'[n], n)
      <4>1. InPlace(e, count + 1)
        BY <1>4, <2>2, <3>1, <3>4 DEF InPlace
      <4>2. QED
        BY <3>4, <3>5, <4>1
    <3>7. emitted' = 1 .. count + 1 /\ sequence' = count + 1
      BY <1>4, <2>2, <2>3, <3>4
    <3>8. ToldInv(published, count + 1)'
      BY <3>2, <3>3, <3>5, <3>6, <3>7 DEF ToldInv, InPlace
    <3>9. SourceTypes'
      BY <1>2, <1>3, <2>3, <3>2, <3>3 DEF SourceTypes
    <3>10. QED
      BY <3>8, <3>9 DEF AuditInv
  <2>4. CASE source' = [source EXCEPT !.pc = "idle"] /\ UNCHANGED <<queue, emitted, sequence>>
    BY <1>3, <1>6, <2>1, <2>2, <2>4
  <2>5. QED
    BY <2>1, <2>3, <2>4
<1>11. CASE EndPoll
  <2>1. source.pc = "frames" /\ UNCHANGED <<emitted, seen>> /\ ~finalized
    BY <1>11 DEF EndPoll, finalized
  <2>2. CASE /\ source.final /\ Listed \subseteq emitted
             /\ publish_nowait(Finalized)
             /\ sequence' = sequence + 1
             /\ source' = [source EXCEPT !.pc = "finalized"]
    <3> DEFINE e == Finalized
    <3>1. e \in Event /\ e.index = sequence /\ e.frame = 0
      <4>1. Empty.frames[1] \in FrameFiles /\ sequence \in Nat
        BY <1>4 DEF Empty, FrameFiles, Contents, Frames
      <4>2. QED
        BY <4>1 DEF Event, Finalized
    <3> HIDE DEF e
    <3>2. /\ published' = Append(published, e) /\ published' \in Seq(Event)
          /\ queue' \in Seq(Event) /\ seen' \in Seq(Event)
      BY <1>3, <2>1, <2>2, <3>1, Channel DEF published, publish_nowait, e
    <3>3. finalized' /\ Listed' = Listed
      BY <1>3, <2>2 DEF finalized, Listed
    <3>4. Len(published) = count /\ \A n \in 1 .. count : InPlace(published[n], n)
      BY <1>1, <2>1 DEF ToldInv
    <3>5. /\ Len(published') = count + 1 /\ published'[count + 1] = e
          /\ \A n \in 1 .. count : published'[n] = published[n]
      BY <1>4, <3>1, <3>2, <3>4, Published
    <3>6. IsEnd(published'[count + 1], count + 1)
      BY <1>4, <3>1, <3>4, <3>5 DEF IsEnd
    <3>7. emitted' = 1 .. count /\ sequence' = count + 1
      BY <1>4, <2>1, <2>2, <3>4
    <3>8. ToldInv(published, count)'
      BY <3>2, <3>3, <3>4, <3>5, <3>6, <3>7 DEF ToldInv, InPlace, IsEnd
    <3>9. SourceTypes'
      BY <1>2, <1>3, <2>2, <3>2, <3>3 DEF SourceTypes
    <3>10. QED
      BY <3>8, <3>9 DEF AuditInv
  <2>3. CASE source' = [source EXCEPT !.pc = "idle"] /\ UNCHANGED <<queue, sequence>>
    BY <1>3, <1>6, <2>1, <2>3
  <2>4. QED
    BY <1>11, <2>2, <2>3 DEF EndPoll
<1>12. CASE SourceError
  <2>1. /\ source.pc \in {"final", "frames"} /\ UNCHANGED <<emitted, sequence, queue, seen>>
        /\ source' = [source EXCEPT !.pc = "idle", !.errors = source.errors + 1]
    BY <1>12 DEF SourceError
  <2>2. source' \in [pc : {"idle", "final", "frames"}, on : BOOLEAN,
                     listing : {source.listing}, final : BOOLEAN, errors : Nat]
    <3> DEFINE e == source.errors + 1
    <3>1. e \in Nat
      BY <1>3
    <3>2. source' = [source EXCEPT !.pc = "idle", !.errors = e]
      BY <2>1
    <3> HIDE DEF e
    <3>3. QED
      BY <1>3, <3>1, <3>2
  <2>3. QED
    BY <1>6, <2>1, <2>2 DEF finalized
<1>13. CASE stop
  <2>1. source' = [source EXCEPT !.on = FALSE] /\ UNCHANGED <<emitted, sequence, queue, seen>>
    BY <1>13 DEF stop
  <2>2. source' \in [pc : {"idle", "final", "frames", "finalized"}, on : BOOLEAN,
                     listing : {source'.listing}, final : BOOLEAN, errors : Nat]
        /\ source'.listing = source.listing /\ source'.pc = source.pc
    BY <1>3, <2>1
  <2>3. QED
    BY <1>2, <1>5, <2>1, <2>2 DEF finalized, Listed
<1>14. CASE Drain
  <2>1. queue # <<>> /\ seen' = Append(seen, Head(queue)) /\ queue' = Tail(queue)
        /\ UNCHANGED <<source, emitted, sequence>>
    BY <1>14 DEF Drain
  <2>2. published' = published /\ queue' \in Seq(Event) /\ seen' \in Seq(Event)
    BY <1>3, <2>1, Channel DEF published
  <2>3. ToldInv(published, count)'
    BY <1>1, <2>1, <2>2 DEF ToldInv, InPlace, IsEnd, finalized
  <2>4. SourceTypes'
    BY <1>2, <1>3, <2>1, <2>2 DEF SourceTypes, Listed
  <2>5. QED
    BY <2>3, <2>4 DEF AuditInv
<1>15. QED
  BY <1>7, <1>8, <1>9, <1>10, <1>11, <1>12, <1>13, <1>14
     DEF Next, RunnerStep, AuditStep, poll_once, vars

LEMMA AuditInvariant == Spec => [](RunnerInv /\ AuditInv)
<1>1. Init => RunnerInv /\ AuditInv
  <2> SUFFICES ASSUME Init PROVE RunnerInv /\ AuditInv
    OBVIOUS
  <2> USE RunnerBounds DEF Init
  <2>1. RunnerTypes
    BY DEF RunnerTypes, Tasks, Empty, FrameFiles, Contents, Points
  <2>2. disk.frames = [i \in Frames |-> [k \in Artifacts |-> "absent"]]
        /\ image_index = 1 /\ Len(actions) = 0
    BY DEF Empty, image_index
  <2>3. DiskInv
    BY <2>2 DEF DiskInv, Shown, Frames, Artifacts
  <2>4. Listed = 1 .. 0 /\ published = <<>> /\ ~finalized
    BY DEF Listed, published, finalized
  <2>5. ToldInv(published, 0)
    BY <2>4 DEF ToldInv
  <2>6. SourceTypes
    BY <2>4 DEF SourceTypes
  <2>7. QED
    BY <2>1, <2>3, <2>5, <2>6 DEF RunnerInv, AuditInv
<1>2. RunnerInv /\ AuditInv /\ [Next]_vars => (RunnerInv /\ AuditInv)'
  BY RunnerKeeps, AuditKeeps
<1>3. QED
  BY <1>1, <1>2, PTL DEF Spec

\* A consumer sees the events numbered without a gap, every frame once and in
\* ascending order with its true predecessor, and the end of the trace once and
\* last, for every number of tasks and steps and every capacity of the channel
\* (runner_source.py:375-420).
THEOREM EventsTheorem == Spec => []EventsInOrder
<1>1. AuditInv => EventsInOrder
  <2> SUFFICES ASSUME AuditInv PROVE EventsInOrder
    OBVIOUS
  <2>1. PICK count \in Nat : ToldInv(published, count)
    BY DEF AuditInv
  <2>2. /\ published \in Seq(Event)
        /\ \A n \in 1 .. count : InPlace(published[n], n)
        /\ \/ Len(published) = count
           \/ Len(published) = count + 1 /\ IsEnd(published[count + 1], count + 1)
    BY <2>1 DEF ToldInv
  <2>3. ASSUME NEW n \in 1 .. count
        PROVE  /\ published[n].index = n - 1 /\ IsFrame(published[n])
               /\ published[n].previous = IF n = 1 THEN 0 ELSE published[n - 1].frame
               /\ published[n].previous < published[n].frame
    <3>1. n # 1 => n - 1 \in 1 .. count
      OBVIOUS
    <3>2. InPlace(published[n], n) /\ (n # 1 => InPlace(published[n - 1], n - 1))
      BY <2>2, <3>1
    <3>3. QED
      BY <3>2 DEF InPlace, IsFrame
  <2>4. \A n \in DOMAIN published : n \in 1 .. count \/ (n = count + 1 /\ n = Len(published))
    BY <2>2
  <2>5. ASSUME NEW n \in DOMAIN published, n \notin 1 .. count
        PROVE  published[n].index = n - 1 /\ ~IsFrame(published[n]) /\ n = Len(published)
    <3>1. n = count + 1 /\ n = Len(published)
      BY <2>4, <2>5
    <3>2. IsEnd(published[n], n)
      BY <2>2, <3>1
    <3>3. QED
      BY <3>1, <3>2 DEF IsEnd, IsFrame
  <2>6. QED
    BY <2>3, <2>5 DEF EventsInOrder
<1>2. QED
  BY <1>1, AuditInvariant, PTL

-----------------------------------------------------------------------------
(* What an event tells of the files.                                       *)

\* The runner does not write frame i any more.
Past(i) ==
    \/ i < image_index
    \/ i = image_index /\ run.pc = "act"
    \/ run.pc \in {"actions", "react", "stop", "ended", "died"}

\* The files of a frame come in the order of AfterArtifact, the tree last.
WriteInv ==
    /\ disk.react = "good" => run.pc \in {"stop", "ended"}
    /\ run.pc = "json" => device # "Android"
    /\ run.pc = "xml" /\ device # "Android" => disk.frames[image_index]["json"] # "absent"
    /\ \A i \in Frames :
         /\ device = "Android" => disk.frames[i]["json"] = "absent"
         /\ disk.frames[i]["xml"] # "absent" /\ device # "Android" => disk.frames[i]["json"] # "absent"
         /\ ~Past(i) => \/ disk.frames[i]["xml"] = "absent"
                        \/ run.pc = "xml" /\ disk.frames[i]["xml"] = "torn"

\* What opening and closing a file change.
LEMMA ArtifactWritten ==
    ASSUME RunnerInv, OpenArtifact \/ CloseArtifact
    PROVE  /\ image_index \in Frames /\ image_index' = image_index /\ run.pc \in Artifacts
           /\ device' = device /\ run'.task = run.task /\ disk'.react = disk.react
           /\ \A i \in Frames : i # image_index => disk'.frames[i] = disk.frames[i]
           /\ \A k \in Artifacts : k # run.pc =>
                 (disk'.frames[image_index][k] = "absent" <=> disk.frames[image_index][k] = "absent")
           /\ disk'.frames[image_index][run.pc] # "absent"
           /\ run.pc # "xml" => disk'.frames[image_index]["xml"] = disk.frames[image_index]["xml"]
           /\ \/ run'.pc = run.pc /\ disk'.frames[image_index][run.pc] = "torn"
              \/ run'.pc = "act"
              \/ run'.pc = AfterArtifact(run.pc)
<1> USE RunnerBounds DEF RunnerInv
<1> DEFINE n == image_index
           k == run.pc
<1>1. n \in Frames /\ k \in Artifacts
  BY DEF OpenArtifact, CloseArtifact, DiskInv, Frames, image_index, RunnerTypes
<1>2. CASE OpenArtifact
  <2>1. /\ UNCHANGED <<device, actions, run>>
        /\ disk' = [disk EXCEPT !.frames[n][k] = "torn"]
    BY <1>2 DEF OpenArtifact
  <2>2. /\ disk'.frames = [disk.frames EXCEPT ![n] = [disk.frames[n] EXCEPT ![k] = "torn"]]
        /\ disk'.react = disk.react
    BY <2>1 DEF RunnerTypes
  <2>3. /\ \A i \in Frames : i # n => disk'.frames[i] = disk.frames[i]
        /\ disk'.frames[n] = [disk.frames[n] EXCEPT ![k] = "torn"]
    BY <1>1, <2>2 DEF RunnerTypes
  <2>4. disk'.frames[n][k] = "torn" /\ \A j \in Artifacts : j # k => disk'.frames[n][j] = disk.frames[n][j]
    BY <1>1, <2>3 DEF RunnerTypes, FrameFiles
  <2>5. image_index' = n
    BY <2>1 DEF image_index
  <2>6. "xml" \in Artifacts
    BY DEF Artifacts
  <2>7. QED
    BY <1>1, <2>1, <2>2, <2>3, <2>4, <2>5, <2>6
<1>3. CASE CloseArtifact
  <2>1. PICK content \in {"good", "bad"} :
          /\ content = "bad" => k # "jpg"
          /\ disk' = [disk EXCEPT !.frames[n] =
               [j \in Artifacts |-> IF j = k \/ (content = "bad" /\ @[j] # "absent" /\ j = "json")
                                    THEN content ELSE @[j]]]
          /\ run' = [run EXCEPT !.pc = IF content = "bad" THEN "act" ELSE AfterArtifact(run.pc)]
    BY <1>3 DEF CloseArtifact
  <2> DEFINE files == [j \in Artifacts |->
                 IF j = k \/ (content = "bad" /\ disk.frames[n][j] # "absent" /\ j = "json")
                 THEN content ELSE disk.frames[n][j]]
  <2>2. disk' = [disk EXCEPT !.frames = [disk.frames EXCEPT ![n] = files]]
    BY <1>1, <2>1 DEF RunnerTypes
  <2>3. /\ \A j \in Artifacts : j # k => (files[j] = "absent" <=> disk.frames[n][j] = "absent")
        /\ files[k] # "absent"
        /\ k # "xml" => files["xml"] = disk.frames[n]["xml"]
    BY <1>1 DEF Artifacts
  <2> HIDE DEF files
  <2>4. disk'.frames = [disk.frames EXCEPT ![n] = files] /\ disk'.react = disk.react
    BY <2>2 DEF RunnerTypes
  <2>5. /\ \A i \in Frames : i # n => disk'.frames[i] = disk.frames[i]
        /\ disk'.frames[n] = files
    BY <1>1, <2>4 DEF RunnerTypes
  <2>6. UNCHANGED <<device, actions>> /\ image_index' = n
    BY <1>3 DEF CloseArtifact, image_index
  <2>7. run'.task = run.task /\ run'.pc \in {"act", AfterArtifact(run.pc)}
    BY <2>1 DEF RunnerTypes
  <2>8. QED
    BY <1>1, <2>3, <2>4, <2>5, <2>6, <2>7
<1>4. QED
  BY <1>2, <1>3

\* Every other step leaves the frames, or begins the next task in an empty directory.
NextTask ==
    /\ run.pc = "stop" /\ run.task < MaxTasks
    /\ run'.task = run.task + 1 /\ run'.pc = "start" /\ actions' = <<>> /\ disk' = Empty
LoopMoves ==
    \/ UNCHANGED <<run, actions, disk>>
    \/ /\ UNCHANGED <<actions, disk>>
       /\ \/ run.pc = "start" /\ run'.pc = "look"
          \/ run.pc = "look" /\ run'.pc \in {"jpg", "actions"}
          \/ run.pc \in {"start", "look", "act"} /\ run'.pc = "died"
          \/ run.pc = "stop" /\ run'.pc = "ended"
    \/ /\ disk' = disk /\ run.pc = "act" /\ run'.pc \in {"look", "actions"}
       /\ image_index' = image_index + 1
    \/ /\ run.pc \in {"actions", "react"} /\ run'.pc \in {"actions", "react", "stop"}
       /\ actions' = actions
       /\ disk'.react = "good" => run'.pc = "stop" \/ disk.react = "good"

LEMMA RunnerMoves ==
    ASSUME RunnerInv, [Next]_vars, ~OpenArtifact, ~CloseArtifact
    PROVE  /\ device' = device
           /\ NextTask \/ (disk'.frames = disk.frames /\ run'.task = run.task /\ LoopMoves)
<1> USE RunnerBounds DEF RunnerInv
<1>1. ASSUME UNCHANGED <<device, run, actions, disk>>
      PROVE  /\ device' = device
             /\ disk'.frames = disk.frames /\ run'.task = run.task /\ LoopMoves
  BY <1>1 DEF LoopMoves
<1>2. CASE UNCHANGED runner
  BY <1>1, <1>2 DEF runner
<1>3. CASE app_start
  BY <1>3 DEF app_start, RunnerTypes, LoopMoves
<1>4. CASE Decide
  <2>1. \/ run' = [run EXCEPT !.pc = "actions"]
        \/ \E act \in ActionTypes : run' = [run EXCEPT !.pc = "jpg", !.act = act]
    BY <1>4 DEF Decide
  <2>2. run'.pc \in {"jpg", "actions"} /\ run'.task = run.task
    BY <2>1 DEF RunnerTypes
  <2>3. QED
    BY <1>4, <2>2 DEF Decide, LoopMoves
<1>5. ASSUME NEW point, Record(point), run.pc = "act", UNCHANGED <<device, disk>>,
             run' \in {[run EXCEPT !.pc = "look"], [run EXCEPT !.pc = "actions"]}
      PROVE  /\ device' = device
             /\ disk'.frames = disk.frames /\ run'.task = run.task /\ LoopMoves
  <2>1. run'.pc \in {"look", "actions"} /\ run'.task = run.task
    BY <1>5 DEF RunnerTypes
  <2>2. image_index' = image_index + 1
    BY <1>5 DEF Record, image_index, RunnerTypes
  <2>3. QED
    BY <1>5, <2>1, <2>2 DEF LoopMoves
<1>6. CASE handle_touch_action
  BY <1>5, <1>6 DEF handle_touch_action
<1>7. CASE handle_click_input_action
  BY <1>5, <1>7 DEF handle_click_input_action, TypeAt
<1>8. CASE handle_input_action
  BY <1>5, <1>8 DEF handle_input_action, TypeAt
<1>9. CASE handle_other_action
  BY <1>5, <1>9 DEF handle_other_action
<1>10. CASE Die
  BY <1>10 DEF Die, RunnerTypes, LoopMoves
<1>11. CASE WriteFinalFiles
  <2>1. /\ run.pc \in {"actions", "react"} /\ UNCHANGED <<device, actions>>
        /\ run'.pc \in {"actions", "react", "stop"} /\ run'.task = run.task
        /\ disk'.frames = disk.frames
    BY <1>11 DEF WriteFinalFiles, RunnerTypes
  <2>2. CASE run.pc = "actions"
    <3>1. disk'.react = disk.react
      BY <1>11, <2>2 DEF WriteFinalFiles, RunnerTypes
    <3>2. QED
      BY <2>1, <3>1 DEF LoopMoves
  <2>3. CASE run.pc = "react"
    <3>1. disk'.react = "torn" \/ run'.pc = "stop"
      BY <1>11, <2>3 DEF WriteFinalFiles, RunnerTypes
    <3>2. QED
      BY <2>1, <3>1 DEF LoopMoves
  <2>4. QED
    BY <2>1, <2>2, <2>3
<1>12. CASE app_stop
  <2>1. CASE run.task < MaxTasks
    BY <1>12, <2>1 DEF app_stop, NextTask
  <2>2. CASE ~(run.task < MaxTasks)
    BY <1>12, <2>2 DEF app_stop, RunnerTypes, LoopMoves
  <2>3. QED
    BY <2>1, <2>2
<1>13. QED
  BY <1>2, <1>3, <1>4, <1>6, <1>7, <1>8, <1>9, <1>10, <1>11, <1>12
     DEF Next, RunnerStep, AuditStep, vars, runner

LEMMA WriteKeeps ==
    ASSUME RunnerInv, WriteInv, [Next]_vars
    PROVE  WriteInv'
<1>1. image_index \in Nat
  BY DEF RunnerInv, RunnerTypes, image_index
<1>2. CASE OpenArtifact \/ CloseArtifact
  <2> DEFINE n == image_index
  <2>0. /\ n \in Frames /\ n' = n /\ run.pc \in Artifacts
        /\ device' = device /\ disk'.react = disk.react
        /\ \A i \in Frames : i # n => disk'.frames[i] = disk.frames[i]
        /\ \A k \in Artifacts : k # run.pc =>
              (disk'.frames[n][k] = "absent" <=> disk.frames[n][k] = "absent")
        /\ disk'.frames[n][run.pc] # "absent"
        /\ run.pc # "xml" => disk'.frames[n]["xml"] = disk.frames[n]["xml"]
        /\ \/ run'.pc = run.pc /\ disk'.frames[n][run.pc] = "torn"
           \/ run'.pc = "act"
           \/ run'.pc = AfterArtifact(run.pc)
    BY <1>2, ArtifactWritten
  <2> HIDE DEF n
  <2>1. disk'.react # "good"
    BY <2>0 DEF WriteInv, Artifacts
  <2>2. run'.pc = "json" => device # "Android"
    BY <2>0 DEF WriteInv, Artifacts, AfterArtifact
  <2>3. device # "Android" /\ run'.pc = "xml" => disk'.frames[n]["json"] # "absent"
    BY <2>0 DEF WriteInv, Artifacts, AfterArtifact, n
  <2>4. device = "Android" => run.pc # "json"
    BY DEF WriteInv
  <2>5. ASSUME NEW i \in Frames
        PROVE  /\ device = "Android" => disk'.frames[i]["json"] = "absent"
               /\ disk'.frames[i]["xml"] # "absent" /\ device # "Android"
                    => disk'.frames[i]["json"] # "absent"
               /\ ~Past(i)' => \/ disk'.frames[i]["xml"] = "absent"
                               \/ run'.pc = "xml" /\ disk'.frames[i]["xml"] = "torn"
    <3>1. CASE i = n
      <4>1. device = "Android" => disk'.frames[i]["json"] = "absent"
        BY <2>0, <2>4, <3>1 DEF WriteInv, Artifacts
      <4>2. disk'.frames[i]["xml"] # "absent" /\ device # "Android"
              => disk'.frames[i]["json"] # "absent"
        BY <2>0, <3>1 DEF WriteInv, Artifacts, n
      <4>3. ~Past(i)' => \/ disk'.frames[i]["xml"] = "absent"
                         \/ run'.pc = "xml" /\ disk'.frames[i]["xml"] = "torn"
        <5>1. CASE run.pc = "xml"
          BY <2>0, <3>1, <5>1 DEF Past, AfterArtifact, n
        <5>2. CASE run.pc # "xml"
          <6>1. ~Past(i)
            BY <1>1, <2>0, <3>1, <5>2 DEF Past, Artifacts, n
          <6>2. QED
            BY <2>0, <3>1, <5>2, <6>1 DEF WriteInv
        <5>3. QED
          BY <5>1, <5>2
      <4>4. QED
        BY <4>1, <4>2, <4>3
    <3>2. CASE i # n
      <4>1. disk'.frames[i] = disk.frames[i]
        BY <2>0, <3>2
      <4>2. ~Past(i) => disk.frames[i]["xml"] = "absent"
        <5>1. CASE i > n
          BY <5>1 DEF RunnerInv, DiskInv, Shown, Artifacts, n
        <5>2. CASE i < n
          BY <5>2 DEF Past, n
        <5>3. QED
          BY <1>1, <3>2, <5>1, <5>2 DEF Frames, n
      <4>3. Past(i) => Past(i)'
        BY <2>0, <3>2 DEF Past, Artifacts, n
      <4>4. QED
        BY <4>1, <4>2, <4>3 DEF WriteInv
    <3>3. QED
      BY <3>1, <3>2
  <2>6. QED
    BY <2>0, <2>1, <2>2, <2>3, <2>5 DEF WriteInv, n
<1>3. CASE ~OpenArtifact /\ ~CloseArtifact
  <2>1. CASE NextTask
    <3>1. /\ disk'.react = "absent" /\ run'.pc = "start"
          /\ \A i \in Frames, k \in Artifacts : disk'.frames[i][k] = "absent"
      BY <2>1 DEF NextTask, Empty
    <3>2. QED
      BY <3>1 DEF WriteInv, Artifacts
  <2>2. CASE disk'.frames = disk.frames /\ run'.task = run.task /\ LoopMoves
    <3>1. device' = device
      BY <1>3, RunnerMoves
    <3>2. disk'.react = "good" => run'.pc \in {"stop", "ended"}
      BY <2>2 DEF LoopMoves, WriteInv
    <3>3. run'.pc \in {"json", "xml"} => UNCHANGED <<run, actions, disk>>
      BY <2>2 DEF LoopMoves
    <3>4. ASSUME NEW i \in Frames, ~Past(i)'
          PROVE  disk.frames[i]["xml"] = "absent" \/ (run'.pc = "xml" /\ disk.frames[i]["xml"] = "torn")
      <4>1. CASE Past(i)
        <5>1. Past(i)'
          BY <1>1, <2>2, <4>1 DEF LoopMoves, Past, image_index, Frames
        <5>2. QED
          BY <3>4, <5>1
      <4>2. CASE ~Past(i) /\ run.pc = "xml"
        BY <2>2, <4>2 DEF LoopMoves, WriteInv
      <4>3. CASE ~Past(i) /\ run.pc # "xml"
        BY <4>3 DEF WriteInv
      <4>4. QED
        BY <4>1, <4>2, <4>3
    <3>5. run'.pc \in {"json", "xml"} => run.pc = run'.pc /\ image_index' = image_index
      BY <3>3 DEF image_index
    <3>6. QED
      BY <2>2, <3>1, <3>2, <3>4, <3>5 DEF WriteInv
  <2>3. QED
    BY <1>3, <2>1, <2>2, RunnerMoves
<1>4. QED
  BY <1>2, <1>3

\* The files of a frame of the last task come and stay; those of a past one stand.
On(i) == {k \in Artifacts : disk.frames[i][k] # "absent"}

LEMMA FrameStays ==
    ASSUME RunnerInv, [Next]_vars, run.task = MaxTasks, NEW i \in Frames
    PROVE  /\ run'.task = MaxTasks /\ device' = device
           /\ On(i) \subseteq On(i)'
           /\ Past(i) => Past(i)' /\ disk'.frames[i] = disk.frames[i]
<1>1. image_index \in Nat
  BY DEF RunnerInv, RunnerTypes, image_index
<1>2. CASE OpenArtifact \/ CloseArtifact
  <2> DEFINE n == image_index
  <2>0. /\ n \in Frames /\ n' = n /\ run.pc \in Artifacts
        /\ device' = device /\ run'.task = run.task
        /\ i # n => disk'.frames[i] = disk.frames[i]
        /\ \A k \in Artifacts : k # run.pc =>
              (disk'.frames[n][k] = "absent" <=> disk.frames[n][k] = "absent")
        /\ disk'.frames[n][run.pc] # "absent"
    BY <1>2, ArtifactWritten
  <2>1. Past(i) => i < n
    BY <2>0 DEF Past, Artifacts, n
  <2>2. i < n => Past(i)'
    BY <2>0 DEF Past, n
  <2>3. On(i) \subseteq On(i)'
    BY <2>0 DEF On
  <2>4. QED
    BY <1>1, <2>0, <2>1, <2>2, <2>3 DEF Frames
<1>3. CASE ~OpenArtifact /\ ~CloseArtifact
  <2>1. device' = device /\ disk'.frames = disk.frames /\ run'.task = run.task /\ LoopMoves
    BY <1>3, RunnerMoves DEF NextTask, RunnerInv, RunnerTypes, Tasks
  <2>2. Past(i) => Past(i)'
    BY <1>1, <2>1 DEF LoopMoves, Past, image_index, Frames
  <2>3. QED
    BY <2>1, <2>2 DEF On
<1>4. QED
  BY <1>2, <1>3

\* What the source may rely on of a listing while the runner goes on writing.
ListInv ==
    /\ run.task # MaxTasks => Listed = {}
    /\ source.final => run.task = MaxTasks /\ run.pc \in {"stop", "ended"}
    /\ \A i \in Listed :
         /\ source.listing[i] \subseteq On(i)
         /\ "xml" \in source.listing[i] /\ device # "Android" => "json" \in source.listing[i]
    /\ \A i, j \in Listed : i < j => Past(i) /\ source.listing[i] = On(i)

LEMMA ListedAreFrames ==
    ASSUME AuditInv
    PROVE  Listed \subseteq Frames
BY RunnerBounds DEF AuditInv, SourceTypes, Frames

\* The directory as it is listed.
LEMMA ListingTells ==
    ASSUME RunnerInv, AuditInv, WriteInv, ListInv, artifact_map, UNCHANGED runner
    PROVE  ListInv'
<1> DEFINE present(i) == {k \in Artifacts : Watched.frames[i][k] # "absent"}
           there == {j \in Frames : present(j) # {}}
           listing == [i \in there |-> present(i)]
<1>1. source' = [source EXCEPT !.pc = "final", !.listing = listing]
  BY DEF artifact_map
<1>2. source'.listing = listing /\ source'.final = source.final
  <2> HIDE DEF listing
  <2> QED BY <1>1 DEF AuditInv, SourceTypes
<1>3. Listed' = there /\ \A i \in there : source'.listing[i] = present(i)
  <2>1. DOMAIN listing = there /\ \A i \in there : listing[i] = present(i)
    OBVIOUS
  <2> HIDE DEF listing, there, present
  <2> QED BY <1>2, <2>1 DEF Listed
<1>4. /\ UNCHANGED <<device, run, actions, disk>> /\ image_index' = image_index
      /\ \A i : On(i)' = On(i) /\ (Past(i)' <=> Past(i))
  BY DEF runner, image_index, On, Past
<1>5. CASE run.task # MaxTasks
  <2>1. there = {}
    BY <1>5 DEF Watched, Empty
  <2> HIDE DEF there
  <2>2. QED
    BY <1>2, <1>3, <1>4, <1>5, <2>1 DEF ListInv
<1>6. CASE run.task = MaxTasks
  <2>1. \A i \in Frames : present(i) = On(i)
    BY <1>6 DEF Watched, On
  <2>2. \A i \in there : i \in Frames /\ Shown(i)
    BY <1>6 DEF Watched, Shown
  <2> HIDE DEF there, present
  <2>3. \A i \in there : source'.listing[i] = On(i)
    BY <1>3, <2>1, <2>2
  <2>4. \A i \in there : "xml" \in On(i) /\ device # "Android" => "json" \in On(i)
    BY <2>2 DEF WriteInv, On, Artifacts
  <2>5. \A i, j \in there : i < j => Past(i)
    <3>1. image_index \in Nat
      BY DEF RunnerInv, RunnerTypes, image_index
    <3>2. \A j \in there : j <= image_index
      BY <2>2, <3>1 DEF RunnerInv, DiskInv, Frames
    <3>3. \A i, j \in there : i < j => i < image_index
      BY <2>2, <3>1, <3>2 DEF Frames
    <3>4. QED
      BY <3>3 DEF Past
  <2>6. QED
    BY <1>2, <1>3, <1>4, <1>6, <2>3, <2>4, <2>5 DEF ListInv
<1>7. QED
  BY <1>5, <1>6

LEMMA ListKeeps ==
    ASSUME RunnerInv, AuditInv, WriteInv, ListInv, [Next]_vars
    PROVE  ListInv'
<1> USE RunnerBounds
<1>1. Listed \subseteq Frames
  BY ListedAreFrames
<1>2. ASSUME source'.listing = source.listing, UNCHANGED runner,
             source'.final => source.final \/ (Watched.react = "good")
      PROVE  ListInv'
  <2>1. /\ UNCHANGED <<device, run, actions, disk>> /\ image_index' = image_index
        /\ Listed' = Listed /\ \A i : On(i)' = On(i) /\ (Past(i)' <=> Past(i))
    BY <1>2 DEF runner, image_index, On, Past, Listed
  <2>2. Watched.react = "good" => run.task = MaxTasks /\ run.pc \in {"stop", "ended"}
    BY DEF Watched, Empty, WriteInv
  <2>3. QED
    BY <1>2, <2>1, <2>2 DEF ListInv
<1>3. CASE UNCHANGED audit
  <2>1. source' = source /\ Listed' = Listed
    BY <1>3 DEF audit, Listed
  <2>2. CASE run.task # MaxTasks
    <3>1. Listed = {} /\ ~source.final
      BY <2>2 DEF ListInv
    <3>2. QED
      BY <2>1, <3>1 DEF ListInv
  <2>3. CASE run.task = MaxTasks
    <3>1. \A i \in Frames : /\ run'.task = MaxTasks /\ device' = device
                            /\ On(i) \subseteq On(i)'
                            /\ Past(i) => Past(i)' /\ disk'.frames[i] = disk.frames[i]
      BY <2>3, FrameStays
    <3>2. \A i \in Frames : Past(i) => On(i)' = On(i)
      BY <3>1 DEF On
    <3>3. 1 \in Frames
      BY DEF Frames
    <3>4. run.pc \in {"stop", "ended"} => run'.pc \in {"stop", "ended"}
      <4>1. CASE OpenArtifact \/ CloseArtifact
        BY <4>1 DEF OpenArtifact, CloseArtifact, Artifacts
      <4>2. CASE ~OpenArtifact /\ ~CloseArtifact
        <5>1. NextTask \/ LoopMoves
          BY <4>2, RunnerMoves
        <5>2. ~NextTask
          BY <2>3 DEF NextTask, RunnerInv, RunnerTypes, Tasks
        <5>3. QED
          BY <5>1, <5>2 DEF LoopMoves
      <4>3. QED
        BY <4>1, <4>2
    <3>5. run'.task = MaxTasks /\ device' = device
      BY <3>1, <3>3
    <3>6. /\ source'.final => run'.task = MaxTasks /\ run'.pc \in {"stop", "ended"}
          /\ \A i \in Listed' :
               /\ source'.listing[i] \subseteq On(i)'
               /\ "xml" \in source'.listing[i] /\ device' # "Android" => "json" \in source'.listing[i]
      BY <1>1, <2>1, <3>1, <3>4, <3>5 DEF ListInv
    <3>7. ASSUME NEW i \in Listed', NEW j \in Listed', i < j
          PROVE  Past(i)' /\ source'.listing[i] = On(i)'
      <4>1. i \in Listed /\ j \in Listed /\ i \in Frames
        BY <1>1, <2>1
      <4>2. Past(i) /\ source.listing[i] = On(i)
        BY <3>7, <4>1 DEF ListInv
      <4>3. QED
        BY <2>1, <3>1, <3>2, <4>1, <4>2
    <3>8. QED
      BY <3>5, <3>6, <3>7 DEF ListInv
  <2>4. QED
    BY <2>2, <2>3
<1>4. CASE artifact_map /\ UNCHANGED runner
  BY <1>4, ListingTells
<1>5. CASE final_bundle_if_ready /\ UNCHANGED runner
  <2> DEFINE b == Watched.actions = "good" /\ Watched.react = "good"
  <2>1. source' = [source EXCEPT !.pc = "frames", !.final = b]
    BY <1>5 DEF final_bundle_if_ready
  <2> HIDE DEF b
  <2>2. source'.listing = source.listing /\ source'.final = b
    BY <2>1 DEF AuditInv, SourceTypes
  <2>3. QED
    BY <1>2, <1>5, <2>2 DEF b
<1>6. ASSUME EmitFrame \/ EndPoll \/ SourceError \/ stop \/ Drain
      PROVE  source'.listing = source.listing /\ source'.final = source.final
  BY <1>6 DEF EmitFrame, EndPoll, SourceError, stop, Drain, AuditInv, SourceTypes
<1>7. QED
  BY <1>2, <1>3, <1>4, <1>5, <1>6 DEF Next, RunnerStep, AuditStep, poll_once, vars

-----------------------------------------------------------------------------
(* What an event tells stays true.                                         *)

\* The frame is not written any more, and the event tells what there is of it.
SettledEvent(e) ==
    IsFrame(e) =>
        /\ run.task = MaxTasks /\ e.frame \in Frames /\ Past(e.frame)
        /\ \A k \in Artifacts : \/ e.got[k] = disk.frames[e.frame][k]
                                \/ e.got[k] = "absent" /\ e.final

EventsSettled == \A n \in DOMAIN published : SettledEvent(published[n])

LEMMA EventStaysSettled ==
    ASSUME RunnerInv, [Next]_vars, NEW e, SettledEvent(e)
    PROVE  SettledEvent(e)'
<1>1. CASE ~IsFrame(e)
  BY <1>1 DEF SettledEvent, IsFrame
<1>2. CASE IsFrame(e)
  <2>1. run.task = MaxTasks /\ e.frame \in Frames /\ Past(e.frame)
    BY <1>2 DEF SettledEvent
  <2>2. run'.task = MaxTasks /\ Past(e.frame)' /\ disk'.frames[e.frame] = disk.frames[e.frame]
    BY <2>1, FrameStays
  <2>3. QED
    BY <1>2, <2>1, <2>2 DEF SettledEvent, IsFrame
<1>3. QED
  BY <1>1, <1>2

\* A frame that is ready is told as it will stay.
LEMMA ReadyIsSettled ==
    ASSUME RunnerInv, AuditInv, WriteInv, ListInv, NEW i \in Listed, Ready(i)
    PROVE  /\ run.task = MaxTasks /\ i \in Frames /\ Past(i)
           /\ \A k \in Artifacts : \/ Read(i)[k] = disk.frames[i][k]
                                   \/ Read(i)[k] = "absent" /\ source.final
<1> USE RunnerBounds
<1>1. run.task = MaxTasks /\ i \in Frames /\ Watched = disk
  BY ListedAreFrames DEF ListInv, Watched
<1>2. \A k \in Artifacts :
        Read(i)[k] = IF k \in source.listing[i] THEN disk.frames[i][k] ELSE "absent"
  BY <1>1 DEF Read
<1>3. CASE source.final
  <2>1. Past(i)
    BY <1>3 DEF ListInv, Past
  <2>2. QED
    BY <1>1, <1>2, <1>3, <2>1
<1>4. CASE i < Max(Listed)
  <2>1. Max(Listed) \in Listed
    <3>1. PICK m \in 0 .. MaxSteps : Listed = 1 .. m
      BY DEF AuditInv, SourceTypes
    <3>2. m \in Nat /\ Listed \in SUBSET (1 .. m) /\ Listed # {}
      BY <3>1
    <3>3. QED
      BY <3>2, MaxIsLast
  <2>2. Past(i) /\ source.listing[i] = On(i)
    BY <1>4, <2>1 DEF ListInv
  <2>3. QED
    BY <1>1, <1>2, <2>2 DEF On
<1>5. CASE frame_ready_without_finalization(i)
  <2>1. Read(i)["jpg"] = "good" /\ Read(i)["xml"] = "good"
    BY <1>5 DEF frame_ready_without_finalization
  <2>2. /\ "xml" \in source.listing[i] /\ disk.frames[i]["xml"] = "good"
        /\ Read(i)["jpg"] = disk.frames[i]["jpg"] /\ Read(i)["xml"] = disk.frames[i]["xml"]
    BY <1>2, <2>1 DEF Artifacts
  <2>3. Past(i)
    BY <1>1, <2>2 DEF WriteInv
  <2>4. Read(i)["json"] = disk.frames[i]["json"]
    <3>1. CASE device = "Android"
      BY <1>1, <1>2, <3>1 DEF WriteInv, Artifacts
    <3>2. CASE device # "Android"
      BY <1>2, <2>2, <3>2 DEF ListInv, Artifacts
    <3>3. QED
      BY <3>1, <3>2
  <2>5. QED
    BY <1>1, <2>2, <2>3, <2>4 DEF Artifacts
<1>6. QED
  BY <1>3, <1>4, <1>5 DEF Ready

LEMMA SettledKeeps ==
    ASSUME RunnerInv, AuditInv, WriteInv, ListInv, EventsSettled, [Next]_vars
    PROVE  EventsSettled'
<1> USE RunnerBounds
<1>1. published \in Seq(Event) /\ queue \in Seq(Event) /\ seen \in Seq(Event)
  BY DEF AuditInv, SourceTypes, ToldInv
<1>0. ASSUME NEW n \in DOMAIN published, published'[n] = published[n]
      PROVE  SettledEvent(published[n])'
  <2>1. PICK e : e = published[n]
    OBVIOUS
  <2>2. SettledEvent(e)
    BY <2>1 DEF EventsSettled
  <2>3. SettledEvent(e)'
    BY <2>2, EventStaysSettled
  <2>4. QED
    BY <1>0, <2>1, <2>3 DEF SettledEvent, IsFrame
<1>2. ASSUME published' = published
      PROVE  EventsSettled'
  BY <1>0, <1>2 DEF EventsSettled
<1>3. ASSUME NEW e \in Event, SettledEvent(e)', queue' = Append(queue, e), seen' = seen
      PROVE  EventsSettled'
  <2>1. published' = Append(published, e)
    BY <1>1, <1>3, Channel DEF published
  <2>2. /\ DOMAIN published = 1 .. Len(published) /\ Len(published) \in Nat
        /\ DOMAIN Append(published, e) = 1 .. Len(published) + 1
    BY <1>1
  <2>3. /\ Append(published, e)[Len(published) + 1] = e
        /\ \A n \in 1 .. Len(published) : Append(published, e)[n] = published[n]
    BY <1>1, Published
  <2>4. ASSUME NEW n \in DOMAIN published'
        PROVE  SettledEvent(published[n])'
    <3>1. CASE n \in DOMAIN published
      BY <1>0, <2>1, <2>2, <2>3, <3>1
    <3>2. CASE n \notin DOMAIN published
      <4>1. published'[n] = e
        BY <2>1, <2>2, <2>3, <2>4, <3>2
      <4>2. QED
        BY <1>3, <4>1 DEF SettledEvent, IsFrame
    <3>3. QED
      BY <3>1, <3>2
  <2>5. QED
    BY <2>4 DEF EventsSettled
<1>4. CASE EmitFrame /\ UNCHANGED runner
  <2> DEFINE i == Min(Pending)
             e == FrameContext(i)
  <2>1. /\ Pending # {} /\ Ready(i) /\ seen' = seen
        /\ queue' = Append(queue, e) \/ queue' = queue
    BY <1>4 DEF EmitFrame, publish_nowait
  <2>2. CASE queue' = queue
    BY <1>2, <2>1, <2>2 DEF published
  <2>3. CASE queue' = Append(queue, e)
    <3>1. PICK m \in 0 .. MaxSteps : Listed = 1 .. m
      BY DEF AuditInv, SourceTypes
    <3>2. PICK count \in Nat : ToldInv(published, count)
      BY DEF AuditInv
    <3>3. i \in Listed
      <4>1. emitted = 1 .. count
        BY <3>2 DEF ToldInv
      <4>2. i = count + 1 /\ count + 1 <= m
        BY <2>1, <3>1, <4>1, NextToTell
      <4>3. QED
        BY <3>1, <4>2
    <3>4. /\ run.task = MaxTasks /\ i \in Frames /\ Past(i)
          /\ \A k \in Artifacts : \/ Read(i)[k] = disk.frames[i][k]
                                  \/ Read(i)[k] = "absent" /\ source.final
      BY <2>1, <3>3, ReadyIsSettled
    <3>5. e.frame = i /\ e.got = Read(i) /\ e.final = source.final
      BY DEF FrameContext
    <3>6. e \in Event
      <4>1. Read(i) \in FrameFiles
        <5>1. \A k \in Artifacts : Watched.frames[i][k] \in Contents
          BY <3>4 DEF Watched, RunnerInv, RunnerTypes, FrameFiles
        <5>2. QED
          BY <5>1 DEF Read, FrameFiles, Contents
      <4>2. sequence \in Nat /\ source.final \in BOOLEAN /\ i \in Nat
        BY <1>1, <3>2, <3>4 DEF ToldInv, AuditInv, SourceTypes, Frames
      <4>3. (IF emitted = {} THEN 0 ELSE Max(emitted)) \in Nat
        BY <3>2, LastTold DEF ToldInv
      <4> HIDE DEF i
      <4>4. QED
        BY <4>1, <4>2, <4>3 DEF Event, FrameContext
    <3> HIDE DEF i, e
    <3>7. PICK f : f = e
      OBVIOUS
    <3>8. SettledEvent(f)
      BY <3>4, <3>5, <3>7 DEF SettledEvent
    <3>9. SettledEvent(f)'
      BY <3>8, EventStaysSettled
    <3>10. QED
      BY <1>3, <2>1, <2>3, <3>6, <3>7, <3>9
  <2>4. QED
    BY <2>1, <2>2, <2>3
<1>5. CASE EndPoll
  <2>1. seen' = seen /\ (queue' = queue \/ queue' = Append(queue, Finalized))
    BY <1>5 DEF EndPoll, publish_nowait
  <2>2. PICK e : e = Finalized
    OBVIOUS
  <2>3. e \in Event /\ SettledEvent(e)'
    <3>1. Empty.frames[1] \in FrameFiles /\ sequence \in Nat
      BY <1>1 DEF Empty, FrameFiles, Contents, Frames, AuditInv, ToldInv
    <3>2. e.frame = 0
      BY <2>2 DEF Finalized
    <3>3. QED
      BY <2>2, <3>1, <3>2 DEF Event, Finalized, SettledEvent, IsFrame
  <2>4. QED
    BY <1>2, <1>3, <2>1, <2>2, <2>3 DEF published
<1>6. CASE Drain
  <2>1. queue # <<>> /\ seen' = Append(seen, Head(queue)) /\ queue' = Tail(queue)
    BY <1>6 DEF Drain
  <2>2. published' = published
    BY <1>1, <2>1, Channel DEF published
  <2>3. QED
    BY <1>2, <2>2
<1>7. CASE UNCHANGED <<queue, seen>>
  BY <1>2, <1>7 DEF published
<1>8. QED
  BY <1>4, <1>5, <1>6, <1>7 DEF Next, RunnerStep, AuditStep, poll_once, vars, audit,
     artifact_map, final_bundle_if_ready, SourceError, stop

\* What an event tells of a frame is what the frame keeps, for every number of
\* tasks and steps and every interleaving of the runner's writing with the poll;
\* only an event of a finished run may leave out a file (runner_source.py:300-420).
THEOREM SettledTheorem == Spec => []ContextsAreSettled
<1>1. Init => WriteInv /\ ListInv /\ EventsSettled
  <2> SUFFICES ASSUME Init PROVE WriteInv /\ ListInv /\ EventsSettled
    OBVIOUS
  <2>1. run.pc = "start" /\ disk = Empty /\ disk.react = "absent"
        /\ \A i \in Frames, k \in Artifacts : disk.frames[i][k] = "absent"
    BY DEF Init, Empty
  <2>2. WriteInv
    BY <2>1 DEF WriteInv, Artifacts
  <2>3. Listed = {} /\ ~source.final /\ published = <<>>
    BY DEF Init, Listed, published
  <2>4. ListInv /\ EventsSettled
    BY <2>3 DEF ListInv, EventsSettled
  <2>5. QED
    BY <2>2, <2>4
<1>2. /\ RunnerInv /\ AuditInv
      /\ WriteInv /\ ListInv /\ EventsSettled /\ [Next]_vars
      => WriteInv' /\ ListInv' /\ EventsSettled'
  BY WriteKeeps, ListKeeps, SettledKeeps
<1>3. EventsSettled => ContextsAreSettled
  <2> SUFFICES ASSUME EventsSettled, NEW n \in DOMAIN published, IsFrame(published[n]),
                      NEW k \in Artifacts
               PROVE  \/ published[n].got[k] = Watched.frames[published[n].frame][k]
                      \/ published[n].got[k] = "absent" /\ published[n].final
    BY DEF ContextsAreSettled
  <2>1. SettledEvent(published[n])
    BY DEF EventsSettled
  <2>2. QED
    BY <2>1 DEF SettledEvent, Watched
<1>4. QED
  BY <1>1, <1>2, <1>3, AuditInvariant, PTL DEF Spec

-----------------------------------------------------------------------------
(* Where text is typed.                                                    *)

\* A new record is the one that counts if it touches something; else the
\* remembered point stays.
LEMMA PreviousAfter ==
    ASSUME NEW list \in Seq(ActionRecord), NEW r \in ActionRecord
    PROVE  previous_click_input_point(Append(list, r))
           = IF r.type = "touch" THEN NoPoint
             ELSE IF r.type = "click_input" THEN r.point
             ELSE previous_click_input_point(list)
<1> DEFINE after == Append(list, r)
           touching(l) == {i \in DOMAIN l : l[i].type \in {"touch", "click_input"}}
           n == Len(list) + 1
<1>1. \A l : previous_click_input_point(l)
               = IF touching(l) = {} \/ l[Max(touching(l))].type = "touch"
                 THEN NoPoint ELSE l[Max(touching(l))].point
  BY DEF previous_click_input_point
<1>2. /\ n \in Nat \ {0} /\ DOMAIN after = 1..n /\ DOMAIN list = 1..n - 1
      /\ after[n] = r /\ \A i \in 1..n - 1 : after[i] = list[i]
  OBVIOUS
<1> HIDE DEF after, n
<1>3. CASE r.type \in {"touch", "click_input"}
  <2>1. n \in touching(after) /\ touching(after) \in SUBSET (1..n)
    <3>1. n \in DOMAIN after /\ after[n].type \in {"touch", "click_input"}
      BY <1>2, <1>3
    <3>2. n \in touching(after)
      BY <3>1
    <3>3. touching(after) \subseteq DOMAIN after
      OBVIOUS
    <3>4. QED
      BY <1>2, <3>2, <3>3
  <2>2. Max(touching(after)) = n
    <3> HIDE DEF touching
    <3>1. Max(touching(after)) \in touching(after) /\ n <= Max(touching(after))
      BY <1>2, <2>1, MaxIsLast
    <3>2. QED
      BY <1>2, <2>1, <3>1
  <2>3. QED
    BY <1>1, <1>2, <1>3, <2>1, <2>2 DEF after
<1>4. CASE r.type \notin {"touch", "click_input"}
  <2>1. touching(after) = touching(list)
    <3>1. \A i : i \in touching(after) <=> i \in touching(list)
      BY <1>2, <1>4
    <3>2. QED
      BY <3>1
  <2>2. touching(list) \in SUBSET (1..n - 1) /\ n - 1 \in Nat
    <3>1. touching(list) \subseteq DOMAIN list
      OBVIOUS
    <3>2. n - 1 \in Nat
      BY DEF n
    <3>3. QED
      BY <1>2, <3>1, <3>2
  <2>3. touching(list) # {} => after[Max(touching(list))] = list[Max(touching(list))]
    <3> HIDE DEF touching
    <3>1. touching(list) # {} => Max(touching(list)) \in 1..n - 1
      BY <2>2, MaxIsLast
    <3>2. QED
      BY <1>2, <3>1
  <2> HIDE DEF touching
  <2>4. QED
    BY <1>1, <1>4, <2>1, <2>3 DEF after
<1>5. QED
  BY <1>3, <1>4

\* What is remembered of the focus is what was touched for typing.
FocusInv ==
    /\ focus = aimed
    /\ previous_click_input_point(actions) \in {NoPoint, aimed}
    /\ InputIsAimed

LEMMA NothingRecorded == previous_click_input_point(<<>>) = NoPoint
  BY DEF previous_click_input_point

LEMMA FocusKeeps ==
    ASSUME RunnerInv, FocusInv, [Next]_vars
    PROVE  FocusInv'
<1>1. ASSUME UNCHANGED <<actions, focus, aimed>>, typed' = typed \/ typed' = NotTyped
      PROVE  FocusInv'
  <2>1. previous_click_input_point(actions)' = previous_click_input_point(actions)
    BY <1>1 DEF previous_click_input_point
  <2>2. QED
    BY <1>1, <2>1 DEF FocusInv, InputIsAimed, NotTyped
<1>2. actions \in Seq(ActionRecord) /\ run.act \in ActionTypes \cup {"none"}
      /\ run.task \in Nat /\ image_index \in Nat
  BY RunnerBounds DEF RunnerInv, RunnerTypes, Tasks, image_index
<1>3. ASSUME NEW point \in Points, Record(point), run.act \in ActionTypes
      PROVE  previous_click_input_point(actions)'
             = IF run.act = "touch" THEN NoPoint
               ELSE IF run.act = "click_input" THEN point
               ELSE previous_click_input_point(actions)
  <2> DEFINE r == [type |-> run.act, point |-> point]
  <2>1. r \in ActionRecord /\ r.type = run.act /\ r.point = point
    BY <1>3 DEF ActionRecord
  <2>2. actions' = Append(actions, r)
    BY <1>3 DEF Record
  <2> HIDE DEF r
  <2>3. QED
    <3>1. previous_click_input_point(Append(actions, r))
          = IF r.type = "touch" THEN NoPoint
            ELSE IF r.type = "click_input" THEN r.point
            ELSE previous_click_input_point(actions)
      BY <1>2, <2>1, PreviousAfter
    <3>2. previous_click_input_point(actions)' = previous_click_input_point(Append(actions, r))
      BY <2>2 DEF previous_click_input_point
    <3>3. QED
      BY <2>1, <3>1, <3>2
<1>4. NoPoint \in Points /\ <<run.task, image_index>> \in Points
  BY <1>2 DEF Points
<1>5. CASE handle_touch_action
  <2>1. /\ Record(NoPoint) /\ run.act = "touch" /\ run.act \in ActionTypes
        /\ focus' = NoPoint /\ aimed' = NoPoint /\ typed' = typed
    BY <1>5 DEF handle_touch_action, ActionTypes
  <2>2. QED
    BY <1>3, <1>4, <2>1 DEF FocusInv, InputIsAimed
<1>6. CASE handle_click_input_action
  <2> DEFINE point == <<run.task, image_index>>
  <2>1. /\ Record(point) /\ run.act = "click_input" /\ run.act \in ActionTypes
        /\ focus' = point /\ aimed' = point
        /\ typed' = [at |-> point, aimed |-> point, known |-> point]
    BY <1>6 DEF handle_click_input_action, TypeAt, ActionTypes
  <2>2. point \in Points
    BY <1>4
  <2> HIDE DEF point
  <2>3. QED
    BY <1>3, <2>1, <2>2 DEF FocusInv, InputIsAimed
<1>7. CASE handle_input_action
  <2> DEFINE point == FocusPoint
  <2>1. /\ Record(point) /\ run.act = "input" /\ run.act \in ActionTypes
        /\ focus' = point /\ aimed' = aimed
        /\ typed' = [at |-> point, aimed |-> aimed, known |-> known]
    BY <1>7 DEF handle_input_action, TypeAt, ActionTypes
  <2>2. point = aimed
    BY DEF FocusPoint, FocusInv
  <2>3. point \in Points
    BY PreviousPoint DEF FocusPoint, RunnerInv, RunnerTypes
  <2> HIDE DEF point
  <2>4. QED
    BY <1>3, <2>1, <2>2, <2>3 DEF FocusInv, InputIsAimed
<1>8. CASE handle_other_action
  <2>1. /\ Record(NoPoint) /\ run.act \in {"wait", "end"} /\ run.act \in ActionTypes
        /\ focus' = focus /\ aimed' = aimed /\ typed' = typed
    BY <1>8 DEF handle_other_action, ActionTypes
  <2>2. QED
    BY <1>3, <1>4, <2>1 DEF FocusInv, InputIsAimed
<1>9. CASE app_stop
  <2>1. UNCHANGED <<focus, aimed, typed>> /\ (actions' = <<>> \/ actions' = actions)
    BY <1>9 DEF app_stop
  <2>2. CASE actions' = actions
    BY <1>1, <2>1, <2>2
  <2>3. CASE actions' = <<>>
    <3>1. previous_click_input_point(actions)' = previous_click_input_point(<<>>)
      BY <2>3 DEF previous_click_input_point
    <3>2. QED
      BY <2>1, <3>1, NothingRecorded DEF FocusInv, InputIsAimed
  <2>4. QED
    BY <2>1, <2>2, <2>3
<1>10. CASE UNCHANGED runner
  BY <1>1, <1>10 DEF runner
<1>11. CASE app_start \/ Decide \/ OpenArtifact \/ CloseArtifact \/ Die \/ WriteFinalFiles
  BY <1>1, <1>11 DEF app_start, Decide, OpenArtifact, CloseArtifact, Die, WriteFinalFiles
<1>12. QED
  BY <1>5, <1>6, <1>7, <1>8, <1>9, <1>10, <1>11 DEF Next, RunnerStep, AuditStep, vars

\* Text goes to the target of the last click_input that no later touch of the
\* same process has invalidated, for every sequence of actions and tasks
\* (mobiagent.py:1821-1862, 1995-2054).
THEOREM AimTheorem == Spec => []InputIsAimed
<1>1. Init => FocusInv
  BY NothingRecorded DEF Init, FocusInv, InputIsAimed, NotTyped
<1>2. RunnerInv /\ FocusInv /\ [Next]_vars => FocusInv'
  BY FocusKeeps
<1>3. FocusInv => InputIsAimed
  BY DEF FocusInv
<1>4. QED
  BY <1>1, <1>2, <1>3, AuditInvariant, PTL DEF Spec

-----------------------------------------------------------------------------
(* What FlattenSeq and SetToSeq return.                                    *)

\* The flattened prefixes of s, up to the m-th.
Flattens(T, s, g, m) ==
    /\ g \in [1..m -> Seq(T)]
    /\ \A i \in 1..m : g[i] = IF i = 1 THEN s[i] ELSE g[i - 1] \o s[i]

\* There are such prefixes, for every prefix of s.
LEMMA FlattensExists ==
    ASSUME NEW T, NEW s \in Seq(Seq(T)), NEW n \in 1..Len(s)
    PROVE  \E g : Flattens(T, s, g, n)
<1> DEFINE Bad == {m \in 1..Len(s) : ~\E g : Flattens(T, s, g, m)}
<1>1. Bad = {}
  <2> SUFFICES ASSUME Bad # {} PROVE FALSE
    OBVIOUS
  <2>1. PICK m \in Bad : \A j \in Bad : m <= j
    <3>1. Bad \in SUBSET Nat
      OBVIOUS
    <3> HIDE DEF Bad
    <3> QED BY <3>1, LeastNumber
  <2>2. m # 1
    <3>1. s[1] \in Seq(T)
      BY <2>1
    <3>2. Flattens(T, s, [i \in 1..1 |-> s[1]], 1)
      BY <3>1 DEF Flattens
    <3> QED BY <2>1, <3>2
  <2>3. m \in Nat /\ m - 1 \in 1..Len(s) /\ m \in 1..Len(s) /\ m - 1 \notin Bad
    <3>1. m \in 1..Len(s)
      BY <2>1
    <3> HIDE DEF Bad
    <3>2. m \in Nat /\ m - 1 \in 1..Len(s) /\ ~(m <= m - 1)
      BY <2>2, <3>1
    <3>3. QED
      BY <2>1, <3>1, <3>2
  <2>4. PICK g : Flattens(T, s, g, m - 1)
    BY <2>3
  <2> DEFINE last == g[m - 1] \o s[m]
             h == [i \in 1..m |-> IF i = m THEN last ELSE g[i]]
  <2>5. last \in Seq(T)
    <3>1. g[m - 1] \in Seq(T) /\ s[m] \in Seq(T)
      BY <2>3, <2>4 DEF Flattens
    <3>2. QED
      BY <3>1
  <2>6. h \in [1..m -> Seq(T)]
    <3> HIDE DEF last
    <3> QED BY <2>3, <2>4, <2>5 DEF Flattens
  <2>7. h[m] = last /\ \A i \in 1..m - 1 : h[i] = g[i]
    <3> HIDE DEF last
    <3> QED BY <2>3, <2>4 DEF Flattens
  <2>8. \A i \in 1..m : h[i] = IF i = 1 THEN s[i] ELSE h[i - 1] \o s[i]
    <3> SUFFICES ASSUME NEW i \in 1..m
                 PROVE  h[i] = IF i = 1 THEN s[i] ELSE h[i - 1] \o s[i]
      OBVIOUS
    <3> HIDE DEF h
    <3>1. CASE i = m
      <4>1. h[m - 1] = g[m - 1] /\ i # 1
        BY <2>2, <2>3, <2>7, <3>1
      <4>2. QED
        BY <2>7, <3>1, <4>1
    <3>2. CASE i # m
      <4>1. i \in 1..m - 1 /\ h[i] = g[i]
        BY <2>3, <2>7, <3>2
      <4>2. i # 1 => h[i - 1] = g[i - 1]
        BY <2>3, <2>7, <4>1
      <4>3. g[i] = IF i = 1 THEN s[i] ELSE g[i - 1] \o s[i]
        BY <2>4, <4>1 DEF Flattens
      <4>4. QED
        BY <4>1, <4>2, <4>3
    <3>3. QED
      BY <3>1, <3>2
  <2>9. Flattens(T, s, h, m)
    <3> HIDE DEF h
    <3> QED BY <2>6, <2>8 DEF Flattens
  <2>10. QED
    BY <2>1, <2>9
<1>2. QED
  BY <1>1

\* The recursive function of FlattenSeq is such a function.
LEMMA FlattenSeqFlattens ==
    ASSUME NEW T, NEW s \in Seq(Seq(T)), Len(s) # 0
    PROVE  \E g : Flattens(T, s, g, Len(s)) /\ FlattenSeq(s) = g[Len(s)]
<1> DEFINE Def(f) == f = [i \in 1..Len(s) |-> IF i = 1 THEN s[i] ELSE f[i - 1] \o s[i]]
           up == CHOOSE f : Def(f)
<1>0. Len(s) \in 1..Len(s)
  OBVIOUS
<1>1. PICK g : Flattens(T, s, g, Len(s))
  BY <1>0, FlattensExists
<1>2. Def(g)
  BY <1>1 DEF Flattens
<1>3. Def(up)
  <2> HIDE DEF Def
  <2> QED BY <1>2
<1>4. \A i \in 1..Len(s) : up[i] = g[i]
  <2> DEFINE Bad == {m \in 1..Len(s) : up[m] # g[m]}
  <2> SUFFICES ASSUME Bad # {} PROVE FALSE
    OBVIOUS
  <2> HIDE DEF up
  <2>1. PICK m \in Bad : \A j \in Bad : m <= j
    <3>1. Bad \in SUBSET Nat
      OBVIOUS
    <3> HIDE DEF Bad
    <3> QED BY <3>1, LeastNumber
  <2>2. /\ m \in 1..Len(s) /\ up[m] # g[m]
        /\ up[m] = IF m = 1 THEN s[m] ELSE up[m - 1] \o s[m]
        /\ g[m] = IF m = 1 THEN s[m] ELSE g[m - 1] \o s[m]
    BY <1>2, <1>3, <2>1
  <2>3. m - 1 \in 1..Len(s) /\ ~(m <= m - 1)
    BY <2>2
  <2>4. up[m - 1] = g[m - 1]
    <3>1. m - 1 \notin Bad
      <4> HIDE DEF Bad
      <4> QED BY <2>1, <2>3
    <3>2. QED
      BY <2>3, <3>1
  <2>5. QED
    BY <2>2, <2>4
<1>5. FlattenSeq(s) = up[Len(s)]
  BY DEF FlattenSeq
<1>6. QED
  <2> HIDE DEF up
  <2> QED BY <1>0, <1>1, <1>4, <1>5

\* The elements of a concatenation.
LEMMA ToSetOfConcat ==
    ASSUME NEW T, NEW a \in Seq(T), NEW b \in Seq(T)
    PROVE  ToSet(a \o b) = ToSet(a) \cup ToSet(b)
<1>1. \A i \in DOMAIN (a \o b) : (a \o b)[i] \in ToSet(a) \cup ToSet(b)
  BY DEF ToSet
<1>2. \A i \in DOMAIN a : i \in DOMAIN (a \o b) /\ (a \o b)[i] = a[i]
  OBVIOUS
<1>3. \A i \in DOMAIN b : Len(a) + i \in DOMAIN (a \o b) /\ (a \o b)[Len(a) + i] = b[i]
  OBVIOUS
<1>4. QED
  BY <1>1, <1>2, <1>3 DEF ToSet

\* Flattening keeps the elements, and adds none.
LEMMA FlattenKeeps ==
    ASSUME NEW T, NEW s \in Seq(Seq(T))
    PROVE  /\ FlattenSeq(s) \in Seq(T)
           /\ \A x : x \in ToSet(FlattenSeq(s)) <=> \E i \in DOMAIN s : x \in ToSet(s[i])
<1>1. CASE Len(s) = 0
  <2>1. s = <<>> /\ FlattenSeq(s) = s /\ DOMAIN s = {}
    BY <1>1 DEF FlattenSeq
  <2>2. ToSet(s) = {} /\ s \in Seq(T)
    BY <2>1 DEF ToSet
  <2>3. QED
    BY <2>1, <2>2
<1>2. CASE Len(s) # 0
  <2>1. PICK g : Flattens(T, s, g, Len(s)) /\ FlattenSeq(s) = g[Len(s)]
    BY <1>2, FlattenSeqFlattens
  <2> DEFINE Kept(m) == \A x : x \in ToSet(g[m]) <=> \E i \in 1..m : x \in ToSet(s[i])
             Bad == {m \in 1..Len(s) : ~Kept(m)}
  <2>2. Bad = {}
    <3> SUFFICES ASSUME Bad # {} PROVE FALSE
      OBVIOUS
    <3>1. PICK m \in Bad : \A j \in Bad : m <= j
      <4>1. Bad \in SUBSET Nat
        OBVIOUS
      <4> HIDE DEF Bad
      <4> QED BY <4>1, LeastNumber
    <3>2. m \in 1..Len(s) /\ ~Kept(m)
      BY <3>1
    <3>3. CASE m = 1
      <4>1. g[m] = s[1]
        BY <2>1, <3>2, <3>3 DEF Flattens
      <4>2. \A i \in 1..m : i = 1
        BY <3>3
      <4>3. QED
        BY <3>2, <3>3, <4>1, <4>2
    <3>4. CASE m # 1
      <4>1. m - 1 \in 1..Len(s) /\ ~(m <= m - 1)
        BY <3>2, <3>4
      <4>2. Kept(m - 1)
        <5>1. m - 1 \notin Bad
          <6> HIDE DEF Bad
          <6> QED BY <3>1, <4>1
        <5>2. QED
          BY <4>1, <5>1
      <4>3. g[m] = g[m - 1] \o s[m] /\ g[m - 1] \in Seq(T) /\ s[m] \in Seq(T)
        <5>1. g[m] = g[m - 1] \o s[m] /\ g[m - 1] \in Seq(T)
          BY <2>1, <3>2, <3>4, <4>1 DEF Flattens
        <5>2. s[m] \in Seq(T)
          BY <3>2
        <5>3. QED
          BY <5>1, <5>2
      <4>4. ToSet(g[m]) = ToSet(g[m - 1]) \cup ToSet(s[m])
        BY <4>3, ToSetOfConcat
      <4>5. \A i : i \in 1..m <=> i \in 1..m - 1 \/ i = m
        BY <3>2
      <4>6. Kept(m)
        BY <4>2, <4>4, <4>5
      <4>7. QED
        BY <3>2, <4>6
    <3>5. QED
      BY <3>3, <3>4
  <2>3. Len(s) \in 1..Len(s) /\ DOMAIN s = 1..Len(s)
    BY <1>2
  <2>4. Kept(Len(s)) /\ g[Len(s)] \in Seq(T)
    BY <2>1, <2>2, <2>3 DEF Flattens
  <2>5. QED
    BY <2>1, <2>3, <2>4
<1>3. QED
  BY <1>1, <1>2

\* A finite set is listed whole, each element once, and nothing else.
LEMMA SetToSeqLists ==
    ASSUME NEW S, IsFiniteSet(S)
    PROVE  SetToSeq(S) \in Seq(S) /\ ToSet(SetToSeq(S)) = S /\ IsInjective(SetToSeq(S))
<1> DEFINE n == Cardinality(S)
           list == SetToSeq(S)
<1>1. n \in Nat /\ \E f : f \in Bijection(1..n, S)
  BY FS_CardinalityType DEF ExistsBijection
<1>2. list \in [1..n -> S] /\ IsInjective(list)
  <2>1. \E f \in [1..n -> S] : IsInjective(f)
    BY <1>1 DEF Bijection, Injection
  <2>2. QED
    BY <2>1 DEF SetToSeq
<1> HIDE DEF list
<1>3. list \in Injection(1..n, S)
  BY <1>2 DEF Injection
<1>4. Cardinality(1..n) = n
  BY <1>1, FS_Interval
<1>5. list \in Surjection(1..n, S)
  BY <1>3, <1>4, FS_Injection
<1>6. list \in Seq(S)
  BY <1>1, <1>2
<1>7. ToSet(list) = S
  BY <1>2, <1>5 DEF Surjection, ToSet
<1>8. QED
  BY <1>2, <1>6, <1>7 DEF list

-----------------------------------------------------------------------------
(* A trace directory as events.                                            *)

FrameEvents(frames) == {FrameEvidenceEvent(i) : i \in frames}
ActionEvents(acts) == {ActionEvidenceEvent(i) : i \in acts}

\* Its frames, its actions, and one termination; a grace window covers every frame.
LEMMA ToldTells ==
    ASSUME NEW n \in Nat, NEW frames \in SUBSET (1..n), NEW acts \in SUBSET (1..n),
           NEW done \in 0..n
    PROVE  LET told == trace_bundle_to_event_trace(frames, acts, done) IN
           \E grace \in 0..n :
               /\ ToSet(told) = FrameEvents(frames) \cup ActionEvents(acts)
                                    \cup {TerminationEvent(done, grace)}
               /\ told \in Seq(ToSet(told))
               /\ grace # Unset => \A i \in frames : i <= grace
<1> DEFINE last == Max(frames \cup {Unset})
           top == Max(frames \cup acts \cup {Unset})
           grace == IF done # Unset /\ last > done THEN last ELSE Unset
           end == TerminationEvent(done, grace)
           E == FrameEvents(frames) \cup ActionEvents(acts) \cup {end}
           Part(i) == (IF i \in frames THEN <<FrameEvidenceEvent(i)>> ELSE <<>>)
                          \o (IF i \in acts THEN <<ActionEvidenceEvent(i)>> ELSE <<>>)
           parts == [i \in 1..top |-> Part(i)]
           told == trace_bundle_to_event_trace(frames, acts, done)
<1>1. told = Append(FlattenSeq(parts), end)
  BY DEF trace_bundle_to_event_trace
<1>2. last \in 0..n /\ \A i \in frames : i <= last
  <2> DEFINE F == frames \cup {Unset}
  <2>1. F \in SUBSET (0..n) /\ F # {} /\ frames \subseteq F
    BY DEF Unset
  <2> HIDE DEF F
  <2>2. Max(F) \in F /\ \A i \in F : i <= Max(F)
    BY <2>1, MaxIsGreatest
  <2>3. QED
    BY <2>1, <2>2 DEF F
<1>3. top \in 0..n /\ \A i \in frames \cup acts : i <= top
  <2> DEFINE F == frames \cup acts \cup {Unset}
  <2>1. F \in SUBSET (0..n) /\ F # {} /\ frames \cup acts \subseteq F
    <3>1. frames \subseteq 0..n /\ acts \subseteq 0..n /\ Unset \in 0..n
      BY DEF Unset
    <3>2. QED
      BY <3>1
  <2> HIDE DEF F
  <2>2. Max(F) \in F /\ \A i \in F : i <= Max(F)
    BY <2>1, MaxIsGreatest
  <2>3. QED
    BY <2>1, <2>2 DEF F
<1>4. grace \in 0..n /\ (grace # Unset => \A i \in frames : i <= grace)
  BY <1>2 DEF Unset
<1> HIDE DEF last, top, grace
<1>5. \A i : Part(i) \in Seq(E) /\ ToSet(Part(i))
                = {e \in {FrameEvidenceEvent(i)} : i \in frames}
                      \cup {e \in {ActionEvidenceEvent(i)} : i \in acts}
  <2> SUFFICES ASSUME NEW i
               PROVE  Part(i) \in Seq(E) /\ ToSet(Part(i))
                = {e \in {FrameEvidenceEvent(i)} : i \in frames}
                      \cup {e \in {ActionEvidenceEvent(i)} : i \in acts}
    OBVIOUS
  <2> DEFINE f == IF i \in frames THEN <<FrameEvidenceEvent(i)>> ELSE <<>>
             a == IF i \in acts THEN <<ActionEvidenceEvent(i)>> ELSE <<>>
  <2>1. /\ i \in frames => FrameEvidenceEvent(i) \in E
        /\ i \in acts => ActionEvidenceEvent(i) \in E
    BY DEF FrameEvents, ActionEvents
  <2> HIDE DEF E
  <2>2. f \in Seq(E) /\ ToSet(f) = {e \in {FrameEvidenceEvent(i)} : i \in frames}
    <3>1. CASE i \in frames
      <4>1. f = <<FrameEvidenceEvent(i)>>
        BY <3>1
      <4>2. QED
        BY <2>1, <3>1, <4>1, ToSetOfFew
    <3>2. CASE i \notin frames
      <4>1. f = <<>>
        BY <3>2
      <4>2. QED
        BY <3>2, <4>1, ToSetOfFew
    <3>3. QED
      BY <3>1, <3>2
  <2>3. a \in Seq(E) /\ ToSet(a) = {e \in {ActionEvidenceEvent(i)} : i \in acts}
    <3>1. CASE i \in acts
      <4>1. a = <<ActionEvidenceEvent(i)>>
        BY <3>1
      <4>2. QED
        BY <2>1, <3>1, <4>1, ToSetOfFew
    <3>2. CASE i \notin acts
      <4>1. a = <<>>
        BY <3>2
      <4>2. QED
        BY <3>2, <4>1, ToSetOfFew
    <3>3. QED
      BY <3>1, <3>2
  <2>4. Part(i) = f \o a
    OBVIOUS
  <2> HIDE DEF f, a, Part
  <2>5. f \o a \in Seq(E) /\ ToSet(f \o a) = ToSet(f) \cup ToSet(a)
    BY <2>2, <2>3, ToSetOfConcat
  <2>6. QED
    BY <2>2, <2>3, <2>4, <2>5
<1> HIDE DEF Part, E
<1>6. parts \in Seq(Seq(E)) /\ DOMAIN parts = 1..top /\ \A i \in 1..top : parts[i] = Part(i)
  BY <1>3, <1>5
<1> HIDE DEF parts
<1>7. /\ FlattenSeq(parts) \in Seq(E)
      /\ \A x : x \in ToSet(FlattenSeq(parts)) <=> \E i \in 1..top : x \in ToSet(Part(i))
  BY <1>6, FlattenKeeps
<1>8. ToSet(FlattenSeq(parts)) = FrameEvents(frames) \cup ActionEvents(acts)
  <2>1. \A i \in frames \cup acts : i \in 1..top
    BY <1>3
  <2>2. QED
    BY <1>5, <1>7, <2>1 DEF FrameEvents, ActionEvents
<1>9. end \in E
  BY DEF E
<1> HIDE DEF end, told
<1>10. told \in Seq(E) /\ ToSet(told) = ToSet(FlattenSeq(parts)) \cup {end}
  BY <1>1, <1>7, <1>9, ToSetOfAppend
<1>11. E = FrameEvents(frames) \cup ActionEvents(acts) \cup {end}
  BY DEF E
<1>12. ToSet(told) = E
  BY <1>8, <1>10, <1>11
<1>13. QED
  BY <1>4, <1>10, <1>11, <1>12 DEF end, told

-----------------------------------------------------------------------------
(* Observations attached.                                                  *)

\* The image of a finite set of observations.
LEMMA SeenIsFinite ==
    ASSUME NEW observations, IsFiniteSet(observations), NEW i
    PROVE  IsFiniteSet({CriterionObservationEvent(o) : o \in {p \in observations : p.frame = i}})
<1> DEFINE P == {p \in observations : p.frame = i}
           T == {CriterionObservationEvent(o) : o \in P}
           f == [o \in P |-> CriterionObservationEvent(o)]
<1>1. IsFiniteSet(P)
  BY FS_Subset
<1> HIDE DEF P
<1>2. f \in Surjection(P, T)
  BY DEF Surjection
<1> HIDE DEF f, T
<1>3. IsFiniteSet(T)
  BY <1>1, <1>2, FS_Surjection
<1>4. QED
  BY <1>3 DEF T, P

\* The events stay, and every observation of a frame of theirs joins them.
LEMMA AttachedObservations ==
    ASSUME NEW E, NEW events \in Seq(E), NEW observations, IsFiniteSet(observations)
    PROVE  LET attached == attach_criterion_observations(events, observations)
               joined == {CriterionObservationEvent(o) : o \in
                              {p \in observations : p.frame \in FramesOf(events)}}
           IN /\ ToSet(attached) = ToSet(events) \cup joined
              /\ attached \in Seq(ToSet(events) \cup joined)
<1> DEFINE Seen(i) == {CriterionObservationEvent(o) : o \in {p \in observations : p.frame = i}}
           Part(e) == IF e.kind = "FRAME_EVIDENCE" THEN <<e>> \o SetToSeq(Seen(e.at)) ELSE <<e>>
           joined == {CriterionObservationEvent(o) : o \in
                          {p \in observations : p.frame \in FramesOf(events)}}
           J == ToSet(events) \cup joined
           parts == [n \in DOMAIN events |-> Part(events[n])]
           attached == attach_criterion_observations(events, observations)
<1>1. attached = FlattenSeq(parts)
  BY DEF attach_criterion_observations
<1>2. \A e \in ToSet(events) : e.kind = "FRAME_EVIDENCE" => Seen(e.at) \subseteq joined
  BY DEF FramesOf
<1>3. \A x : x \in joined <=> \E e \in ToSet(events) : e.kind = "FRAME_EVIDENCE" /\ x \in Seen(e.at)
  BY DEF FramesOf
<1>4. ASSUME NEW e \in ToSet(events)
      PROVE  Part(e) \in Seq(J) /\ ToSet(Part(e)) = {e} \cup {x \in Seen(e.at) : e.kind = "FRAME_EVIDENCE"}
  <2>1. CASE e.kind = "FRAME_EVIDENCE"
    <3> DEFINE list == SetToSeq(Seen(e.at))
    <3>1. IsFiniteSet(Seen(e.at))
      BY SeenIsFinite
    <3>2. Part(e) = <<e>> \o list
      BY <2>1
    <3>3. Seen(e.at) \subseteq J /\ e \in J
      BY <1>2, <2>1
    <3> HIDE DEF Seen, joined, Part, J
    <3>4. list \in Seq(Seen(e.at)) /\ ToSet(list) = Seen(e.at)
      BY <3>1, SetToSeqLists
    <3> HIDE DEF list
    <3>5. list \in Seq(J) /\ <<e>> \in Seq(J)
      <4>1. \A A, B : A \subseteq B => Seq(A) \subseteq Seq(B)
        OBVIOUS
      <4>2. QED
        BY <3>3, <3>4, <4>1
    <3>6. <<e>> \o list \in Seq(J) /\ ToSet(<<e>> \o list) = ToSet(<<e>>) \cup ToSet(list)
      <4> DEFINE one == <<e>>
      <4>1. one \in Seq(J) /\ list \in Seq(J)
        BY <3>5
      <4> HIDE DEF one
      <4>2. one \o list \in Seq(J) /\ ToSet(one \o list) = ToSet(one) \cup ToSet(list)
        BY <4>1, ToSetOfConcat
      <4>3. QED
        BY <4>2 DEF one
    <3>7. QED
      BY <2>1, <3>2, <3>4, <3>6, ToSetOfFew
  <2>2. CASE e.kind # "FRAME_EVIDENCE"
    <3>1. Part(e) = <<e>> /\ e \in J
      BY <2>2
    <3> HIDE DEF Seen, joined, Part, J
    <3>2. QED
      BY <2>2, <3>1, ToSetOfFew
  <2>3. QED
    BY <2>1, <2>2
<1>5. /\ \A n \in DOMAIN events : events[n] \in ToSet(events)
      /\ \A e \in ToSet(events) : \E n \in DOMAIN events : events[n] = e
  BY DEF ToSet
<1>6. DOMAIN events = 1..Len(events) /\ Len(events) \in Nat
  OBVIOUS
<1> HIDE DEF Seen, joined, Part, J
<1>7. parts \in Seq(Seq(J)) /\ DOMAIN parts = DOMAIN events
      /\ \A n \in DOMAIN events : parts[n] = Part(events[n])
  BY <1>4, <1>5, <1>6
<1> HIDE DEF parts
<1>8. /\ FlattenSeq(parts) \in Seq(J)
      /\ \A x : x \in ToSet(FlattenSeq(parts)) <=> \E n \in DOMAIN parts : x \in ToSet(parts[n])
  BY <1>7, FlattenKeeps
<1>9. \A x : x \in ToSet(FlattenSeq(parts)) <=> \E e \in ToSet(events) : x \in ToSet(Part(e))
  BY <1>5, <1>7, <1>8
<1>10. ToSet(FlattenSeq(parts)) = J
  BY <1>3, <1>4, <1>9 DEF J
<1> HIDE DEF attached
<1>11. QED
  BY <1>1, <1>8, <1>10 DEF J, joined, attached

-----------------------------------------------------------------------------
(* What was seen of one criterion.                                         *)

\* Only observations of the criterion up to the end of the window, and those all.
LEMMA OrderedObservations ==
    ASSUME NEW events, NEW k, NEW end \in Nat
    PROVE  LET obs == _ordered_observations(events, k, end)
               mine == {e \in ObservedIn(events) : e.of = k}
           IN /\ obs \in Seq({e.seen : e \in mine})
              /\ \A e \in mine :
                    e.at \in 1..end /\ (\A f \in mine : f.at = e.at => f = e)
                        => e.seen \in ToSet(obs)
<1> DEFINE At(i) == {e \in ObservedIn(events) : e.of = k /\ e.at = i}
           one(i) == IF At(i) = {} THEN <<>> ELSE <<(CHOOSE e \in At(i) : TRUE).seen>>
           parts == [i \in 1..end |-> one(i)]
           mine == {e \in ObservedIn(events) : e.of = k}
           views == {e.seen : e \in mine}
<1>1. _ordered_observations(events, k, end) = FlattenSeq(parts)
  BY DEF _ordered_observations
<1>2. \A i : one(i) \in Seq(views)
  <2> SUFFICES ASSUME NEW i PROVE one(i) \in Seq(views)
    OBVIOUS
  <2>1. CASE At(i) = {}
    <3>1. one(i) = <<>>
      BY <2>1
    <3>2. QED
      BY <3>1
  <2>2. CASE At(i) # {}
    <3> DEFINE e == CHOOSE x \in At(i) : TRUE
    <3>1. e \in At(i)
      BY <2>2
    <3>2. e.seen \in views
      BY <3>1
    <3>3. one(i) = <<e.seen>>
      BY <2>2
    <3> HIDE DEF e, one, views
    <3>4. QED
      BY <3>2, <3>3
  <2>3. QED
    BY <2>1, <2>2
<1>3. ASSUME NEW e \in mine, \A f \in mine : f.at = e.at => f = e
      PROVE  e.seen \in ToSet(one(e.at))
  <2>1. At(e.at) = {e}
    BY <1>3
  <2>2. one(e.at) = <<e.seen>>
    BY <2>1
  <2> HIDE DEF one
  <2>3. QED
    BY <2>2, ToSetOfFew
<1> HIDE DEF one, views
<1>4. parts \in Seq(Seq(views)) /\ DOMAIN parts = 1..end /\ \A i \in 1..end : parts[i] = one(i)
  BY <1>2
<1> HIDE DEF parts
<1>5. /\ FlattenSeq(parts) \in Seq(views)
      /\ \A x : x \in ToSet(FlattenSeq(parts)) <=> \E i \in DOMAIN parts : x \in ToSet(parts[i])
  BY <1>4, FlattenKeeps
<1> HIDE DEF mine
<1>6. \A e \in mine : e.at \in 1..end /\ (\A f \in mine : f.at = e.at => f = e)
          => e.seen \in ToSet(FlattenSeq(parts))
  BY <1>3, <1>4, <1>5
<1>7. QED
  BY <1>1, <1>5, <1>6 DEF mine, views

\* A status that looks at one observation says what it says, unless it says nothing; and
\* an obligation seen violated is violated.
LEMMA OneObservation ==
    ASSUME NEW s, NEW obs \in Seq({s}), NEW semantics \in {"PERSISTENT_STATE", "PROCESS_OBLIGATION"}
    PROVE  LET status == AggregateCriterion(semantics, obs) IN
           /\ status \in {"SATISFIED", "VIOLATED"} => s.status = status
           /\ semantics = "PROCESS_OBLIGATION" /\ s \in ToSet(obs) /\ Violation(s)
                  => status = "VIOLATED"
<1>1. \A i \in DOMAIN obs : obs[i] = s
  OBVIOUS
<1>2. UnknownStatus(obs) \notin {"SATISFIED", "VIOLATED"}
  BY DEF UnknownStatus
<1>3. Where(obs, Success) = {i \in DOMAIN obs : Success(obs[i])}
  BY DEF Where
<1>4. Where(obs, Violation) = {i \in DOMAIN obs : Violation(obs[i])}
  BY DEF Where
<1>5. CASE semantics = "PROCESS_OBLIGATION"
  <2>1. AggregateCriterion(semantics, obs) = AggregateProcess(obs)
    BY <1>5 DEF AggregateCriterion
  <2>2. CASE Where(obs, Violation) # {}
    <3>1. AggregateProcess(obs) = "VIOLATED"
      BY <2>2 DEF AggregateProcess
    <3>2. s.status = "VIOLATED"
      BY <1>1, <1>4, <2>2 DEF Violation
    <3>3. QED
      BY <2>1, <3>1, <3>2
  <2>3. CASE Where(obs, Violation) = {}
    <3>1. ~(s \in ToSet(obs) /\ Violation(s))
      BY <1>1, <1>4, <2>3 DEF ToSet
    <3>2. AggregateProcess(obs) \in {"SATISFIED", "VIOLATED"} =>
              AggregateProcess(obs) = "SATISFIED" /\ s.status = "SATISFIED"
      BY <1>1, <1>2, <2>3 DEF AggregateProcess
    <3>3. QED
      BY <2>1, <3>1, <3>2
  <2>4. QED
    BY <2>2, <2>3
<1>6. CASE semantics = "PERSISTENT_STATE"
  <2> DEFINE looks == {i \in Where(obs, Success) \cup Where(obs, Violation) :
                           obs[i].state # "OBSCURED_BUT_PERSISTENT"}
  <2>1. AggregateCriterion(semantics, obs)
        = IF looks = {} THEN UnknownStatus(obs) ELSE obs[LastOf(looks)].status
    BY <1>6 DEF AggregateCriterion, AggregatePersistent
  <2>2. looks \in SUBSET (0..Len(obs)) /\ looks \subseteq DOMAIN obs /\ Len(obs) \in Nat
    BY <1>3, <1>4
  <2> HIDE DEF looks
  <2>3. looks # {} => obs[LastOf(looks)] = s
    BY <1>1, <2>2, MaxIsGreatest
  <2>4. QED
    BY <1>2, <1>6, <2>1, <2>3
<1>7. QED
  BY <1>5, <1>6

\* The events of a trace with one termination.
OnlyEvents(J, done, grace) ==
    \A x \in J : \/ x = TerminationEvent(done, grace)
                 \/ \E i : x = FrameEvidenceEvent(i)
                 \/ \E i : x = ActionEvidenceEvent(i)
                 \/ \E o : x = CriterionObservationEvent(o)

\* The termination told when the run ended on time or not changes nothing else.
LEMMA Terminated ==
    ASSUME NEW J, NEW attached \in Seq(J), NEW done, NEW grace, NEW onTime \in BOOLEAN,
           ToSet(attached) = J,
           OnlyEvents(J, done, grace),
           Valid(_termination(attached, onTime))
    PROVE  LET events == _termination(attached, onTime) IN
           /\ ObservedIn(events) = {x \in J : x.kind = "CRITERION_OBSERVATION"}
           /\ FramesOf(events) = {x.at : x \in {y \in J : y.kind = "FRAME_EVIDENCE"}}
           /\ Last(events).done = done /\ Last(events).grace = grace
           /\ Last(events).quality = IF onTime THEN "ON_TIME" ELSE "PREMATURE_DONE"
<1> DEFINE events == _termination(attached, onTime)
           q == IF onTime THEN "ON_TIME" ELSE "PREMATURE_DONE"
           n == Len(attached)
           closing == [attached[n] EXCEPT !.quality = q]
           end == TerminationEvent(done, grace)
<1>1. events = [attached EXCEPT ![n] = closing]
  BY DEF _termination
<1> HIDE DEF q
<1>2. \A x \in J : [x EXCEPT !.quality = q].kind = x.kind
  <2> SUFFICES ASSUME NEW x \in J PROVE [x EXCEPT !.quality = q].kind = x.kind
    OBVIOUS
  <2>1. CASE x = end
    BY <2>1 DEF TerminationEvent
  <2>2. CASE \E i : x = FrameEvidenceEvent(i)
    BY <2>2 DEF FrameEvidenceEvent
  <2>3. CASE \E i : x = ActionEvidenceEvent(i)
    BY <2>3 DEF ActionEvidenceEvent
  <2>4. CASE \E o : x = CriterionObservationEvent(o)
    BY <2>4 DEF CriterionObservationEvent
  <2>5. QED
    BY <2>1, <2>2, <2>3, <2>4 DEF OnlyEvents
<1>3. DOMAIN attached = 1..n /\ n \in Nat /\ Len(events) = n
  BY <1>1
<1> HIDE DEF closing
<1>4. DOMAIN events = 1..n /\ \A i \in 1..n : events[i] = IF i = n THEN closing ELSE attached[i]
  BY <1>1, <1>3
<1> HIDE DEF events
<1>5. events # <<>> /\ \A i \in DOMAIN events : (events[i].kind = "TERMINATION") = (i = n)
  BY <1>3 DEF Valid, events
<1>6. n # 0
  <2>1. n = 0 => attached = <<>>
    OBVIOUS
  <2>2. attached = <<>> => events = <<>>
    BY <1>1
  <2>3. QED
    BY <1>5, <2>1, <2>2
<1>7. n \in 1..n
  BY <1>3, <1>6
<1>8. attached[n] \in J /\ closing.kind = "TERMINATION"
  <2>1. attached[n] \in J
    BY <1>3, <1>7
  <2>2. n \in DOMAIN events /\ events[n] = closing
    BY <1>4, <1>7
  <2>3. (events[n].kind = "TERMINATION") = (n = n)
    BY <1>5, <2>2
  <2>4. events[n].kind = "TERMINATION"
    BY <2>3
  <2>5. QED
    BY <2>1, <2>2, <2>4
<1>9. \A x \in J : x.kind = "TERMINATION" => x = end
  BY DEF FrameEvidenceEvent, ActionEvidenceEvent, CriterionObservationEvent, OnlyEvents
<1>10. attached[n] = end
  BY <1>2, <1>8, <1>9 DEF closing
<1>11. closing = [kind |-> "TERMINATION", done |-> done, grace |-> grace, quality |-> q]
  BY <1>10 DEF closing, TerminationEvent
<1>12. Last(events) = closing
  BY <1>3, <1>4, <1>7 DEF Last
<1>13. \A x : x.kind # "TERMINATION" => (x \in ToSet(events) <=> x \in J)
  <2> SUFFICES ASSUME NEW x, x.kind # "TERMINATION" PROVE x \in ToSet(events) <=> x \in J
    OBVIOUS
  <2>1. end.kind = "TERMINATION"
    BY DEF TerminationEvent
  <2>2. x \in ToSet(events) <=> \E i \in 1..n : x = events[i]
    BY <1>4 DEF ToSet
  <2>3. x \in J <=> \E i \in 1..n : x = attached[i]
    BY <1>3 DEF ToSet
  <2> HIDE DEF end
  <2>4. QED
    BY <1>4, <1>8, <1>10, <2>1, <2>2, <2>3
<1>14. ObservedIn(events) = {x \in J : x.kind = "CRITERION_OBSERVATION"}
  BY <1>13 DEF ObservedIn
<1>15. {x \in ToSet(events) : x.kind = "FRAME_EVIDENCE"} = {y \in J : y.kind = "FRAME_EVIDENCE"}
  BY <1>13
<1>16. FramesOf(events) = {x.at : x \in {y \in J : y.kind = "FRAME_EVIDENCE"}}
  BY <1>15 DEF FramesOf
<1>17. QED
  BY <1>11, <1>12, <1>14, <1>16 DEF events, q

\* The criteria of a contract, which are finitely many.
JudgedKinds == {"phase5", "family", "jit"}

LEMMA CriteriaAreFew ==
    ASSUME NEW kind \in JudgedKinds
    PROVE  IsFiniteSet(Criteria(kind)) /\ "done" \in Criteria(kind)
<1>1. \A S, x : IsFiniteSet(S) => IsFiniteSet(S \cup {x})
  BY FS_AddElement
<1>2. \A a : IsFiniteSet({a})
  BY FS_Singleton
<1>3. \A a, b, c : IsFiniteSet({a, b, c})
  <2> SUFFICES ASSUME NEW a, NEW b, NEW c PROVE IsFiniteSet({a, b, c})
    OBVIOUS
  <2>1. IsFiniteSet({a} \cup {b})
    BY <1>1, <1>2
  <2>2. IsFiniteSet({a} \cup {b} \cup {c})
    BY <1>1, <2>1
  <2>3. {a} \cup {b} \cup {c} = {a, b, c}
    OBVIOUS
  <2>4. QED
    BY <2>2, <2>3
<1>4. \A a, b, c, d, e : IsFiniteSet({a, b, c, d, e})
  <2> SUFFICES ASSUME NEW a, NEW b, NEW c, NEW d, NEW e PROVE IsFiniteSet({a, b, c, d, e})
    OBVIOUS
  <2>1. IsFiniteSet({a, b, c} \cup {d})
    BY <1>1, <1>3
  <2>2. IsFiniteSet({a, b, c} \cup {d} \cup {e})
    BY <1>1, <2>1
  <2>3. {a, b, c} \cup {d} \cup {e} = {a, b, c, d, e}
    OBVIOUS
  <2>4. QED
    BY <2>2, <2>3
<1>5. \A a, b, c, d, e, f : IsFiniteSet({a, b, c, d, e, f})
  <2> SUFFICES ASSUME NEW a, NEW b, NEW c, NEW d, NEW e, NEW f
               PROVE  IsFiniteSet({a, b, c, d, e, f})
    OBVIOUS
  <2>1. IsFiniteSet({a, b, c, d, e} \cup {f})
    BY <1>1, <1>4
  <2>2. {a, b, c, d, e} \cup {f} = {a, b, c, d, e, f}
    OBVIOUS
  <2>3. QED
    BY <2>1, <2>2
<1>6. CASE kind = "phase5"
  BY <1>5, <1>6 DEF Criteria
<1>7. CASE kind = "family"
  BY <1>4, <1>7 DEF Criteria
<1>8. CASE kind = "jit"
  BY <1>3, <1>8 DEF Criteria
<1>9. QED
  BY <1>6, <1>7, <1>8 DEF JudgedKinds

-----------------------------------------------------------------------------
(* The events of a run judged.                                             *)

Observations == _checker_observations(contract)

\* The observation of criterion k.
Of(k) == [criterion |-> k, frame |-> EvidenceFrame(k),
          seen |-> _checker_observation(k, _apply_criterion_dependencies(contract.kind, k))]

Events == _termination(attach_criterion_observations(Told, Observations),
                       records["done"].status = "SATISFIED")

\* The end of the window the statuses of the report are taken at.
Window == IF Last(Events).grace # Unset THEN Last(Events).grace ELSE _last_frame(Events)

Replayable == Attachable(Told, Criteria(contract.kind), Observations) /\ Valid(Events)

\* What is replayed is one observation of each criterion, on a frame inside the window.
LEMMA EventsTell ==
    ASSUME contract.kind \in JudgedKinds, trace.done \in 0..2, Replayable
    PROVE  /\ ObservedIn(Events) = {CriterionObservationEvent(Of(k)) : k \in Criteria(contract.kind)}
           /\ Window \in Nat
           /\ \A k \in Criteria(contract.kind) : EvidenceFrame(k) \in 1..Window
           /\ Last(Events).quality
              = IF records["done"].status = "SATISFIED" THEN "ON_TIME" ELSE "PREMATURE_DONE"
<1> DEFINE frames == (IF trace.source THEN {SourceFrame} ELSE {}) \cup {TerminalFrame}
           acts == {SourceFrame} \cup ({trace.done} \ {Unset})
           K == Criteria(contract.kind)
           onTime == records["done"].status = "SATISFIED"
           attached == attach_criterion_observations(Told, Observations)
           joined == {CriterionObservationEvent(o) : o \in Observations}
<1>1. 2 \in Nat /\ frames \in SUBSET (1..2) /\ acts \in SUBSET (1..2)
  BY DEF SourceFrame, TerminalFrame, Unset
<1>2. Told = trace_bundle_to_event_trace(frames, acts, trace.done)
  BY DEF Told
<1> HIDE DEF frames, acts
<1>3. PICK grace \in 0..2 :
          /\ ToSet(Told) = FrameEvents(frames) \cup ActionEvents(acts)
                               \cup {TerminationEvent(trace.done, grace)}
          /\ Told \in Seq(ToSet(Told))
          /\ grace # Unset => \A i \in frames : i <= grace
  BY <1>1, <1>2, ToldTells
<1>4. FramesOf(Told) = frames
  <2>1. \A x \in ToSet(Told) : x.kind = "FRAME_EVIDENCE" <=> x \in FrameEvents(frames)
    BY <1>3 DEF FrameEvents, ActionEvents, FrameEvidenceEvent, ActionEvidenceEvent, TerminationEvent
  <2>2. {x \in ToSet(Told) : x.kind = "FRAME_EVIDENCE"} = FrameEvents(frames)
    BY <1>3, <2>1
  <2>3. {x.at : x \in FrameEvents(frames)} = frames
    <3>1. \A i : FrameEvidenceEvent(i).at = i
      BY DEF FrameEvidenceEvent
    <3>2. QED
      BY <3>1 DEF FrameEvents
  <2>4. QED
    BY <2>2, <2>3 DEF FramesOf
<1>5. Observations = {Of(k) : k \in K}
  BY DEF Observations, _checker_observations, Of
<1>6. IsFiniteSet(Observations)
  <2>1. IsFiniteSet(K)
    BY CriteriaAreFew
  <2> DEFINE f == [k \in K |-> Of(k)]
  <2> HIDE DEF K
  <2>2. f \in Surjection(K, Observations)
    BY <1>5 DEF Surjection
  <2> HIDE DEF f
  <2>3. QED
    BY <2>1, <2>2, FS_Surjection
<1>7. \A k \in K : EvidenceFrame(k) \in frames
  <2>1. \A o \in Observations : o.frame \in FramesOf(Told)
    BY DEF Replayable, Attachable
  <2>2. \A k : Of(k).frame = EvidenceFrame(k)
    BY DEF Of
  <2>3. \A k \in K : Of(k).frame \in FramesOf(Told)
    BY <1>5, <2>1
  <2>4. QED
    BY <1>4, <2>2, <2>3
<1> HIDE DEF K
<1>8. joined = {CriterionObservationEvent(o) : o \in {p \in Observations : p.frame \in FramesOf(Told)}}
  <2>1. \A o \in Observations : o.frame \in FramesOf(Told)
    BY DEF Replayable, Attachable
  <2>2. QED
    BY <2>1
<1> DEFINE J == ToSet(Told) \cup joined
<1> HIDE DEF joined
<1>9. ToSet(attached) = J /\ attached \in Seq(J)
  BY <1>3, <1>6, <1>8, AttachedObservations
<1>10. OnlyEvents(J, trace.done, grace)
  BY <1>3 DEF FrameEvents, ActionEvents, joined, OnlyEvents
<1>11. onTime \in BOOLEAN /\ Valid(_termination(attached, onTime))
  BY DEF Replayable, Events
<1>12. Events = _termination(attached, onTime)
  BY DEF Events
<1> HIDE DEF attached, onTime, J
<1>13. /\ ObservedIn(Events) = {x \in J : x.kind = "CRITERION_OBSERVATION"}
       /\ FramesOf(Events) = {x.at : x \in {y \in J : y.kind = "FRAME_EVIDENCE"}}
       /\ Last(Events).done = trace.done /\ Last(Events).grace = grace
       /\ Last(Events).quality = IF onTime THEN "ON_TIME" ELSE "PREMATURE_DONE"
  <2> DEFINE done == trace.done
  <2>1. OnlyEvents(J, done, grace)
    BY <1>10
  <2> HIDE DEF done
  <2> DEFINE ended == _termination(attached, onTime)
  <2>2. /\ ObservedIn(ended) = {x \in J : x.kind = "CRITERION_OBSERVATION"}
        /\ FramesOf(ended) = {x.at : x \in {y \in J : y.kind = "FRAME_EVIDENCE"}}
        /\ Last(ended).done = done /\ Last(ended).grace = grace
        /\ Last(ended).quality = IF onTime THEN "ON_TIME" ELSE "PREMATURE_DONE"
    BY <1>9, <1>11, <2>1, Terminated
  <2> HIDE DEF ended
  <2>3. QED
    BY <1>12, <2>2 DEF ended, done
<1>14. /\ \A x \in ToSet(Told) : x.kind # "CRITERION_OBSERVATION"
       /\ \A x \in joined : x.kind = "CRITERION_OBSERVATION"
  <2>1. \A x \in ToSet(Told) : x.kind # "CRITERION_OBSERVATION"
    BY <1>3 DEF FrameEvents, ActionEvents, FrameEvidenceEvent, ActionEvidenceEvent, TerminationEvent
  <2>2. \A x \in joined : x.kind = "CRITERION_OBSERVATION"
    BY DEF joined, CriterionObservationEvent
  <2>3. QED
    BY <2>1, <2>2
<1>15. ObservedIn(Events) = joined
  BY <1>13, <1>14 DEF J
<1>16. joined = {CriterionObservationEvent(Of(k)) : k \in K}
  BY <1>5 DEF joined
<1>17. FramesOf(Events) = frames
  <2>1. {y \in J : y.kind = "FRAME_EVIDENCE"} = {y \in ToSet(Told) : y.kind = "FRAME_EVIDENCE"}
    BY <1>14 DEF J
  <2>2. QED
    BY <1>4, <1>13, <2>1 DEF FramesOf
<1>18. {e.at : e \in ObservedIn(Events)} = {EvidenceFrame(k) : k \in K}
  <2>1. \A k : CriterionObservationEvent(Of(k)).at = EvidenceFrame(k)
    BY DEF CriterionObservationEvent, Of
  <2>2. QED
    BY <1>15, <1>16, <2>1
<1>19. _last_frame(Events) \in Nat /\ \A i \in frames : i <= _last_frame(Events)
  <2> DEFINE all == FramesOf(Events) \cup {e.at : e \in ObservedIn(Events)} \cup {Last(Events).done}
  <2>1. all \in SUBSET (0..2) /\ all # {} /\ frames \subseteq all
    <3>1. Last(Events).done \in 0..2
      BY <1>13
    <3>2. {e.at : e \in ObservedIn(Events)} \subseteq frames
      BY <1>7, <1>18
    <3>3. frames \subseteq 0..2
      BY <1>1
    <3>4. QED
      BY <1>17, <3>1, <3>2, <3>3
  <2>2. _last_frame(Events) = Max(all)
    BY DEF _last_frame
  <2> HIDE DEF all
  <2>3. Max(all) \in all /\ \A i \in all : i <= Max(all)
    BY <1>1, <2>1, MaxIsGreatest
  <2>4. Max(all) \in 0..2
    BY <2>1, <2>3
  <2>5. QED
    BY <2>1, <2>2, <2>3, <2>4
<1>20. Window \in Nat /\ \A i \in frames : i <= Window
  BY <1>3, <1>13, <1>19 DEF Window
<1>21. \A i \in frames : i \in 1..Window
  BY <1>1, <1>20
<1>22. QED
  BY <1>7, <1>13, <1>15, <1>16, <1>20, <1>21 DEF onTime, K

TheReport == Report(Terms(contract), Events, Profile(contract))

\* A status of the report that decides is what was seen of the criterion, with the
\* evidence it requires; and a fact of the actions seen violated is violated.
LEMMA StatusTells ==
    ASSUME contract.kind \in JudgedKinds, trace.done \in 0..2, Replayable,
           NEW k \in Criteria(contract.kind)
    PROVE  LET status == TheReport.statuses[k] IN
           /\ status \in {"SATISFIED", "VIOLATED"} =>
                  k \notin Lacking(contract) /\ Of(k).seen.status = status
           /\ k \in ActionCriteria /\ Violation(Of(k).seen) => status = "VIOLATED"
<1> DEFINE K == Criteria(contract.kind)
           obs == _ordered_observations(Events, k, Window)
           event == CriterionObservationEvent(Of(k))
           mine == {e \in ObservedIn(Events) : e.of = k}
           term == Terms(contract).semantics[k]
           s == Of(k).seen
<1>1. /\ ObservedIn(Events) = {CriterionObservationEvent(Of(j)) : j \in K}
      /\ Window \in Nat /\ \A j \in K : EvidenceFrame(j) \in 1..Window
  BY EventsTell
<1>2. \A j : /\ CriterionObservationEvent(Of(j)).of = j
             /\ CriterionObservationEvent(Of(j)).at = EvidenceFrame(j)
             /\ CriterionObservationEvent(Of(j)).seen = Of(j).seen
  BY DEF CriterionObservationEvent, Of
<1>3. mine = {event}
  <2>1. \A e \in mine : \E j \in K : e = CriterionObservationEvent(Of(j)) /\ j = k
    BY <1>1, <1>2
  <2>2. event \in mine
    BY <1>1, <1>2
  <2>3. QED
    BY <2>1, <2>2
<1>4. obs \in Seq({e.seen : e \in mine})
      /\ \A e \in mine : e.at \in 1..Window /\ (\A f \in mine : f.at = e.at => f = e)
             => e.seen \in ToSet(obs)
  <2> HIDE DEF obs
  <2>1. Window \in Nat
    BY <1>1
  <2>2. QED
    BY <2>1, OrderedObservations DEF obs
<1>5. {e.seen : e \in mine} = {s}
  BY <1>2, <1>3
<1>6. s \in ToSet(obs)
  <2> HIDE DEF obs
  <2>1. event \in mine /\ event.at \in 1..Window /\ \A f \in mine : f = event
    BY <1>1, <1>2, <1>3
  <2> HIDE DEF mine, event, s
  <2>2. event.seen \in ToSet(obs)
    BY <1>4, <2>1
  <2>3. QED
    BY <1>2, <2>2 DEF event, s
<1> HIDE DEF mine, event, obs
<1>7. term \in {"PERSISTENT_STATE", "PROCESS_OBLIGATION"} /\ DOMAIN Terms(contract).semantics = K
      /\ (k \in ActionCriteria => term = "PROCESS_OBLIGATION")
  BY DEF Terms, ActionCriteria
<1>8. TheReport.statuses[k]
      = IF k \in Lacking(contract) THEN "UNSUPPORTED_CAPABILITY" ELSE AggregateCriterion(term, obs)
  <2>1. TheReport.statuses = _criterion_results(Terms(contract), Events, Profile(contract), Window)
    BY DEF TheReport, Report, Window
  <2>2. _criterion_results(Terms(contract), Events, Profile(contract), Window)[k]
        = IF k \in Profile(contract).lacking THEN "UNSUPPORTED_CAPABILITY"
          ELSE AggregateCriterion(term, obs)
    BY <1>7 DEF _criterion_results, Replay, obs
  <2>3. Profile(contract).lacking = Lacking(contract)
    BY DEF Profile
  <2>4. QED
    BY <2>1, <2>2, <2>3
<1>9. k \in ActionCriteria => k \notin Lacking(contract)
  BY DEF Lacking, ActionCriteria
<1>10. obs \in Seq({s})
  BY <1>4, <1>5
<1> HIDE DEF s, term
<1>11. LET status == AggregateCriterion(term, obs) IN
           /\ status \in {"SATISFIED", "VIOLATED"} => s.status = status
           /\ term = "PROCESS_OBLIGATION" /\ s \in ToSet(obs) /\ Violation(s) => status = "VIOLATED"
  BY <1>7, <1>10, OneObservation
<1>12. QED
  BY <1>6, <1>7, <1>8, <1>9, <1>11 DEF s

-----------------------------------------------------------------------------
(* What a conclusion rests on.                                             *)

\* A satisfied criterion was found satisfied, its prerequisites with it, and on a frame
\* that shows the page.
LEMMA SatisfiedWasEarned ==
    ASSUME NEW k, Of(k).seen.status = "SATISFIED"
    PROVE  /\ k \notin ActionCriteria => look.made /\ Quality(k) = "stable"
           /\ \A p \in {k} \cup Prerequisites(contract.kind, k) : records[p].status = "SATISFIED"
<1> DEFINE status == _apply_criterion_dependencies(contract.kind, k)
           parents == {records[p].status : p \in Prerequisites(contract.kind, k)}
<1>1. Of(k).seen = _checker_observation(k, status)
  BY DEF Of
<1>2. status = "SATISFIED"
      /\ (k \notin ActionCriteria => ~_explicit_frame_blocker(k))
  BY <1>1 DEF _checker_observation, _uses_current_frame_semantics, Decided
<1>3. records[k].status = "SATISFIED" /\ parents \subseteq {"SATISFIED"}
  BY <1>2 DEF _apply_criterion_dependencies
<1>4. QED
  BY <1>2, <1>3 DEF _explicit_frame_blocker

\* A violated one was seen violated, or a prerequisite of it was, and not on a page
\* known to be loading.
LEMMA ViolatedWasSeen ==
    ASSUME NEW k, Of(k).seen.status = "VIOLATED"
    PROVE  /\ k \in ActionCriteria \/ ~look.made \/ Quality(k) # "loading"
           /\ \E p \in {k} \cup Prerequisites(contract.kind, k) : records[p].status = "VIOLATED"
<1> DEFINE status == _apply_criterion_dependencies(contract.kind, k)
           parents == {records[p].status : p \in Prerequisites(contract.kind, k)}
<1>1. Of(k).seen = _checker_observation(k, status)
  BY DEF Of
<1>2. status = "VIOLATED"
      /\ (k \notin ActionCriteria => ~(_explicit_frame_blocker(k) /\ Loads(k)))
  BY <1>1 DEF _checker_observation, _uses_current_frame_semantics, Decided
<1>3. Loads(k) => _explicit_frame_blocker(k)
  BY DEF Loads, _explicit_frame_blocker
<1>4. records[k].status = "VIOLATED" \/ "VIOLATED" \in parents
  BY <1>2 DEF _apply_criterion_dependencies
<1>5. QED
  BY <1>2, <1>3, <1>4 DEF Loads

\* No look at a frame takes a violated fact of the actions away.
LEMMA FactsAreSeen ==
    ASSUME NEW k \in ActionCriteria, records[k].status = "VIOLATED"
    PROVE  Violation(Of(k).seen)
<1> DEFINE status == _apply_criterion_dependencies(contract.kind, k)
<1>1. Of(k).seen = _checker_observation(k, status)
  BY DEF Of
<1>2. status = "VIOLATED"
  BY DEF _apply_criterion_dependencies
<1>3. _checker_observation(k, "VIOLATED").status = "VIOLATED"
      /\ _checker_observation(k, "VIOLATED").state = "STABLE_SEMANTIC"
  BY DEF _checker_observation, _uses_current_frame_semantics
<1>4. QED
  BY <1>1, <1>2, <1>3 DEF Violation, Decisive, NonDecisive

\* What the verdict of a replay says.
LEMMA VerdictTells ==
    ASSUME contract.kind \in JudgedKinds, trace.done \in 0..2, Replayable
    PROVE  LET verdict == _simple_result(TheReport) IN
           /\ verdict.verdict = "PASS" =>
                 \A k \in Judged : TheReport.statuses[k] = "SATISFIED"
           /\ verdict.verdict = "FAIL" =>
                 \E k \in Judged : TheReport.statuses[k] = "VIOLATED"
           /\ (\E k \in Judged : TheReport.statuses[k] = "VIOLATED") => verdict.verdict = "FAIL"
           /\ verdict.afterGrace \in {"NONE", verdict.outcome}
           /\ verdict.quality = Last(Events).quality
<1> DEFINE statuses == {TheReport.statuses[k] : k \in DOMAIN TheReport.statuses}
<1>1. _simple_result(TheReport).verdict = _combined_verdict(statuses)
      /\ _simple_result(TheReport).outcome = TheReport.outcome
      /\ _simple_result(TheReport).afterGrace = TheReport.afterGrace
      /\ _simple_result(TheReport).quality = TheReport.quality
  BY DEF _simple_result
<1>2. DOMAIN TheReport.statuses = Judged
  <2>1. DOMAIN Terms(contract).semantics = Criteria(contract.kind)
    BY DEF Terms
  <2>2. QED
    BY <2>1 DEF TheReport, Report, _criterion_results, Replay, Judged
<1>3. TheReport.quality = Last(Events).quality
  BY DEF TheReport, Report
<1>4. TheReport.afterGrace \in {"NONE", TheReport.outcome}
  BY DEF TheReport, Report, _outcome_at
<1> HIDE DEF statuses
<1>5. /\ _combined_verdict(statuses) = "PASS" => statuses = {"SATISFIED"}
      /\ _combined_verdict(statuses) = "FAIL" <=> "VIOLATED" \in statuses
  BY DEF _combined_verdict
<1>6. QED
  BY <1>1, <1>2, <1>3, <1>4, <1>5 DEF statuses

-----------------------------------------------------------------------------
(* The verification as a whole.                                            *)

SelectionPlaces == {"idle", "registry", "template", "jit", "write", "restore", "rejected", "refused"}
TracePlaces == {"routed", "load", "look", "check", "replay"}
Failures == {"UNSUPPORTED", "INVALID_TRACE", "ABSTAIN", "RAISED"}

\* A contract in force names criteria.
ContractInv ==
    /\ pc \in SelectionPlaces \cup TracePlaces \cup {"done"}
    /\ pc \in TracePlaces \cup {"write"} => contract.kind \in JudgedKinds
    /\ freeze.state = "written" => freeze.contract.kind \in JudgedKinds

\* A trace that is judged was bound to its receipt and read.
TraceInv ==
    /\ trace \in [bound : BOOLEAN, valid : BOOLEAN, tree : BOOLEAN, pictures : BOOLEAN,
                  source : BOOLEAN, done : 0..2]
    /\ pc \in {"load", "look", "check", "replay"} => trace.bound
    /\ pc \in {"look", "check", "replay"} => trace.valid

\* What the checkers conclude of the actions of a run.
RecordsTell ==
    /\ DOMAIN records = Criteria(contract.kind)
    /\ records["done"].status = "SATISFIED" => trace.done # Unset
    /\ contract.kind = "phase5"
       /\ (\E k \in DOMAIN records \cap ActionCriteria : records[k].status = "VIOLATED") =>
           \A q \in {"query", "rule", "outcome"} : records[q].by # "model"

RecordsInv ==
    /\ pc \notin {"replay", "done"} => records = NoRecords
    /\ pc # "done" => result = NoResult
    /\ pc = "replay" => RecordsTell

VerifierInv ==
    /\ ContractInv /\ TraceInv /\ RecordsInv
    /\ PassIsEarned /\ FailIsSeen /\ ActionFactsDecide

LEMMA NothingJudged ==
    ASSUME records = NoRecords, result.verdict \in Failures \cup {"NONE"}, result.outcome = "NONE"
    PROVE  PassIsEarned /\ FailIsSeen /\ ActionFactsDecide
<1>1. DOMAIN records = {}
  BY DEF NoRecords
<1>2. QED
  BY <1>1 DEF PassIsEarned, FailIsSeen, ActionFactsDecide, Failures

LEMMA FailKeeps ==
    ASSUME VerifierInv, pc # "done", NEW verdict \in Failures, Fail(verdict), StageOnly
    PROVE  VerifierInv'
<1>1. /\ pc' = "done" /\ UNCHANGED <<contract, freeze, recorder, trace, look, records>>
      /\ result' = [NoResult EXCEPT !.verdict = verdict, !.review = TRUE]
  BY DEF Fail, StageOnly
<1>2. result'.verdict = verdict /\ result'.outcome = "NONE"
  BY <1>1 DEF NoResult
<1>3. ContractInv' /\ TraceInv' /\ RecordsInv'
  BY <1>1 DEF VerifierInv, ContractInv, TraceInv, RecordsInv, TracePlaces
<1>4. PassIsEarned' /\ FailIsSeen'
  BY <1>2 DEF PassIsEarned, FailIsSeen, Failures
<1>5. ActionFactsDecide'
  <2>1. \A k \in DOMAIN records \cap ActionCriteria : records[k].status = "VIOLATED" =>
            (contract.kind = "phase5" => \A q \in {"query", "rule", "outcome"} : records[q].by # "model")
    BY DEF VerifierInv, ActionFactsDecide
  <2>2. QED
    BY <1>1, <1>2, <2>1 DEF ActionFactsDecide
<1>6. QED
  BY <1>3, <1>4, <1>5 DEF VerifierInv

LEMMA SelectionKeeps ==
    ASSUME VerifierInv, SelectionStep, UNCHANGED verification
    PROVE  VerifierInv'
<1>1. UNCHANGED <<recorder, trace, look, records, result>>
  BY DEF verification
<1>2. pc \in SelectionPlaces /\ pc' \in SelectionPlaces \cup {"routed"}
  BY DEF SelectionStep, route_contract, AskRegistry, AskTemplate, JitUnavailable,
         compile_jit_contract, Select, Reject, Miss, _pre_run_contract_freeze,
         write_contract_freeze, BeginVerification, routed_contract_from_freeze, Begin,
         SelectionPlaces, VerifierInv, ContractInv
<1>3. ContractInv'
  <2>1. \A c \in RegistryContracts \cup {TemplateContract} \cup JitContracts : c.kind \in JudgedKinds
    BY DEF RegistryContracts, TemplateContract, JitContracts, Contract, JudgedKinds
  <2>2. ASSUME NEW from, NEW c, c.kind \in JudgedKinds, Select(from, c), Routing
        PROVE  ContractInv'
    BY <2>2, <1>2 DEF Select, Routing, ContractInv, VerifierInv, SelectionPlaces, TracePlaces
  <2>3. ASSUME NEW from, NEW decision, Reject(from, decision), Routing
        PROVE  ContractInv'
    BY <2>3, <1>2 DEF Reject, Routing, ContractInv, VerifierInv, SelectionPlaces, TracePlaces
  <2>4. ASSUME NEW from, NEW next \in {"template", "jit"}, Miss(from, next), Routing
        PROVE  ContractInv'
    BY <2>4, <1>2 DEF Miss, Routing, ContractInv, VerifierInv, SelectionPlaces, TracePlaces
  <2>5. CASE route_contract
    <3>1. CASE AskRegistry
      BY <2>1, <2>2, <2>3, <2>4, <3>1 DEF AskRegistry
    <3>2. CASE AskTemplate
      BY <2>1, <2>2, <2>3, <2>4, <3>2 DEF AskTemplate
    <3>3. CASE JitUnavailable
      BY <2>3, <3>3 DEF JitUnavailable
    <3>4. CASE compile_jit_contract
      <4>1. CASE UNCHANGED <<pc, offer, attempts, contract>>
        BY <3>4, <4>1 DEF compile_jit_contract, Routing, ContractInv, VerifierInv
      <4>2. QED
        BY <2>1, <2>2, <2>3, <3>4, <4>1 DEF compile_jit_contract
    <3>5. QED
      BY <2>5, <3>1, <3>2, <3>3, <3>4 DEF route_contract
  <2>6. CASE _pre_run_contract_freeze \/ BeginVerification
    BY <1>2, <2>6 DEF _pre_run_contract_freeze, BeginVerification, Begin, ContractInv, VerifierInv,
       SelectionPlaces, TracePlaces
  <2>7. CASE write_contract_freeze
    BY <1>2, <2>7 DEF write_contract_freeze, ContractInv, VerifierInv, SelectionPlaces, TracePlaces,
       NoFreeze
  <2>8. CASE routed_contract_from_freeze
    BY <1>2, <2>8 DEF routed_contract_from_freeze, ContractInv, VerifierInv, SelectionPlaces,
       TracePlaces
  <2>9. QED
    BY <2>5, <2>6, <2>7, <2>8 DEF SelectionStep
<1>4. records = NoRecords /\ result = NoResult
  BY <1>2 DEF VerifierInv, RecordsInv, SelectionPlaces
<1>5. TraceInv' /\ RecordsInv'
  BY <1>1, <1>2, <1>4 DEF VerifierInv, TraceInv, RecordsInv, SelectionPlaces
<1>6. PassIsEarned' /\ FailIsSeen' /\ ActionFactsDecide'
  <2>1. records' = NoRecords /\ result'.verdict = "NONE" /\ result'.outcome = "NONE"
    BY <1>1, <1>4 DEF NoResult
  <2>2. DOMAIN records' = {}
    BY <2>1 DEF NoRecords
  <2>3. QED
    BY <2>1, <2>2 DEF PassIsEarned, FailIsSeen, ActionFactsDecide
<1>7. QED
  BY <1>3, <1>5, <1>6 DEF VerifierInv

LEMMA BeforeTheRecords ==
    ASSUME VerifierInv, pc \in {"routed", "load", "look"}, pc' \in {"load", "look", "check"},
           UNCHANGED <<contract, freeze, records, result>>, TraceInv'
    PROVE  VerifierInv'
<1>1. records = NoRecords /\ result = NoResult
  BY DEF VerifierInv, RecordsInv
<1>2. ContractInv' /\ RecordsInv'
  BY <1>1 DEF VerifierInv, ContractInv, RecordsInv, TracePlaces
<1>3. records' = NoRecords /\ result'.verdict = "NONE" /\ result'.outcome = "NONE"
  BY <1>1 DEF NoResult
<1>4. DOMAIN records' = {}
  BY <1>3 DEF NoRecords
<1>5. PassIsEarned' /\ FailIsSeen' /\ ActionFactsDecide'
  BY <1>3, <1>4 DEF PassIsEarned, FailIsSeen, ActionFactsDecide
<1>6. QED
  BY <1>2, <1>5 DEF VerifierInv

\* The checkers' conclusions, before they are replayed.
LEMMA RecordsAreMade ==
    ASSUME VerifierInv, pc = "check", pc' = "replay", RecordsTell',
           UNCHANGED <<contract, freeze, recorder, trace, look, result>>
    PROVE  VerifierInv'
<1>1. result = NoResult
  BY DEF VerifierInv, RecordsInv
<1>2. ContractInv' /\ RecordsInv' /\ TraceInv'
  BY <1>1 DEF VerifierInv, ContractInv, RecordsInv, TraceInv, TracePlaces
<1>3. result'.verdict = "NONE" /\ result'.outcome = "NONE"
  BY <1>1 DEF NoResult
<1>4. PassIsEarned' /\ FailIsSeen' /\ ActionFactsDecide'
  BY <1>3 DEF PassIsEarned, FailIsSeen, ActionFactsDecide, RecordsTell
<1>5. QED
  BY <1>2, <1>4 DEF VerifierInv

LEMMA Phase5Keeps ==
    ASSUME VerifierInv, SelectivePhase5
    PROVE  VerifierInv'
<1>1. pc = "check" /\ contract.kind = "phase5" /\ StageOnly
  BY DEF SelectivePhase5
<1>2. ASSUME NEW verdict \in Failures, FailOrRaise(verdict)
      PROVE  VerifierInv'
  BY <1>1, <1>2, FailKeeps DEF FailOrRaise, Failures
<1> DEFINE Concluded(facts, sort, answers) ==
             LET fact(k) == IF k = "sort" THEN sort ELSE facts[k]
                 gated == \E k \in StrongGates : fact(k).status = "VIOLATED"
                 judge == IF gated THEN {Nothing} ELSE AskModel
             IN /\ answers \in evaluate_full_case(judge)
                /\ records' = [k \in Criteria("phase5") |->
                                  IF k \in DOMAIN answers THEN answers[k] ELSE fact(k)]
<1>3. ASSUME NEW facts \in verify_case_without_ground_truth, NEW sort \in _state_record,
             NEW answers, Concluded(facts, sort, answers),
             pc' = "replay", UNCHANGED <<recorder, trace, look, result>>
      PROVE  VerifierInv'
  <2> DEFINE fact(k) == IF k = "sort" THEN sort ELSE facts[k]
             gated == \E k \in StrongGates : fact(k).status = "VIOLATED"
             judge == IF gated THEN {Nothing} ELSE AskModel
  <2>1. answers \in [{"query", "rule", "outcome"} -> judge]
    BY <1>3 DEF evaluate_full_case
  <2>2. records' = [k \in Criteria("phase5") |-> IF k \in DOMAIN answers THEN answers[k] ELSE fact(k)]
    BY <1>3
  <2>3. Criteria("phase5") = {"query", "sort", "rule", "open", "outcome", "done"}
    BY DEF Criteria
  <2>4. /\ DOMAIN records' = Criteria("phase5")
        /\ records'["done"] = facts["done"] /\ records'["open"] = facts["open"]
        /\ \A q \in {"query", "rule", "outcome"} : records'[q] = answers[q]
    BY <2>1, <2>2, <2>3
  <2>5. facts["done"].status = "SATISFIED" => trace.done # Unset
    BY DEF verify_case_without_ground_truth
  <2>6. ASSUME facts["open"].status = "VIOLATED" \/ facts["done"].status = "VIOLATED"
        PROVE  \A q \in {"query", "rule", "outcome"} : answers[q].by # "model"
    <3>1. fact("open") = facts["open"] /\ fact("done") = facts["done"]
      OBVIOUS
    <3>2. gated
      BY <2>6, <3>1 DEF StrongGates
    <3>3. judge = {Nothing}
      BY <3>2
    <3>4. Nothing.by = "nothing"
      BY DEF Nothing
    <3> HIDE DEF judge, gated, fact
    <3>5. QED
      BY <2>1, <3>3, <3>4
  <2> HIDE DEF fact, gated, judge
  <2>7. UNCHANGED <<contract, freeze>>
    BY <1>1 DEF StageOnly
  <2>8. ASSUME NEW k \in DOMAIN records' \cap ActionCriteria, records'[k].status = "VIOLATED"
        PROVE  \A q \in {"query", "rule", "outcome"} : records'[q].by # "model"
    <3>1. k \in {"open", "done"}
      BY <2>3, <2>4 DEF ActionCriteria
    <3>2. QED
      BY <2>4, <2>6, <2>8, <3>1
  <2>9. RecordsTell'
    BY <1>1, <1>3, <2>4, <2>5, <2>7, <2>8 DEF RecordsTell
  <2>10. QED
    BY <1>1, <1>3, <2>7, <2>9, RecordsAreMade
<1>4. QED
  <2>0. PICK facts \in verify_case_without_ground_truth, sort \in _state_record :
         LET fact(k) == IF k = "sort" THEN sort ELSE facts[k]
             gated == \E k \in StrongGates : fact(k).status = "VIOLATED"
             judge == IF gated THEN {Nothing} ELSE AskModel
         IN \/ \E answers \in evaluate_full_case(judge) :
                 /\ ~gated /\ recorder => trace.source /\ trace.pictures
                 /\ records' = [k \in Criteria("phase5") |->
                        IF k \in DOMAIN answers THEN answers[k] ELSE fact(k)]
                 /\ pc' = "replay" /\ UNCHANGED <<recorder, trace, look, result>>
            \/ ~gated /\ recorder /\ FailOrRaise("INVALID_TRACE") /\ ~(trace.source /\ trace.pictures)
            \/ ~gated /\ recorder /\ FailOrRaise("ABSTAIN") /\ trace.source /\ trace.pictures
    BY DEF SelectivePhase5
  <2> DEFINE fact(k) == IF k = "sort" THEN sort ELSE facts[k]
             gated == \E k \in StrongGates : fact(k).status = "VIOLATED"
             judge == IF gated THEN {Nothing} ELSE AskModel
  <2>1. \/ \E answers \in evaluate_full_case(judge) :
               /\ records' = [k \in Criteria("phase5") |->
                                 IF k \in DOMAIN answers THEN answers[k] ELSE fact(k)]
               /\ pc' = "replay" /\ UNCHANGED <<recorder, trace, look, result>>
        \/ FailOrRaise("INVALID_TRACE") \/ FailOrRaise("ABSTAIN")
    BY <2>0
  <2>2. CASE FailOrRaise("INVALID_TRACE") \/ FailOrRaise("ABSTAIN")
    BY <1>2, <2>2 DEF Failures
  <2>3. CASE ~(FailOrRaise("INVALID_TRACE") \/ FailOrRaise("ABSTAIN"))
    <3>1. PICK answers \in evaluate_full_case(judge) :
               /\ records' = [k \in Criteria("phase5") |->
                                 IF k \in DOMAIN answers THEN answers[k] ELSE fact(k)]
               /\ pc' = "replay" /\ UNCHANGED <<recorder, trace, look, result>>
      BY <2>1, <2>3
    <3>2. Concluded(facts, sort, answers)
      BY <3>1
    <3> HIDE DEF Concluded
    <3>3. QED
      BY <1>3, <3>1, <3>2
  <2>4. QED
    BY <2>2, <2>3

LEMMA RegistryKeeps ==
    ASSUME VerifierInv, CriterionCheckerRegistry
    PROVE  VerifierInv'
<1>1. pc = "check" /\ contract.kind # "phase5" /\ StageOnly
  BY DEF CriterionCheckerRegistry
<1>2. CASE FailOrRaise("ABSTAIN")
  BY <1>1, <1>2, FailKeeps DEF FailOrRaise, Failures
<1>3. ASSUME records' \in {r \in [Criteria(contract.kind) ->
                                    [status : Answers, by : {"facts", "model", "nothing"}]] :
                              \A k \in DOMAIN r : r[k] \in Checker(k)},
             pc' = "replay", UNCHANGED <<recorder, trace, look, result>>
      PROVE  VerifierInv'
  <2>1. UNCHANGED <<contract, freeze>>
    BY <1>1 DEF StageOnly
  <2>2. DOMAIN records' = Criteria(contract.kind) /\ \A k \in DOMAIN records' : records'[k] \in Checker(k)
    BY <1>3
  <2>3. contract.kind \in JudgedKinds
    BY <1>1 DEF VerifierInv, ContractInv, TracePlaces
  <2>4. "done" \in DOMAIN records'
    BY <2>2, <2>3, CriteriaAreFew
  <2>5. records'["done"] \in Checker("done")
    BY <2>2, <2>4
  <2>6. records'["done"].status = "SATISFIED" => trace.done # Unset
    BY <2>5 DEF Checker
  <2>7. RecordsTell'
    BY <1>1, <1>3, <2>1, <2>2, <2>6 DEF RecordsTell
  <2>8. QED
    BY <1>1, <1>3, <2>1, <2>7, RecordsAreMade
<1>4. QED
  BY <1>2, <1>3 DEF CriterionCheckerRegistry

LEMMA ReplayKeeps ==
    ASSUME VerifierInv, replay_event_trace
    PROVE  VerifierInv'
<1>1. pc = "replay" /\ StageOnly
  BY DEF replay_event_trace
<1>2. CASE FailOrRaise("ABSTAIN")
  BY <1>1, <1>2, FailKeeps DEF FailOrRaise, Failures
<1>3. ASSUME Replayable, result' = _simple_result(TheReport),
             pc' = "done", UNCHANGED <<recorder, trace, look, records>>
      PROVE  VerifierInv'
  <2>1. UNCHANGED <<contract, freeze>>
    BY <1>1 DEF StageOnly
  <2>2. /\ contract.kind \in JudgedKinds /\ trace.done \in 0..2
        /\ trace.bound /\ trace.valid /\ RecordsTell
    BY <1>1 DEF VerifierInv, ContractInv, TraceInv, RecordsInv, TracePlaces
  <2>3. ContractInv' /\ TraceInv' /\ RecordsInv'
    BY <1>3, <2>1 DEF VerifierInv, ContractInv, TraceInv, RecordsInv, TracePlaces
  <2>4. /\ result'.verdict = "PASS" => \A k \in Judged : TheReport.statuses[k] = "SATISFIED"
        /\ result'.verdict = "FAIL" => \E k \in Judged : TheReport.statuses[k] = "VIOLATED"
        /\ (\E k \in Judged : TheReport.statuses[k] = "VIOLATED") => result'.verdict = "FAIL"
        /\ result'.afterGrace \in {"NONE", result'.outcome}
        /\ result'.quality = Last(Events).quality
    BY <1>3, <2>2, VerdictTells
  <2>5. \A k \in Judged :
            /\ TheReport.statuses[k] \in {"SATISFIED", "VIOLATED"} =>
                   k \notin Lacking(contract) /\ Of(k).seen.status = TheReport.statuses[k]
            /\ k \in ActionCriteria /\ Violation(Of(k).seen) => TheReport.statuses[k] = "VIOLATED"
    BY <1>3, <2>2, StatusTells DEF Judged
  <2>6. Judged' = Judged /\ Lacking(contract)' = Lacking(contract)
        /\ (\A k : Quality(k)' = Quality(k))
        /\ (\A k : Prerequisites(contract.kind, k)' = Prerequisites(contract.kind, k))
    BY <1>3, <2>1 DEF Judged, Lacking, Quality, EvidenceFrame, Prerequisites, Criteria
  <2>7. PassIsEarned'
    <3> SUFFICES ASSUME result'.verdict = "PASS"
                 PROVE  /\ trace'.bound /\ trace'.valid
                        /\ trace'.done # Unset /\ result'.quality = "ON_TIME"
                        /\ result'.afterGrace \in {"NONE", result'.outcome}
                        /\ \A k \in Judged' :
                            /\ k \notin Lacking(contract)'
                            /\ k \notin ActionCriteria => look'.made /\ Quality(k)' = "stable"
                            /\ \A p \in {k} \cup Prerequisites(contract.kind, k)' :
                                   records'[p].status = "SATISFIED"
      BY DEF PassIsEarned
    <3>1. \A k \in Judged : k \notin Lacking(contract) /\ Of(k).seen.status = "SATISFIED"
      BY <2>4, <2>5
    <3>2. \A k \in Judged :
              /\ k \notin ActionCriteria => look.made /\ Quality(k) = "stable"
              /\ \A p \in {k} \cup Prerequisites(contract.kind, k) : records[p].status = "SATISFIED"
      BY <3>1, SatisfiedWasEarned
    <3>3. records["done"].status = "SATISFIED"
      BY <2>2, <3>2, CriteriaAreFew DEF Judged
    <3>4. trace.done # Unset /\ result'.quality = "ON_TIME"
      <4>1. Last(Events).quality = "ON_TIME"
        BY <1>3, <2>2, <3>3, EventsTell
      <4>2. QED
        BY <2>2, <2>4, <3>3, <4>1 DEF RecordsTell
    <3>5. QED
      BY <1>3, <2>2, <2>4, <2>6, <3>1, <3>2, <3>4
  <2>8. FailIsSeen'
    <3> SUFFICES ASSUME result'.verdict = "FAIL"
                 PROVE  \E k \in Judged' \ Lacking(contract)' :
                          /\ \E p \in {k} \cup Prerequisites(contract.kind, k)' :
                                 records'[p].status = "VIOLATED"
                          /\ k \in ActionCriteria \/ ~look'.made \/ Quality(k)' # "loading"
      BY DEF FailIsSeen
    <3>1. PICK k \in Judged : TheReport.statuses[k] = "VIOLATED"
      BY <2>4
    <3>2. k \notin Lacking(contract) /\ Of(k).seen.status = "VIOLATED"
      BY <2>5, <3>1
    <3>3. /\ k \in ActionCriteria \/ ~look.made \/ Quality(k) # "loading"
          /\ \E p \in {k} \cup Prerequisites(contract.kind, k) : records[p].status = "VIOLATED"
      BY <3>2, ViolatedWasSeen
    <3>4. QED
      BY <1>3, <2>6, <3>2, <3>3
  <2>9. ActionFactsDecide'
    <3>1. \A k \in DOMAIN records \cap ActionCriteria : records[k].status = "VIOLATED" =>
              result'.verdict = "FAIL"
      <4> SUFFICES ASSUME NEW k \in DOMAIN records \cap ActionCriteria, records[k].status = "VIOLATED"
                   PROVE  result'.verdict = "FAIL"
        OBVIOUS
      <4>1. k \in Judged
        BY <2>2 DEF RecordsTell, Judged
      <4>2. Violation(Of(k).seen)
        BY FactsAreSeen
      <4>3. QED
        BY <2>4, <2>5, <4>1, <4>2
    <3>2. contract.kind = "phase5"
          /\ (\E k \in DOMAIN records \cap ActionCriteria : records[k].status = "VIOLATED") =>
              \A q \in {"query", "rule", "outcome"} : records[q].by # "model"
      BY <2>2 DEF RecordsTell
    <3>3. QED
      BY <1>3, <2>1, <3>1, <3>2 DEF ActionFactsDecide
  <2>10. QED
    BY <2>3, <2>7, <2>8, <2>9 DEF VerifierInv
<1>4. QED
  BY <1>1, <1>2, <1>3 DEF replay_event_trace, Replayable, TheReport, Events, Observations

LEMMA VerifierKeeps ==
    ASSUME VerifierInv, [VerifierNext]_verifierVars
    PROVE  VerifierInv'
<1>1. CASE UNCHANGED verifierVars
  <2>1. UNCHANGED <<pc, contract, freeze, recorder, trace, look, records, result>>
    BY <1>1 DEF verifierVars, selection, verification
  <2>2. ContractInv' /\ TraceInv' /\ RecordsInv'
    BY <2>1 DEF VerifierInv, ContractInv, TraceInv, RecordsInv, RecordsTell, Criteria
  <2>3. Judged' = Judged /\ Lacking(contract)' = Lacking(contract)
        /\ (\A k : Quality(k)' = Quality(k))
        /\ (\A k : Prerequisites(contract.kind, k)' = Prerequisites(contract.kind, k))
    BY <2>1 DEF Judged, Lacking, Quality, EvidenceFrame, Prerequisites, Criteria
  <2>4. PassIsEarned' /\ FailIsSeen' /\ ActionFactsDecide'
    BY <2>1, <2>3 DEF VerifierInv, PassIsEarned, FailIsSeen, ActionFactsDecide
  <2>5. QED
    BY <2>2, <2>4 DEF VerifierInv
<1>2. CASE SelectionStep /\ UNCHANGED verification
  BY <1>2, SelectionKeeps
<1>3. CASE RejectContract
  BY <1>3, FailKeeps DEF RejectContract, FailOrRaise, Failures
<1>4. CASE _validate_intake_binding
  <2>1. pc = "routed" /\ StageOnly
    BY <1>4 DEF _validate_intake_binding
  <2>2. CASE FailOrRaise("INVALID_TRACE")
    BY <2>1, <2>2, FailKeeps DEF FailOrRaise, Failures
  <2>3. CASE trace' = [trace EXCEPT !.bound = TRUE] /\ pc' = "load"
             /\ UNCHANGED <<recorder, look, records, result>>
    <3>1. TraceInv'
      BY <2>3 DEF VerifierInv, TraceInv
    <3>2. QED
      BY <2>1, <2>3, <3>1, BeforeTheRecords DEF StageOnly
  <2>4. QED
    BY <1>4, <2>2, <2>3 DEF _validate_intake_binding
<1>5. CASE load_trace_directory
  <2>1. pc = "load" /\ StageOnly
    BY <1>5 DEF load_trace_directory
  <2>2. CASE Fail("INVALID_TRACE") \/ FailOrRaise("INVALID_TRACE") \/ FailOrRaise("ABSTAIN")
    BY <2>1, <2>2, FailKeeps DEF FailOrRaise, Failures
  <2>3. ASSUME NEW tree \in BOOLEAN, NEW pictures \in BOOLEAN, NEW from \in BOOLEAN,
               NEW done \in {Unset, SourceFrame, TerminalFrame},
               trace' = [trace EXCEPT !.valid = TRUE, !.tree = tree, !.pictures = pictures,
                                      !.source = from, !.done = done],
               pc' = "look", UNCHANGED <<recorder, look, records, result>>
        PROVE  VerifierInv'
    <3>1. done \in 0..2
      BY DEF Unset, SourceFrame, TerminalFrame
    <3>2. TraceInv'
      BY <2>1, <2>3, <3>1 DEF VerifierInv, TraceInv
    <3>3. QED
      BY <2>1, <2>3, <3>2, BeforeTheRecords DEF StageOnly
  <2>4. QED
    BY <1>5, <2>2, <2>3 DEF load_trace_directory
<1>6. CASE assemble_contract_g1_observations
  <2>1. pc = "look" /\ pc' = "check" /\ UNCHANGED <<contract, freeze, recorder, trace, records, result>>
    BY <1>6 DEF assemble_contract_g1_observations, StageOnly
  <2>2. TraceInv'
    BY <2>1 DEF VerifierInv, TraceInv
  <2>3. QED
    BY <2>1, <2>2, BeforeTheRecords
<1>7. CASE SelectivePhase5
  BY <1>7, Phase5Keeps
<1>8. CASE CriterionCheckerRegistry
  BY <1>8, RegistryKeeps
<1>9. CASE replay_event_trace
  BY <1>9, ReplayKeeps
<1>10. QED
  BY <1>1, <1>2, <1>3, <1>4, <1>5, <1>6, <1>7, <1>8, <1>9 DEF VerifierNext, Stage

THEOREM VerifierInvariant == VerifierSpec => []VerifierInv
<1>1. VerifierInit => VerifierInv
  <2> SUFFICES ASSUME VerifierInit PROVE VerifierInv
    OBVIOUS
  <2>1. /\ pc = "idle" /\ freeze = NoFreeze /\ trace = NoTrace /\ records = NoRecords
        /\ result = NoResult
    BY DEF VerifierInit, SelectionInit
  <2>2. ContractInv /\ TraceInv /\ RecordsInv
    BY <2>1 DEF ContractInv, TraceInv, RecordsInv, NoFreeze, NoTrace, Unset, SelectionPlaces, TracePlaces
  <2>3. PassIsEarned /\ FailIsSeen /\ ActionFactsDecide
    BY <2>1, NothingJudged DEF NoResult
  <2>4. QED
    BY <2>2, <2>3 DEF VerifierInv
<1>2. VerifierInv /\ [VerifierNext]_verifierVars => VerifierInv'
  BY VerifierKeeps
<1>3. QED
  BY <1>1, <1>2, PTL DEF VerifierSpec

\* A PASS is earned (upgraded_verifier.py:926-1019, 1066-1252): whatever the contract, the
\* trace, the looks and the answers are, every criterion and prerequisite was satisfied on
\* a readable page of a trace bound to its receipt, and the run ended on time.
THEOREM PassTheorem == VerifierSpec => []PassIsEarned
<1>1. VerifierInv => PassIsEarned
  BY DEF VerifierInv
<1>2. QED
  BY <1>1, VerifierInvariant, PTL

\* A FAIL names a violation that was seen, and not on a page known to be loading
\* (upgraded_verifier.py:857-891).
THEOREM FailTheorem == VerifierSpec => []FailIsSeen
<1>1. VerifierInv => FailIsSeen
  BY DEF VerifierInv
<1>2. QED
  BY <1>1, VerifierInvariant, PTL

\* A violated fact of the actions decides the verdict, whatever the frames show and the
\* model says (upgraded_verifier.py:251-261, 775-816).
THEOREM ActionFactsTheorem == VerifierSpec => []ActionFactsDecide
<1>1. VerifierInv => ActionFactsDecide
  BY DEF VerifierInv
<1>2. QED
  BY <1>1, VerifierInvariant, PTL

-----------------------------------------------------------------------------
(* The selection of the contract.                                          *)

\* A verification that finds a freeze file asks no source.
FreezeInv ==
    /\ pc = "write" => purpose = "freeze"
    /\ purpose = "verify" /\ freeze.state # "absent" =>
           /\ pc \notin {"registry", "template", "jit", "write"}
           /\ contract \in {NoContract, freeze.contract} /\ attempts \in {<<>>, freeze.attempts}

LEMMA FreezeKeeps ==
    ASSUME FreezeInv, [VerifierNext]_verifierVars
    PROVE  /\ FreezeInv'
           /\ freeze.state # "absent" => freeze' = freeze
<1>1. CASE Stage \/ UNCHANGED verifierVars
  <2>1. UNCHANGED <<purpose, contract, freeze, attempts>>
        /\ (pc' = pc \/ pc' \in {"load", "look", "check", "replay", "done"})
    BY <1>1 DEF Stage, RejectContract, _validate_intake_binding, load_trace_directory,
       assemble_contract_g1_observations, SelectivePhase5, CriterionCheckerRegistry,
       replay_event_trace, StageOnly, FailOrRaise, Fail, verifierVars, selection
  <2>2. QED
    BY <2>1 DEF FreezeInv
<1>2. CASE route_contract
  <2>1. Routing /\ pc \in {"registry", "template", "jit"}
        /\ (pc' = "write" => purpose = "freeze")
    BY <1>2 DEF route_contract, AskRegistry, AskTemplate, JitUnavailable, compile_jit_contract,
       Select, Reject, Miss
  <2>2. QED
    BY <2>1 DEF FreezeInv, Routing
<1>3. CASE _pre_run_contract_freeze
  BY <1>3 DEF _pre_run_contract_freeze, Begin, FreezeInv
<1>4. CASE write_contract_freeze
  BY <1>4 DEF write_contract_freeze, FreezeInv
<1>5. CASE BeginVerification
  BY <1>5 DEF BeginVerification, Begin, FreezeInv
<1>6. CASE routed_contract_from_freeze
  BY <1>6 DEF routed_contract_from_freeze, FreezeInv
<1>7. QED
  BY <1>1, <1>2, <1>3, <1>4, <1>5, <1>6 DEF VerifierNext, SelectionStep

\* A freeze file stays what it is, and a verification that finds one judges by it or not
\* at all (contract_freeze.py:188-327, upgraded_verifier.py:660-689).
THEOREM FrozenContractTheorem == VerifierSpec => FrozenContractStands
<1> DEFINE A == /\ freeze.state # "absent" => freeze' = freeze
                /\ purpose' = "verify" /\ freeze.state # "absent" =>
                      contract' \in {NoContract, freeze.contract} /\ attempts' \in {<<>>, freeze.attempts}
<1>1. VerifierInit => FreezeInv
  BY DEF VerifierInit, SelectionInit, FreezeInv
<1>2. FreezeInv /\ [VerifierNext]_verifierVars => FreezeInv'
  BY FreezeKeeps
<1>3. FreezeInv /\ [VerifierNext]_verifierVars => [A]_selection
  BY FreezeKeeps DEF FreezeInv
<1>4. QED
  BY <1>1, <1>2, <1>3, PTL DEF VerifierSpec, FrozenContractStands

Missed(from) == [source |-> from, decision |-> "MISS"]
Asking == {"registry", "template", "jit"}

\* What has been asked, and what is in force.
FallInv ==
    /\ pc = "registry" => attempts = <<>>
    /\ pc = "template" => attempts = <<Missed("REGISTRY")>>
    /\ pc = "jit" => attempts = <<Missed("REGISTRY"), Missed("TEMPLATE")>>
    /\ pc \in Asking => contract = NoContract
    /\ proposals \in Nat
    /\ proposals > 0 => pc = "jit" /\ proposals < MaxProposals
    /\ pc = "write" => Audited(attempts, contract)
    /\ contract # NoContract => Audited(attempts, contract)
    /\ freeze.state = "written" => Audited(freeze.attempts, freeze.contract)

\* Short sequences, grown by one.
LEMMA AppendedToFew ==
    \A a, b, c : /\ Append(<<>>, a) = <<a>> /\ Append(<<a>>, b) = <<a, b>>
                /\ Append(<<a, b>>, c) = <<a, b, c>>
<1> SUFFICES ASSUME NEW a, NEW b, NEW c
             PROVE  /\ Append(<<>>, a) = <<a>> /\ Append(<<a>>, b) = <<a, b>>
                    /\ Append(<<a, b>>, c) = <<a, b, c>>
  OBVIOUS
<1>1. Append(<<>>, a) = <<a>>
  OBVIOUS
<1>2. Append(<<a>>, b) = <<a, b>>
  <2>1. Append(<<a>>, b) = [i \in 1..2 |-> IF i = 1 THEN a ELSE b]
    OBVIOUS
  <2>2. <<a, b>> = [i \in 1..2 |-> IF i = 1 THEN a ELSE b]
    OBVIOUS
  <2>3. QED
    BY <2>1, <2>2
<1>3. Append(<<a, b>>, c) = <<a, b, c>>
  <2>1. Append(<<a, b>>, c) = [i \in 1..3 |-> IF i = 1 THEN a ELSE IF i = 2 THEN b ELSE c]
    OBVIOUS
  <2>2. <<a, b, c>> = [i \in 1..3 |-> IF i = 1 THEN a ELSE IF i = 2 THEN b ELSE c]
    OBVIOUS
  <2>3. QED
    BY <2>1, <2>2
<1>4. QED
  BY <1>1, <1>2, <1>3

\* The told of a selection names the source of the contract after its misses.
LEMMA SelectIsAudited ==
    ASSUME NEW c, NEW from \in {"REGISTRY", "TEMPLATE", "VALIDATED_JIT"}, c.source = from,
           NEW asked, asked = IF from = "REGISTRY" THEN <<>>
                              ELSE IF from = "TEMPLATE" THEN <<Missed("REGISTRY")>>
                              ELSE <<Missed("REGISTRY"), Missed("TEMPLATE")>>
    PROVE  Audited(Append(asked, [source |-> from, decision |-> "SELECTED"]), c)
<1> DEFINE hit == [source |-> from, decision |-> "SELECTED"]
           told == Append(asked, hit)
<1>1. hit = [source |-> c.source, decision |-> "SELECTED"]
  OBVIOUS
<1>2. Sources[1] = "REGISTRY" /\ Sources[2] = "TEMPLATE"
  BY DEF Sources
<1> HIDE DEF hit
<1>3. CASE from = "REGISTRY"
  <2>1. told = <<hit>> /\ Len(told) = 1
    BY <1>3
  <2>2. QED
    BY <1>1, <2>1 DEF Audited, hit
<1>4. CASE from = "TEMPLATE"
  <2>1. asked = <<Missed("REGISTRY")>>
    BY <1>4
  <2>2. told = <<Missed("REGISTRY"), hit>>
    BY <2>1, AppendedToFew
  <2> HIDE DEF told
  <2>3. Len(told) = 2 /\ told[1] = Missed("REGISTRY") /\ told[2] = hit /\ told # <<>>
    BY <2>2
  <2>4. \A i \in 1..(Len(told) - 1) : i = 1
    BY <2>3
  <2>5. Audited(told, c)
    BY <1>1, <1>2, <2>3, <2>4 DEF Audited, Missed
  <2>6. QED
    BY <2>5 DEF told, hit
<1>5. CASE from = "VALIDATED_JIT"
  <2>1. asked = <<Missed("REGISTRY"), Missed("TEMPLATE")>>
    BY <1>5
  <2>2. told = <<Missed("REGISTRY"), Missed("TEMPLATE"), hit>>
    BY <2>1, AppendedToFew
  <2> HIDE DEF told
  <2>3. Len(told) = 3 /\ told[1] = Missed("REGISTRY") /\ told[2] = Missed("TEMPLATE")
        /\ told[3] = hit /\ told # <<>>
    BY <2>2
  <2>4. \A i \in 1..(Len(told) - 1) : i = 1 \/ i = 2
    BY <2>3
  <2>5. Audited(told, c)
    BY <1>1, <1>2, <2>3, <2>4 DEF Audited, Missed
  <2>6. QED
    BY <2>5 DEF told, hit
<1>6. QED
  BY <1>3, <1>4, <1>5

LEMMA FallKeeps ==
    ASSUME FallInv, [VerifierNext]_verifierVars
    PROVE  FallInv'
<1>1. CASE Stage \/ UNCHANGED verifierVars
  <2>1. UNCHANGED <<proposals, contract, freeze, attempts>>
    BY <1>1 DEF Stage, RejectContract, _validate_intake_binding, load_trace_directory,
       assemble_contract_g1_observations, SelectivePhase5, CriterionCheckerRegistry,
       replay_event_trace, StageOnly, verifierVars, selection
  <2>2. Stage => pc \notin Asking /\ pc' \in {"load", "look", "check", "replay", "done"}
    BY DEF Stage, RejectContract, _validate_intake_binding, load_trace_directory,
       assemble_contract_g1_observations, SelectivePhase5, CriterionCheckerRegistry,
       replay_event_trace, FailOrRaise, Fail, Asking
  <2>3. UNCHANGED verifierVars => pc' = pc /\ offer' = offer
    BY DEF verifierVars, selection
  <2>4. QED
    BY <1>1, <2>1, <2>2, <2>3 DEF FallInv, Asking, MaxProposals
<1>2. ASSUME NEW c, NEW from \in {"REGISTRY", "TEMPLATE", "VALIDATED_JIT"}, c.source = from,
             pc = IF from = "REGISTRY" THEN "registry" ELSE IF from = "TEMPLATE" THEN "template"
                  ELSE "jit",
             Select(from, c), Routing
      PROVE  FallInv'
  <2>1. attempts = IF from = "REGISTRY" THEN <<>>
                   ELSE IF from = "TEMPLATE" THEN <<Missed("REGISTRY")>>
                   ELSE <<Missed("REGISTRY"), Missed("TEMPLATE")>>
    BY <1>2 DEF FallInv
  <2>2. Audited(Append(attempts, [source |-> from, decision |-> "SELECTED"]), c)
    BY <1>2, <2>1, SelectIsAudited
  <2>3. /\ attempts' = Append(attempts, [source |-> from, decision |-> "SELECTED"])
        /\ contract' = c /\ pc' \in {"write", "routed"} /\ proposals' = 0 /\ freeze' = freeze
    BY <1>2 DEF Select, Attempted, Routing
  <2>4. Audited(attempts', contract')
    BY <2>2, <2>3
  <2>5. QED
    BY <2>3, <2>4 DEF FallInv, Asking
<1>3. ASSUME NEW from, NEW decision, pc \in Asking, Reject(from, decision), Routing
      PROVE  FallInv'
  BY <1>3 DEF Reject, Routing, FallInv, Asking
<1>4. ASSUME NEW from, NEW next,
             (from = "REGISTRY" /\ pc = "registry" /\ next = "template")
               \/ (from = "TEMPLATE" /\ pc = "template" /\ next = "jit"),
             Miss(from, next), Routing
      PROVE  FallInv'
  <2>1. /\ attempts' = Append(attempts, Missed(from)) /\ pc' = next
        /\ UNCHANGED <<offer, proposals, contract, freeze>>
    BY <1>4 DEF Miss, Attempted, Missed, Routing
  <2>2. pc # "jit" /\ proposals = 0 /\ contract = NoContract
    BY <1>4 DEF FallInv, Asking
  <2>3. IF next = "template" THEN attempts' = <<Missed("REGISTRY")>>
        ELSE attempts' = <<Missed("REGISTRY"), Missed("TEMPLATE")>>
    BY <1>4, <2>1, AppendedToFew DEF FallInv
  <2>4. QED
    BY <1>4, <2>1, <2>2, <2>3 DEF FallInv, Asking
<1>5. \A c : /\ c \in RegistryContracts => c.source = "REGISTRY"
             /\ c = TemplateContract => c.source = "TEMPLATE"
             /\ c \in JitContracts => c.source = "VALIDATED_JIT"
  BY DEF RegistryContracts, TemplateContract, JitContracts, Contract
<1>6. CASE AskRegistry
  BY <1>2, <1>3, <1>4, <1>5, <1>6 DEF AskRegistry, Asking
<1>7. CASE AskTemplate
  BY <1>2, <1>3, <1>4, <1>5, <1>7 DEF AskTemplate, Asking
<1>8. CASE JitUnavailable
  BY <1>3, <1>8 DEF JitUnavailable, Asking
<1>9. CASE compile_jit_contract
  <2>1. pc = "jit" /\ Routing
    BY <1>9 DEF compile_jit_contract
  <2>2. CASE \E c \in JitContracts : Select("VALIDATED_JIT", c)
    BY <1>2, <1>5, <2>1, <2>2
  <2>3. CASE Reject("VALIDATED_JIT", "REJECTED")
    BY <1>3, <2>1, <2>3 DEF Asking
  <2>4. CASE /\ proposals + 1 < MaxProposals /\ proposals' = proposals + 1
             /\ UNCHANGED <<pc, offer, attempts, contract>>
    BY <2>1, <2>4 DEF FallInv, Routing, MaxProposals, Asking
  <2>5. QED
    BY <1>9, <2>2, <2>3, <2>4 DEF compile_jit_contract
<1>10. CASE _pre_run_contract_freeze \/ BeginVerification
  BY <1>10 DEF _pre_run_contract_freeze, BeginVerification, Begin, FallInv, Asking
<1>11. CASE write_contract_freeze
  BY <1>11 DEF write_contract_freeze, FallInv, Asking, NoFreeze
<1>12. CASE routed_contract_from_freeze
  BY <1>12 DEF routed_contract_from_freeze, FallInv, Asking
<1>13. QED
  BY <1>1, <1>6, <1>7, <1>8, <1>9, <1>10, <1>11, <1>12 DEF VerifierNext, SelectionStep, route_contract

\* The first source that has a contract gives it, a broken one is never skipped, and a
\* model proposes only when the others have none (contract_router.py:282-571).
THEOREM SelectionTheorem == VerifierSpec => []SelectionFallsThrough
<1>1. VerifierInit => FallInv
  BY DEF VerifierInit, SelectionInit, FallInv, Asking, NoFreeze
<1>2. FallInv /\ [VerifierNext]_verifierVars => FallInv'
  BY FallKeeps
<1>3. FallInv => SelectionFallsThrough
  <2> SUFFICES ASSUME FallInv PROVE SelectionFallsThrough
    OBVIOUS
  <2>1. ASSUME proposals > 0
        PROVE  /\ proposals < MaxProposals /\ Len(attempts) = 2
               /\ \A i \in 1..2 : attempts[i].decision = "MISS"
    <3>1. attempts = <<Missed("REGISTRY"), Missed("TEMPLATE")>> /\ proposals < MaxProposals
      BY <2>1 DEF FallInv
    <3>2. Len(attempts) = 2 /\ attempts[1] = Missed("REGISTRY") /\ attempts[2] = Missed("TEMPLATE")
      BY <3>1
    <3>3. \A i \in 1..2 : i = 1 \/ i = 2
      OBVIOUS
    <3>4. QED
      BY <3>1, <3>2, <3>3 DEF Missed
  <2>2. QED
    BY <2>1 DEF FallInv, SelectionFallsThrough
<1>4. QED
  BY <1>1, <1>2, <1>3, PTL DEF VerifierSpec

-----------------------------------------------------------------------------
(* Sources of a trace.                                                     *)

Parent(provenance, t) == IF t \in DOMAIN provenance THEN provenance[t].parent ELSE NoParent

\* One generation further back.
Further(provenance, ids) == ids \cup ({Parent(provenance, t) : t \in ids} \ {NoParent})

\* The first generations back from ids, up to the n-th.
Generations(provenance, ids, g, n) ==
    /\ DOMAIN g = 0..n
    /\ \A k \in 0..n : g[k] = IF k = 0 THEN ids ELSE Further(provenance, g[k - 1])

\* There are such generations.
LEMMA GenerationsExist ==
    ASSUME NEW provenance, NEW ids, NEW n \in Nat
    PROVE  \E g : Generations(provenance, ids, g, n)
<1> DEFINE Bad == {m \in Nat : ~\E g : Generations(provenance, ids, g, m)}
<1>1. Bad = {}
  <2> SUFFICES ASSUME Bad # {} PROVE FALSE
    OBVIOUS
  <2>1. PICK m \in Bad : \A j \in Bad : m <= j
    <3>1. Bad \in SUBSET Nat
      OBVIOUS
    <3> HIDE DEF Bad
    <3> QED BY <3>1, LeastNumber
  <2>2. m # 0
    <3>1. Generations(provenance, ids, [k \in 0..0 |-> ids], 0)
      BY DEF Generations
    <3> QED BY <2>1, <3>1
  <2>3. m \in Nat /\ m - 1 \in Nat /\ m - 1 \notin Bad
    <3>1. m \in Nat
      BY <2>1
    <3> HIDE DEF Bad
    <3>2. m - 1 \in Nat /\ ~(m <= m - 1)
      BY <2>2, <3>1
    <3>3. QED
      BY <2>1, <3>1, <3>2
  <2>4. PICK g : Generations(provenance, ids, g, m - 1)
    BY <2>3
  <2> DEFINE h == [k \in 0..m |-> IF k = m THEN Further(provenance, g[m - 1]) ELSE g[k]]
  <2>5. \A k \in 0..m : h[k] = IF k = 0 THEN ids ELSE Further(provenance, h[k - 1])
    <3> SUFFICES ASSUME NEW k \in 0..m
                 PROVE  h[k] = IF k = 0 THEN ids ELSE Further(provenance, h[k - 1])
      OBVIOUS
    <3>0. k \in Nat /\ m \in Nat
      BY <2>3
    <3>1. CASE k = m
      <4>1. m - 1 \in 0..m /\ m - 1 # m
        BY <2>2, <2>3
      <4>2. h[m - 1] = g[m - 1] /\ h[m] = Further(provenance, g[m - 1])
        BY <2>3, <4>1
      <4>3. QED
        BY <2>2, <3>1, <4>2
    <3>2. CASE k # m
      <4>1. k \in 0..m - 1 /\ h[k] = g[k]
        BY <3>0, <3>2
      <4>2. k # 0 => k - 1 \in 0..m /\ k - 1 # m /\ h[k - 1] = g[k - 1]
        BY <3>0
      <4>3. g[k] = IF k = 0 THEN ids ELSE Further(provenance, g[k - 1])
        BY <2>4, <4>1 DEF Generations
      <4>4. QED
        BY <4>1, <4>2, <4>3
    <3>3. QED
      BY <3>1, <3>2
  <2>6. Generations(provenance, ids, h, m)
    BY <2>5 DEF Generations
  <2>7. QED
    BY <2>1, <2>6
<1>2. QED
  BY <1>1

\* WithAncestors is the last generation.
LEMMA AncestorsAreGenerations ==
    ASSUME NEW provenance, NEW ids, IsFiniteSet(DOMAIN provenance)
    PROVE  \E g : /\ Generations(provenance, ids, g, Cardinality(DOMAIN provenance))
                  /\ WithAncestors(provenance, ids) = g[Cardinality(DOMAIN provenance)]
<1> DEFINE n == Cardinality(DOMAIN provenance)
           Def(f) == f = [k \in 0..n |-> IF k = 0 THEN ids
                            ELSE f[k - 1] \cup ({IF t \in DOMAIN provenance
                                                 THEN provenance[t].parent ELSE NoParent : t \in f[k - 1]}
                                                    \ {NoParent})]
           up == CHOOSE f : Def(f)
<1>1. n \in Nat
  BY FS_CardinalityType
<1>2. WithAncestors(provenance, ids) = up[n]
  BY DEF WithAncestors
<1> HIDE DEF n
<1>3. PICK g : Generations(provenance, ids, g, n)
  BY <1>1, GenerationsExist
<1> DEFINE r == [k \in 0..n |-> g[k]]
<1>5. Def(r)
  <2>1. \A k \in 0..n : k # 0 => k - 1 \in 0..n
    BY <1>1
  <2>2. \A k \in 0..n : r[k] = IF k = 0 THEN ids
                            ELSE r[k - 1] \cup ({IF t \in DOMAIN provenance
                                                 THEN provenance[t].parent ELSE NoParent : t \in r[k - 1]}
                                                    \ {NoParent})
    BY <1>3, <2>1 DEF Generations, Further, Parent
  <2>3. QED
    BY <2>2
<1>6. Def(up)
  <2> HIDE DEF Def
  <2> QED BY <1>5
<1>7. Generations(provenance, ids, up, n)
  <2>1. DOMAIN up = 0..n
    <3> HIDE DEF up
    <3> QED BY <1>6
  <2>2. \A k \in 0..n : up[k] = IF k = 0 THEN ids
                            ELSE up[k - 1] \cup ({IF t \in DOMAIN provenance
                                                 THEN provenance[t].parent ELSE NoParent : t \in up[k - 1]}
                                                    \ {NoParent})
    <3> HIDE DEF up
    <3> QED BY <1>6
  <2> HIDE DEF up
  <2>3. QED
    BY <2>1, <2>2 DEF Generations, Further, Parent
<1>8. QED
  BY <1>2, <1>7 DEF n

\* The sources of some are among the sources of more.
LEMMA AncestorsGrow ==
    ASSUME NEW provenance, NEW some, NEW more, some \subseteq more, IsFiniteSet(DOMAIN provenance)
    PROVE  WithAncestors(provenance, some) \subseteq WithAncestors(provenance, more)
<1> DEFINE n == Cardinality(DOMAIN provenance)
<1>1. n \in Nat
  BY FS_CardinalityType
<1>2. PICK f : Generations(provenance, some, f, n) /\ WithAncestors(provenance, some) = f[n]
  BY AncestorsAreGenerations
<1>3. PICK g : Generations(provenance, more, g, n) /\ WithAncestors(provenance, more) = g[n]
  BY AncestorsAreGenerations
<1> HIDE DEF n
<1> DEFINE Bad == {k \in 0..n : ~(f[k] \subseteq g[k])}
<1>4. Bad = {}
  <2> SUFFICES ASSUME Bad # {} PROVE FALSE
    OBVIOUS
  <2>1. PICK m \in Bad : \A j \in Bad : m <= j
    <3>1. Bad \in SUBSET Nat
      BY <1>1
    <3> HIDE DEF Bad
    <3> QED BY <3>1, LeastNumber
  <2>2. m \in 0..n /\ ~(f[m] \subseteq g[m]) /\ m \in Nat
    BY <2>1
  <2>3. m # 0
    BY <1>2, <1>3, <2>2 DEF Generations
  <2>4. m - 1 \in 0..n /\ ~(m <= m - 1)
    BY <1>1, <2>2, <2>3
  <2>5. f[m - 1] \subseteq g[m - 1]
    <3>1. m - 1 \notin Bad
      <4> HIDE DEF Bad
      <4> QED BY <2>1, <2>4
    <3>2. QED
      BY <2>4, <3>1
  <2>6. f[m] = Further(provenance, f[m - 1]) /\ g[m] = Further(provenance, g[m - 1])
    BY <1>2, <1>3, <2>2, <2>3 DEF Generations
  <2>7. f[m] \subseteq g[m]
    BY <2>5, <2>6 DEF Further
  <2>8. QED
    BY <2>2, <2>7
<1>5. n \in 0..n
  BY <1>1
<1>6. QED
  BY <1>2, <1>3, <1>4, <1>5

-----------------------------------------------------------------------------
(* The development plan.                                                   *)

\* What was planned is what the repository and the labels of that day call for.
PlanInv ==
    plan # NoPlan =>
        /\ plan.jobs = PlannedJobs(w, Eligible(w, plan.heldout))
        /\ AuditsStand(w, Eligible(w, plan.heldout))
        /\ plan.shards = _build_shards(plan.jobs)

RepositoryInv == w \in Repositories

\* A frame that is selected has a screenshot.
LEMMA SelectedFrameIsShown ==
    ASSUME NEW r, NEW eligible, AuditsStand(r, eligible), NEW t \in eligible,
           NEW at \in ExternalOccurrences(r.dag), SelectedFrame(r, t, at[1], at[2]) # 0
    PROVE  SelectedFrame(r, t, at[1], at[2]) \in ScreenshotsOf(r.frames[t])
<1>1. CASE AuditedFrame(r, t, at[1], at[2]) # 0
  BY <1>1 DEF AuditsStand, SelectedFrame
<1>2. CASE AuditedFrame(r, t, at[1], at[2]) = 0
  <2>1. SelectedFrame(r, t, at[1], at[2]) = _resolve_candidate(r, t, at[1], at[2])
    BY <1>2 DEF SelectedFrame
  <2>2. QED
    BY <2>1 DEF _resolve_candidate
<1>3. QED
  BY <1>1, <1>2

\* The plan and the repository are only made once.
LEMMA PlanKeeps ==
    ASSUME RepositoryInv, PlanInv, [PipelineNext]_pipelineVars
    PROVE  RepositoryInv' /\ PlanInv'
<1>1. CASE Plan
  BY <1>1 DEF Plan, PlanInv, RepositoryInv
<1>2. CASE w' = w /\ plan' = plan
  BY <1>2 DEF PlanInv, RepositoryInv
<1>3. QED
  BY <1>1, <1>2 DEF PipelineNext, pipelineVars, HoldOut, WriteReviewedDraft, WriteInventory,
     StartRecording, RecorderStep, TakeJob, RequestAnswered, RequestFails, WriteCache, WriteReceipt,
     Crash, run_batch_replay

LEMMA PlanInvariant == PipelineSpec => [](RepositoryInv /\ PlanInv)
<1>1. PipelineInit => RepositoryInv /\ PlanInv
  BY DEF PipelineInit, RepositoryInv, PlanInv
<1>2. RepositoryInv /\ PlanInv /\ [PipelineNext]_pipelineVars => (RepositoryInv /\ PlanInv)'
  BY PlanKeeps
<1>3. QED
  BY <1>1, <1>2, PTL DEF PipelineSpec

\* Nothing that shares a source with a held-out trace is shown to a paid model because
\* of the plan.
THEOREM HeldoutTheorem == PipelineSpec => []HeldoutImagesStayOut
<1>1. RepositoryInv /\ PlanInv => HeldoutImagesStayOut
  <2> SUFFICES ASSUME RepositoryInv, PlanInv, plan # NoPlan, NEW job \in plan.jobs
               PROVE  \E t \in DOMAIN w.frames :
                        /\ job.image \in Screens(w, {t}) /\ Development(w.provenance, t)
                        /\ \A h \in plan.heldout :
                            WithAncestors(w.provenance, {t}) \cap WithAncestors(w.provenance, {h}) = {}
    BY DEF HeldoutImagesStayOut
  <2> DEFINE eligible == Eligible(w, plan.heldout)
  <2>1. job \in PlannedJobs(w, eligible) /\ AuditsStand(w, eligible)
    BY DEF PlanInv
  <2>2. PICK t \in eligible, at \in ExternalOccurrences(w.dag) :
            /\ SelectedFrame(w, t, at[1], at[2]) # 0
            /\ job = EvidenceCacheKey(at[2], w.frames[t][SelectedFrame(w, t, at[1], at[2])].image)
    <3> HIDE DEF eligible
    <3> QED BY <2>1 DEF PlannedJobs
  <2>3. SelectedFrame(w, t, at[1], at[2]) \in ScreenshotsOf(w.frames[t])
    <3> HIDE DEF eligible
    <3> QED BY <2>1, <2>2, SelectedFrameIsShown
  <2>4. job.image \in Screens(w, {t})
    BY <2>2, <2>3 DEF EvidenceCacheKey, Screens
  <2>5. /\ t \in DOMAIN w.frames /\ Development(w.provenance, t)
        /\ WithAncestors(w.provenance, {t}) \cap WithAncestors(w.provenance, plan.heldout) = {}
    BY <2>2 DEF Eligible, _expand_heldout_ancestors
  <2>6. IsFiniteSet(DOMAIN w.provenance)
    BY RepositoriesAssumption DEF RepositoryInv
  <2>7. \A h \in plan.heldout : WithAncestors(w.provenance, {h}) \subseteq WithAncestors(w.provenance, plan.heldout)
    BY <2>6, AncestorsGrow
  <2>8. QED
    BY <2>4, <2>5, <2>7
<1>2. QED
  BY <1>1, PlanInvariant, PTL

-----------------------------------------------------------------------------
(* Requests.                                                               *)

\* The requests of the first items, up to the n-th.
Totals(items, g, n) ==
    /\ DOMAIN g = 0..n
    /\ \A k \in 0..n : g[k] = IF k = 0 THEN 0 ELSE g[k - 1] + items[k].attempts

\* There are such totals.
LEMMA TotalsExist ==
    ASSUME NEW items, NEW n \in Nat
    PROVE  \E g : Totals(items, g, n)
<1> DEFINE Bad == {m \in Nat : ~\E g : Totals(items, g, m)}
<1>1. Bad = {}
  <2> SUFFICES ASSUME Bad # {} PROVE FALSE
    OBVIOUS
  <2>1. PICK m \in Bad : \A j \in Bad : m <= j
    <3>1. Bad \in SUBSET Nat
      OBVIOUS
    <3> HIDE DEF Bad
    <3> QED BY <3>1, LeastNumber
  <2>2. m # 0
    <3>1. Totals(items, [k \in 0..0 |-> 0], 0)
      BY DEF Totals
    <3> QED BY <2>1, <3>1
  <2>3. m \in Nat /\ m - 1 \in Nat /\ m - 1 \notin Bad
    <3>1. m \in Nat
      BY <2>1
    <3> HIDE DEF Bad
    <3>2. m - 1 \in Nat /\ ~(m <= m - 1)
      BY <2>2, <3>1
    <3>3. QED
      BY <2>1, <3>1, <3>2
  <2>4. PICK g : Totals(items, g, m - 1)
    BY <2>3
  <2> DEFINE h == [k \in 0..m |-> IF k = m THEN g[m - 1] + items[m].attempts ELSE g[k]]
  <2>5. \A k \in 0..m : h[k] = IF k = 0 THEN 0 ELSE h[k - 1] + items[k].attempts
    <3> SUFFICES ASSUME NEW k \in 0..m
                 PROVE  h[k] = IF k = 0 THEN 0 ELSE h[k - 1] + items[k].attempts
      OBVIOUS
    <3>0. k \in Nat /\ m \in Nat
      BY <2>3
    <3>1. CASE k = m
      <4>1. m - 1 \in 0..m /\ m - 1 # m
        BY <2>2, <2>3
      <4>2. h[m - 1] = g[m - 1] /\ h[m] = g[m - 1] + items[m].attempts
        BY <2>3, <4>1
      <4>3. QED
        BY <2>2, <3>1, <4>2
    <3>2. CASE k # m
      <4>1. k \in 0..m - 1 /\ h[k] = g[k]
        BY <3>0, <3>2
      <4>2. k # 0 => k - 1 \in 0..m /\ k - 1 # m /\ h[k - 1] = g[k - 1]
        BY <3>0
      <4>3. g[k] = IF k = 0 THEN 0 ELSE g[k - 1] + items[k].attempts
        BY <2>4, <4>1 DEF Totals
      <4>4. QED
        BY <4>1, <4>2, <4>3
    <3>3. QED
      BY <3>1, <3>2
  <2>6. Totals(items, h, m)
    BY <2>5 DEF Totals
  <2>7. QED
    BY <2>1, <2>6
<1>2. QED
  BY <1>1

\* RequestsOf is the last total.
LEMMA RequestsAreTotals ==
    ASSUME NEW items, Len(items) \in Nat
    PROVE  \E g : Totals(items, g, Len(items)) /\ RequestsOf(items) = g[Len(items)]
<1> DEFINE n == Len(items)
           Def(f) == f = [k \in 0..n |-> IF k = 0 THEN 0 ELSE f[k - 1] + items[k].attempts]
           up == CHOOSE f : Def(f)
<1>1. RequestsOf(items) = up[n]
  BY DEF RequestsOf
<1>2. PICK g : Totals(items, g, n)
  BY TotalsExist
<1> DEFINE r == [k \in 0..n |-> g[k]]
<1>3. Def(r)
  <2>1. \A k \in 0..n : k # 0 => k - 1 \in 0..n
    OBVIOUS
  <2>2. \A k \in 0..n : r[k] = IF k = 0 THEN 0 ELSE r[k - 1] + items[k].attempts
    BY <1>2, <2>1 DEF Totals
  <2>3. QED
    BY <2>2
<1>4. Def(up)
  <2> HIDE DEF Def
  <2> QED BY <1>3
<1>5. Totals(items, up, n)
  <2> HIDE DEF up
  <2> QED BY <1>4 DEF Totals
<1>6. QED
  BY <1>1, <1>5

\* Requests of one item more.
LEMMA RequestsOfAppend ==
    ASSUME NEW T, \A e \in T : e.attempts \in Nat, NEW items \in Seq(T), NEW item \in T
    PROVE  /\ RequestsOf(items) \in Nat
           /\ RequestsOf(Append(items, item)) = RequestsOf(items) + item.attempts
<1> DEFINE n == Len(items)
           longer == Append(items, item)
<1>1. n \in Nat /\ Len(longer) = n + 1 /\ longer[n + 1] = item /\ \A k \in 1..n : longer[k] = items[k] /\ items[k] \in T
  OBVIOUS
<1>2. PICK f : Totals(items, f, n) /\ RequestsOf(items) = f[n]
  BY <1>1, RequestsAreTotals
<1>3. PICK g : Totals(longer, g, n + 1) /\ RequestsOf(longer) = g[n + 1]
  <2> HIDE DEF n, longer
  <2>1. Len(longer) \in Nat
    BY <1>1
  <2>2. QED BY <1>1, <2>1, RequestsAreTotals
<1> HIDE DEF n, longer
<1> DEFINE Bad == {k \in 0..n : ~(f[k] = g[k] /\ f[k] \in Nat)}
<1>4. Bad = {}
  <2> SUFFICES ASSUME Bad # {} PROVE FALSE
    OBVIOUS
  <2>1. PICK m \in Bad : \A j \in Bad : m <= j
    <3>1. Bad \in SUBSET Nat
      BY <1>1
    <3> HIDE DEF Bad
    <3> QED BY <3>1, LeastNumber
  <2>2. m \in 0..n /\ ~(f[m] = g[m] /\ f[m] \in Nat) /\ m \in Nat /\ m \in 0..n + 1
    BY <1>1, <2>1
  <2>3. m # 0
    BY <1>2, <1>3, <2>2 DEF Totals
  <2>4. m - 1 \in 0..n /\ ~(m <= m - 1) /\ m \in 1..n
    BY <1>1, <2>2, <2>3
  <2>5. f[m - 1] = g[m - 1] /\ f[m - 1] \in Nat
    <3>1. m - 1 \notin Bad
      <4> HIDE DEF Bad
      <4> QED BY <2>1, <2>4
    <3>2. QED
      BY <2>4, <3>1
  <2>6. f[m] = f[m - 1] + items[m].attempts /\ g[m] = g[m - 1] + longer[m].attempts
    BY <1>2, <1>3, <2>2, <2>3 DEF Totals
  <2>7. items[m].attempts \in Nat /\ longer[m] = items[m]
    BY <1>1, <2>4
  <2>8. QED
    BY <2>2, <2>5, <2>6, <2>7
<1>5. n \in 0..n /\ n + 1 \in 0..n + 1 /\ n + 1 # 0 /\ (n + 1) - 1 = n
  BY <1>1
<1>6. g[n + 1] = g[n] + item.attempts
  BY <1>1, <1>3, <1>5 DEF Totals
<1>7. QED
  BY <1>2, <1>3, <1>4, <1>5, <1>6 DEF longer

LEMMA NothingRequested == RequestsOf(<<>>) = 0
<1>1. PICK g : Totals(<<>>, g, 0) /\ RequestsOf(<<>>) = g[0]
  BY RequestsAreTotals
<1>2. QED
  BY <1>1 DEF Totals

-----------------------------------------------------------------------------
(* Manifests: each job once.                                               *)

\* A manifest asks something, and nothing twice.
ListsOnce(job_list) ==
    /\ job_list \in Seq(Range(job_list)) /\ Len(job_list) > 0
    /\ IsInjective(job_list)

\* What a function makes of a finite set is finite.
LEMMA ImageIsFinite ==
    ASSUME NEW f, IsFiniteSet(DOMAIN f)
    PROVE  IsFiniteSet({f[x] : x \in DOMAIN f})
<1> DEFINE T == {f[x] : x \in DOMAIN f}
           g == [x \in DOMAIN f |-> f[x]]
<1>1. g \in Surjection(DOMAIN f, T)
  BY DEF Surjection
<1>2. QED
  BY <1>1, FS_Surjection

\* A sequence that is not empty and names nothing twice is a manifest.
LEMMA OnceListed ==
    ASSUME NEW S, NEW s \in Seq(S), Len(s) > 0, IsInjective(s)
    PROVE  ListsOnce(s)
<1>1. Len(s) \in Nat /\ s \in [1..Len(s) -> Range(s)]
  BY DEF Range
<1>2. \A R, n : n \in Nat /\ s \in [1..n -> R] => s \in Seq(R)
  OBVIOUS
<1>3. QED
  BY <1>1, <1>2 DEF ListsOnce

\* A piece of a list is a manifest.
LEMMA PieceListed ==
    ASSUME NEW S, NEW s \in Seq(S), IsInjective(s),
           NEW a \in 1..Len(s), NEW b \in a..Len(s)
    PROVE  ListsOnce(SubSeq(s, a, b))
<1> DEFINE piece == SubSeq(s, a, b)
<1>1. a \in Nat /\ b \in Nat /\ a <= b /\ b <= Len(s) /\ 1 <= a
  OBVIOUS
<1>2. piece \in Seq(S) /\ Len(piece) = b - a + 1 /\ \A k \in 1..b - a + 1 : piece[k] = s[a + k - 1]
  BY <1>1
<1> HIDE DEF piece
<1>3. \A j, k \in DOMAIN piece : piece[j] = piece[k] => j = k
  <2> SUFFICES ASSUME NEW j \in DOMAIN piece, NEW k \in DOMAIN piece, piece[j] = piece[k]
               PROVE  j = k
    OBVIOUS
  <2>1. j \in 1..b - a + 1 /\ k \in 1..b - a + 1
    BY <1>1, <1>2
  <2>2. a + j - 1 \in DOMAIN s /\ a + k - 1 \in DOMAIN s /\ s[a + j - 1] = s[a + k - 1]
    BY <1>1, <1>2, <2>1
  <2>3. a + j - 1 = a + k - 1
    BY <2>2 DEF IsInjective
  <2>4. QED
    BY <1>1, <2>1, <2>3
<1>4. QED
  <2>1. IsInjective(piece) /\ Len(piece) > 0
    BY <1>1, <1>2, <1>3 DEF IsInjective
  <2>2. QED
    BY <1>2, <2>1, OnceListed DEF piece

\* Every draft is a manifest.
LEMMA ShardsAreListed ==
    ASSUME NEW jobs, IsFiniteSet(jobs), NEW shard \in _build_shards(jobs)
    PROVE  ListsOnce(shard)
<1> DEFINE OfKind(kind) == {j \in jobs : j.kind = kind}
           Pieces(list) == {SubSeq(list, k, Min({k + MaxJobsPerShard - 1, Len(list)})) :
                                k \in {j \in DOMAIN list : (j - 1) % MaxJobsPerShard = 0}}
<1>0. PICK kind \in {"ocr", "llm"} : shard \in Pieces(SetToSeq(OfKind(kind)))
  BY DEF _build_shards
<1> DEFINE S == OfKind(kind)
           ordered == SetToSeq(S)
<1>1. PICK first \in DOMAIN ordered : shard = SubSeq(ordered, first, Min({first + MaxJobsPerShard - 1, Len(ordered)}))
  <2> HIDE DEF S
  <2>1. shard \in Pieces(ordered)
    BY <1>0 DEF S
  <2> HIDE DEF ordered
  <2> QED BY <2>1
<1> DEFINE last == Min({first + MaxJobsPerShard - 1, Len(ordered)})
<1>2. S \in SUBSET jobs
  OBVIOUS
<1>3. IsFiniteSet(S)
  <2> HIDE DEF S
  <2> QED BY <1>2, FS_Subset
<1>4. ordered \in Seq(S) /\ IsInjective(ordered)
  <2> HIDE DEF S
  <2> QED BY <1>3, SetToSeqLists
<1>5. first \in DOMAIN ordered /\ shard = SubSeq(ordered, first, last)
  BY <1>1
<1> HIDE DEF S, ordered, last
<1>6. Len(ordered) \in Nat /\ first \in 1..Len(ordered)
  BY <1>4, <1>5
<1>7. last \in first..Len(ordered)
  <2>1. MaxJobsPerShard \in Nat /\ MaxJobsPerShard >= 1
    BY LimitsAssumption
  <2>2. \A x, y \in Nat : Min({x, y}) = IF x <= y THEN x ELSE y
    BY DEF Min
  <2>3. first + MaxJobsPerShard - 1 \in Nat /\ first <= first + MaxJobsPerShard - 1
    BY <1>6, <2>1
  <2>4. QED
    BY <1>6, <2>2, <2>3 DEF last
<1>8. QED
  BY <1>4, <1>5, <1>6, <1>7, PieceListed

\* What the repository's sets of jobs are made of is finite.
LEMMA PlannedIsFinite ==
    ASSUME NEW r \in Repositories, NEW eligible \in SUBSET DOMAIN r.frames
    PROVE  IsFiniteSet(PlannedJobs(r, eligible))
<1> DEFINE pairs == {pair \in eligible \X ExternalOccurrences(r.dag) :
                        SelectedFrame(r, pair[1], pair[2][1], pair[2][2]) # 0}
           f == [at \in pairs |-> EvidenceCacheKey(at[2][2],
                    r.frames[at[1]][SelectedFrame(r, at[1], at[2][1], at[2][2])].image)]
<1>1. IsFiniteSet(eligible) /\ IsFiniteSet(ExternalOccurrences(r.dag))
  BY RepositoriesAssumption, FS_Subset
<1>2. IsFiniteSet(pairs)
  <2>1. IsFiniteSet(eligible \X ExternalOccurrences(r.dag))
    BY <1>1, FS_Product
  <2>2. pairs \in SUBSET (eligible \X ExternalOccurrences(r.dag))
    OBVIOUS
  <2> HIDE DEF pairs
  <2> QED BY <2>1, <2>2, FS_Subset
<1>3. DOMAIN f = pairs /\ PlannedJobs(r, eligible) = {f[x] : x \in pairs}
  BY DEF PlannedJobs
<1> HIDE DEF f, pairs
<1>4. QED
  BY <1>2, <1>3, ImageIsFinite

LEMMA InventoryIsFinite ==
    ASSUME NEW r \in Repositories
    PROVE  IsFiniteSet({EvidenceCacheKey(pair[1][2], pair[2]) :
                            pair \in ExternalOccurrences(r.dag) \X Screens(r, r.batch)})
<1> DEFINE shots == [t \in r.batch |-> {r.frames[t][f].image : f \in ScreenshotsOf(r.frames[t])}]
           pairs == ExternalOccurrences(r.dag) \X Screens(r, r.batch)
           key == [pair \in pairs |-> EvidenceCacheKey(pair[1][2], pair[2])]
<1>1. IsFiniteSet(r.batch) /\ IsFiniteSet(ExternalOccurrences(r.dag)) /\ r.batch \subseteq DOMAIN r.frames
  BY RepositoriesAssumption, FS_Subset
<1>2. \A t \in r.batch : IsFiniteSet(shots[t])
  <2> SUFFICES ASSUME NEW t \in r.batch PROVE IsFiniteSet(shots[t])
    OBVIOUS
  <2> DEFINE image == [f \in ScreenshotsOf(r.frames[t]) |-> r.frames[t][f].image]
  <2>1. IsFiniteSet(DOMAIN r.frames[t])
    <3>1. Len(r.frames[t]) \in Nat /\ DOMAIN r.frames[t] = 1..Len(r.frames[t])
      BY <1>1, RepositoriesAssumption
    <3>2. QED
      BY <3>1, FS_Interval
  <2>2. ScreenshotsOf(r.frames[t]) \in SUBSET DOMAIN r.frames[t]
    BY DEF ScreenshotsOf
  <2>3. IsFiniteSet(ScreenshotsOf(r.frames[t]))
    BY <2>1, <2>2, FS_Subset
  <2>4. DOMAIN image = ScreenshotsOf(r.frames[t]) /\ shots[t] = {image[f] : f \in DOMAIN image}
    OBVIOUS
  <2> HIDE DEF image, shots
  <2>5. QED
    BY <2>3, <2>4, ImageIsFinite
<1>3. IsFiniteSet(Screens(r, r.batch))
  <2>1. DOMAIN shots = r.batch /\ Screens(r, r.batch) = UNION {shots[t] : t \in DOMAIN shots}
    <3>1. {{r.frames[t][f].image : f \in ScreenshotsOf(r.frames[t])} : t \in r.batch} = {shots[t] : t \in r.batch}
      OBVIOUS
    <3>2. QED
      BY <3>1 DEF Screens
  <2> HIDE DEF shots
  <2>2. IsFiniteSet({shots[t] : t \in DOMAIN shots})
    BY <1>1, <2>1, ImageIsFinite
  <2>3. QED
    BY <1>2, <2>1, <2>2, FS_UNION
<1>4. IsFiniteSet(pairs)
  BY <1>1, <1>3, FS_Product
<1>5. DOMAIN key = pairs /\ {EvidenceCacheKey(pair[1][2], pair[2]) : pair \in pairs} = {key[x] : x \in DOMAIN key}
  OBVIOUS
<1> HIDE DEF key, pairs
<1>6. IsFiniteSet({key[x] : x \in DOMAIN key})
  BY <1>4, <1>5, ImageIsFinite
<1>7. QED
  BY <1>5, <1>6 DEF pairs

\* Both ways to write a manifest list jobs once.
LEMMA InventoryIsListed ==
    ASSUME NEW r \in Repositories, build_exact_inventory(r) # <<>>
    PROVE  ListsOnce(build_exact_inventory(r))
<1> DEFINE S == {EvidenceCacheKey(pair[1][2], pair[2]) :
                    pair \in ExternalOccurrences(r.dag) \X Screens(r, r.batch)}
<1>1. IsFiniteSet(S) /\ build_exact_inventory(r) = SetToSeq(S)
  BY InventoryIsFinite DEF build_exact_inventory
<1> HIDE DEF S
<1>2. SetToSeq(S) \in Seq(S) /\ IsInjective(SetToSeq(S))
  BY <1>1, SetToSeqLists
<1>3. \A s \in Seq(S) : s # <<>> => Len(s) > 0
  OBVIOUS
<1>4. QED
  BY <1>1, <1>2, <1>3, OnceListed

LEMMA DraftsAreListed ==
    ASSUME RepositoryInv, PlanInv, plan # NoPlan, NEW shard \in plan.shards
    PROVE  ListsOnce(shard)
<1>1. IsFiniteSet(plan.jobs)
  <2>1. Eligible(w, plan.heldout) \in SUBSET DOMAIN w.frames
    BY DEF Eligible
  <2>2. QED
    BY <2>1, PlannedIsFinite DEF RepositoryInv, PlanInv
<1>2. QED
  BY <1>1, ShardsAreListed DEF PlanInv

-----------------------------------------------------------------------------
(* The recorder.                                                           *)

\* An item of a session on these jobs.
Items(jobs) ==
    {e \in [key : jobs, status : {"RECORDED", "CACHED", "ERROR"}, attempts : 0..MaxAttempts] :
        (e.status = "CACHED") = (e.attempts = 0)}

SessionsOn(jobs) == [budget : Nat, worst : Nat, items : Seq(Items(jobs))]

\* A session stayed in its budget, and what it has an answer for is kept.
SessionStands(session, kept) ==
    /\ session.worst <= session.budget
    /\ RequestsOf(session.items) <= session.worst
    /\ \A k \in DOMAIN session.items :
        session.items[k].status # "ERROR" => session.items[k].key \in kept

\* A receipt, written or in the making.
Holds(held, job_list, kept) ==
    /\ held = [manifest |-> held.manifest, status |-> held.status, storage |-> held.storage,
                sessions |-> held.sessions, summary |-> held.summary]
    /\ held.manifest = job_list
    /\ held.status \in {"PARTIAL", "COMPLETE"}
    /\ held.sessions \in Seq(SessionsOn(Range(job_list)))
    /\ \A s \in DOMAIN held.sessions : SessionStands(held.sessions[s], kept)

\* The session that is open.
LastSession(held) == held.sessions[Len(held.sessions)]

WithItem(held, item) == [held EXCEPT !.sessions[Len(held.sessions)].items = Append(@, item)]

\* More is kept.
LEMMA HoldsMore ==
    ASSUME NEW held, NEW job_list, NEW kept, NEW more, Holds(held, job_list, kept), kept \subseteq more
    PROVE  Holds(held, job_list, more)
  BY DEF Holds, SessionStands

\* What is appended comes after what was there.
LEMMA AppendedTo ==
    ASSUME NEW S, NEW s \in Seq(S), NEW e \in S
    PROVE  /\ Append(s, e) \in Seq(S) /\ Len(Append(s, e)) = Len(s) + 1 /\ Len(s) \in Nat
           /\ \A k \in DOMAIN Append(s, e) :
                Append(s, e)[k] = e \/ (k \in DOMAIN s /\ Append(s, e)[k] = s[k])
<1>1. /\ Append(s, e) \in Seq(S) /\ Len(Append(s, e)) = Len(s) + 1 /\ Len(s) \in Nat
      /\ DOMAIN s = 1..Len(s) /\ DOMAIN Append(s, e) = 1..Len(s) + 1
      /\ Append(s, e)[Len(s) + 1] = e /\ \A k \in 1..Len(s) : Append(s, e)[k] = s[k]
  OBVIOUS
<1>2. \A k \in DOMAIN Append(s, e) : k = Len(s) + 1 \/ k \in DOMAIN s
  BY <1>1
<1>3. \A k \in DOMAIN Append(s, e) :
                Append(s, e)[k] = e \/ (k \in DOMAIN s /\ Append(s, e)[k] = s[k])
  <2> SUFFICES ASSUME NEW k \in DOMAIN Append(s, e)
               PROVE  Append(s, e)[k] = e \/ (k \in DOMAIN s /\ Append(s, e)[k] = s[k])
    OBVIOUS
  <2>1. CASE k = Len(s) + 1
    BY <1>1, <2>1
  <2>2. CASE k \in DOMAIN s
    BY <1>1, <2>2
  <2>3. QED
    BY <1>2, <2>1, <2>2
<1>4. QED
  BY <1>1, <1>3

\* An item is added to the open session.
LEMMA ItemAdded ==
    ASSUME NEW held, NEW job_list, NEW kept, Holds(held, job_list, kept), Len(held.sessions) > 0,
           NEW item \in Items(Range(job_list)), item.status # "ERROR" => item.key \in kept,
           RequestsOf(LastSession(held).items) + item.attempts <= LastSession(held).worst
    PROVE  /\ Holds(WithItem(held, item), job_list, kept)
           /\ Len(WithItem(held, item).sessions) = Len(held.sessions)
           /\ LastSession(WithItem(held, item)).worst = LastSession(held).worst
           /\ RequestsOf(LastSession(WithItem(held, item)).items) =
                    RequestsOf(LastSession(held).items) + item.attempts
<1> DEFINE n == Len(held.sessions)
           T == SessionsOn(Range(job_list))
           I == Items(Range(job_list))
           last == held.sessions[n]
           longer == Append(last.items, item)
           closed == [budget |-> last.budget, worst |-> last.worst, items |-> longer]
           sessions == [k \in 1..n |-> IF k = n THEN closed ELSE held.sessions[k]]
<1>1. held.sessions \in Seq(T) /\ n \in Nat /\ n \in 1..n
  BY DEF Holds
<1>2. last \in T /\ DOMAIN held.sessions = 1..n
  BY <1>1
<1>3. last.items \in Seq(I) /\ last.budget \in Nat /\ last.worst \in Nat
      /\ last = [budget |-> last.budget, worst |-> last.worst, items |-> last.items]
  <2> HIDE DEF last, I
  <2> QED BY <1>2 DEF SessionsOn, I
<1>4. \A e \in I : e.attempts \in Nat
  BY LimitsAssumption DEF Items
<1>5. RequestsOf(last.items) \in Nat /\ RequestsOf(longer) = RequestsOf(last.items) + item.attempts
  <2> HIDE DEF last, I
  <2> QED BY <1>3, <1>4, RequestsOfAppend DEF I
<1>6. longer \in Seq(I) /\ Len(longer) = Len(last.items) + 1 /\ Len(last.items) \in Nat
      /\ \A k \in DOMAIN longer : longer[k] = item \/ (k \in DOMAIN last.items /\ longer[k] = last.items[k])
  <2>1. item \in I
    OBVIOUS
  <2> HIDE DEF last, I
  <2>2. QED
    BY <1>3, <2>1, AppendedTo
<1>7. WithItem(held, item) = [manifest |-> held.manifest, status |-> held.status,
                              storage |-> held.storage, sessions |-> sessions, summary |-> held.summary]
  <2>1. WithItem(held, item) = [held EXCEPT !.sessions = [held.sessions EXCEPT ![n] = [last EXCEPT !.items = longer]]]
    <3>1. WithItem(held, item) = [held EXCEPT !.sessions[n].items = longer]
      BY DEF WithItem
    <3>2. \A x, k : [held EXCEPT !.sessions[k].items = x]
                    = [held EXCEPT !.sessions = [held.sessions EXCEPT ![k] = [held.sessions[k] EXCEPT !.items = x]]]
      OBVIOUS
    <3> HIDE DEF longer
    <3> QED BY <3>1, <3>2
  <2>2. [last EXCEPT !.items = longer] = closed
    <3> HIDE DEF longer, last
    <3>1. \A a, b, c, d : [[budget |-> a, worst |-> b, items |-> c] EXCEPT !.items = d]
                            = [budget |-> a, worst |-> b, items |-> d]
      OBVIOUS
    <3> QED BY <1>3, <3>1
  <2>3. [held.sessions EXCEPT ![n] = closed] = sessions
    <3> HIDE DEF closed
    <3>1. \A S : \A s \in Seq(S) : \A c : [s EXCEPT ![Len(s)] = c] = [k \in 1..Len(s) |-> IF k = Len(s) THEN c ELSE s[k]]
      OBVIOUS
    <3>2. QED
      BY <1>1, <3>1
  <2>5. \A a, b, c, d, e, x : [[manifest |-> a, status |-> b, storage |-> c, sessions |-> d, summary |-> e]
                                    EXCEPT !.sessions = x]
                             = [manifest |-> a, status |-> b, storage |-> c, sessions |-> x, summary |-> e]
    OBVIOUS
  <2>6. WithItem(held, item) = [held EXCEPT !.sessions = sessions]
    <3> HIDE DEF longer, sessions, last, closed
    <3> QED BY <2>1, <2>2, <2>3
  <2>7. QED
    <3> HIDE DEF sessions
    <3> QED BY <2>5, <2>6 DEF Holds
<1>8. closed \in T /\ SessionStands(closed, kept)
  <2>1. closed \in T
    <3> HIDE DEF longer, last, I
    <3> QED BY <1>3, <1>6 DEF SessionsOn, I
  <2>2. SessionStands(last, kept)
    BY <1>1, <1>2 DEF Holds
  <2>3. RequestsOf(longer) <= last.worst
    <3> HIDE DEF longer
    <3> QED BY <1>5 DEF LastSession
  <2>4. QED
    <3> HIDE DEF longer, last
    <3> QED BY <1>6, <2>1, <2>2, <2>3 DEF SessionStands
<1>9. sessions \in Seq(T) /\ Len(sessions) = n /\ sessions[n] = closed
  <2> HIDE DEF closed, T
  <2>1. \A k \in 1..n : held.sessions[k] \in T
    BY <1>1
  <2>2. sessions \in [1..n -> T]
    BY <1>8, <2>1
  <2>3. QED
    BY <1>1, <2>2
<1>10. \A s \in DOMAIN sessions : SessionStands(sessions[s], kept)
  <2> HIDE DEF closed
  <2> QED BY <1>1, <1>2, <1>8 DEF Holds
<1>11. Holds(WithItem(held, item), job_list, kept)
  <2> HIDE DEF sessions
  <2> QED BY <1>7, <1>9, <1>10 DEF Holds
<1>12. QED
  <2> HIDE DEF sessions, longer
  <2>1. WithItem(held, item).sessions = sessions
    BY <1>7
  <2>2. LastSession(WithItem(held, item)) = closed
    BY <1>9, <2>1 DEF LastSession
  <2>3. LastSession(held) = last
    BY DEF LastSession
  <2> HIDE DEF last
  <2>4. QED
    BY <1>5, <1>9, <1>11, <2>1, <2>2, <2>3

\* The jobs from a position on that nothing kept answers.
Unanswered(job_list, kept, from) == {k \in from..Len(job_list) : job_list[k] \notin kept}

\* One job less from the next position on.
LEMMA UnansweredNext ==
    ASSUME NEW job_list, Len(job_list) \in Nat, NEW kept, NEW pos \in 1..Len(job_list)
    PROVE  /\ Cardinality(Unanswered(job_list, kept, pos)) \in Nat
           /\ Cardinality(Unanswered(job_list, kept, pos + 1)) \in Nat
           /\ Cardinality(Unanswered(job_list, kept, pos + 1)) <= Cardinality(Unanswered(job_list, kept, pos))
           /\ job_list[pos] \notin kept => Cardinality(Unanswered(job_list, kept, pos)) =
                                            Cardinality(Unanswered(job_list, kept, pos + 1)) + 1
<1> DEFINE now == Unanswered(job_list, kept, pos)
           next == Unanswered(job_list, kept, pos + 1)
<1>1. pos \in Nat /\ pos + 1 \in Nat /\ pos <= Len(job_list)
  OBVIOUS
<1>2. IsFiniteSet(pos..Len(job_list)) /\ now \in SUBSET (pos..Len(job_list))
  BY <1>1, FS_Interval DEF Unanswered
<1>3. IsFiniteSet(now)
  <2> HIDE DEF now
  <2> QED BY <1>2, FS_Subset
<1>4. next \in SUBSET now
  BY <1>1 DEF Unanswered
<1>5. job_list[pos] \notin kept => now = next \cup {pos} /\ pos \notin next
  BY <1>1 DEF Unanswered
<1> HIDE DEF now, next
<1>6. IsFiniteSet(next) /\ Cardinality(next) <= Cardinality(now)
  BY <1>3, <1>4, FS_Subset
<1>7. Cardinality(now) \in Nat /\ Cardinality(next) \in Nat
  BY <1>3, <1>6, FS_CardinalityType
<1>8. job_list[pos] \notin kept => Cardinality(now) = Cardinality(next) + 1
  BY <1>5, <1>6, FS_AddElement
<1>9. QED
  BY <1>6, <1>7, <1>8 DEF now, next

\* More that is kept leaves less to answer.
LEMMA UnansweredLess ==
    ASSUME NEW job_list, Len(job_list) \in Nat, NEW kept, NEW more, kept \subseteq more, NEW from \in Nat
    PROVE  /\ Cardinality(Unanswered(job_list, kept, from)) \in Nat
           /\ Cardinality(Unanswered(job_list, more, from)) \in Nat
           /\ Cardinality(Unanswered(job_list, more, from)) <= Cardinality(Unanswered(job_list, kept, from))
<1> DEFINE less == Unanswered(job_list, more, from)
           all == Unanswered(job_list, kept, from)
<1>1. IsFiniteSet(from..Len(job_list)) /\ all \in SUBSET (from..Len(job_list))
  BY FS_Interval DEF Unanswered
<1>2. less \in SUBSET all
  BY DEF Unanswered
<1> HIDE DEF all, less
<1>3. IsFiniteSet(all)
  BY <1>1, FS_Subset
<1>4. IsFiniteSet(less) /\ Cardinality(less) <= Cardinality(all)
  BY <1>2, <1>3, FS_Subset
<1>5. QED
  BY <1>3, <1>4, FS_CardinalityType DEF all, less

\* At the start, every job without an answer is one of the manifest's.
LEMMA UnansweredAtFirst ==
    ASSUME NEW job_list, ListsOnce(job_list), NEW kept
    PROVE  /\ Cardinality(Range(job_list) \ kept) \in Nat
           /\ Cardinality(Unanswered(job_list, kept, 1)) <= Cardinality(Range(job_list) \ kept)
<1> DEFINE S == Unanswered(job_list, kept, 1)
           T == Range(job_list) \ kept
           f == [k \in S |-> job_list[k]]
<1>1. Len(job_list) \in Nat /\ DOMAIN job_list = 1..Len(job_list)
  BY DEF ListsOnce
<1>2. IsFiniteSet(Range(job_list))
  <2>1. IsFiniteSet(DOMAIN job_list)
    BY <1>1, FS_Interval
  <2>2. QED
    BY <2>1, ImageIsFinite DEF Range
<1>3. IsFiniteSet(T)
  BY <1>2, FS_Difference
<1>4. f \in [S -> T] /\ \A j, k \in S : f[j] = f[k] => j = k
  <2>1. \A k \in S : k \in DOMAIN job_list /\ job_list[k] \in T
    BY <1>1 DEF Unanswered, Range
  <2>2. \A j, k \in DOMAIN job_list : job_list[j] = job_list[k] => j = k
    BY DEF ListsOnce, IsInjective
  <2> HIDE DEF S, T
  <2>3. QED
    BY <2>1, <2>2
<1> HIDE DEF S, T, f
<1>5. f \in Injection(S, T)
  BY <1>4 DEF Injection, IsInjective
<1>6. QED
  BY <1>3, <1>5, FS_Injection, FS_CardinalityType DEF S, T

\* So many requests more, at the most.
LEMMA ProductGrows ==
    ASSUME NEW a \in Nat, NEW m \in Nat, NEW n \in Nat, m <= n
    PROVE  a * m \in Nat /\ a * n \in Nat /\ a * m <= a * n /\ a * (m + 1) = a * m + a
<1>1. PICK d \in Nat : n = m + d
  <2>1. n - m \in Nat /\ n = m + (n - m)
    OBVIOUS
  <2>2. QED
    BY <2>1
<1>2. a * n = a * m + a * d
  BY <1>1
<1>3. a * d \in Nat /\ a * m \in Nat
  OBVIOUS
<1>4. a * (m + 1) = a * m + a
  OBVIOUS
<1>5. QED
  BY <1>2, <1>3, <1>4

-----------------------------------------------------------------------------
(* What the files and the recorder hold.                                   *)

ManifestInv ==
    /\ manifest # NoManifest => ListsOnce(manifest)
    /\ manifest = NoManifest => DOMAIN cache = {} /\ receipt = NoReceipt /\ rec = Idle

CacheInv ==
    /\ cache = [k \in DOMAIN cache |-> cache[k]]
    /\ DOMAIN cache # {} => DOMAIN cache \subseteq Jobs

ReceiptInv ==
    receipt # NoReceipt =>
        /\ Holds(receipt, manifest, DOMAIN cache)
        /\ receipt.summary = _receipt_summary(receipt.sessions)
        /\ \A k \in DOMAIN receipt.storage : k \in DOMAIN cache /\ cache[k] = receipt.storage[k]
        /\ receipt.status = "COMPLETE" => DOMAIN cache = Jobs

\* Requests made, requests now made, and the requests that may be made from a position
\* on are together within the worst case the session was started with.
Within(r, job_list, kept, now, from) ==
    RequestsOf(LastSession(r.held).items) + now
        + r.attempts * Cardinality(Unanswered(job_list, kept, from)) <= LastSession(r.held).worst

\* What the recorder holds is what is on disk, up to an answer it is about to write;
\* what it has spent and may still spend is the worst case it started with.
RecorderStands(r, job_list, file) ==
    /\ r = [at |-> r.at, pos |-> r.pos, tries |-> r.tries, attempts |-> r.attempts,
            entries |-> r.entries, held |-> r.held]
    /\ r.at \in {"job", "asking", "cache", "receipt"}
    /\ r.pos \in 1..Len(job_list)
    /\ r.tries \in Nat /\ r.attempts \in 1..MaxAttempts
    /\ Holds(r.held, job_list, DOMAIN file)
    /\ Len(r.held.sessions) > 0
    /\ r.at # "cache" => r.entries = file
    /\ r.at \in {"job", "asking"} => Within(r, job_list, DOMAIN file, 0, r.pos)
    /\ r.at = "asking" => job_list[r.pos] \notin DOMAIN file /\ r.tries < r.attempts
    /\ r.at = "cache" =>
        /\ r.entries = [k \in DOMAIN r.entries |-> r.entries[k]]
        /\ DOMAIN r.entries = DOMAIN file \cup {job_list[r.pos]}
        /\ \A k \in DOMAIN file : r.entries[k] = file[k]
        /\ r.tries \in 1..r.attempts
        /\ Within(r, job_list, DOMAIN file, r.tries, r.pos + 1)
    /\ r.at = "receipt" => Within(r, job_list, DOMAIN file, 0, r.pos + 1)

RecorderInv == rec # Idle => RecorderStands(rec, manifest, cache)

FilesInv == ManifestInv /\ CacheInv /\ ReceiptInv

\* The requests of a session are a number.
LEMMA RequestsAreWhole ==
    ASSUME NEW jobs, NEW items \in Seq(Items(jobs))
    PROVE  RequestsOf(items) \in Nat
<1> DEFINE I == Items(jobs)
<1>1. \A e \in I : e.attempts \in Nat
  BY LimitsAssumption DEF Items
<1>2. CASE I = {}
  <2>1. \A S : \A s \in Seq(S) : S = {} => s = <<>>
    OBVIOUS
  <2>2. items = <<>>
    <3> HIDE DEF I
    <3> QED BY <1>2, <2>1 DEF I
  <2>3. QED
    BY <2>2, NothingRequested
<1>3. CASE I # {}
  <2>1. items \in Seq(I)
    OBVIOUS
  <2> HIDE DEF I
  <2>2. PICK e \in I : TRUE
    BY <1>3
  <2>3. QED
    BY <1>1, <2>1, <2>2, RequestsOfAppend
<1>4. QED
  BY <1>2, <1>3

\* The numbers of an open session.
LEMMA OpenSession ==
    ASSUME NEW held, NEW job_list, NEW kept, Holds(held, job_list, kept), Len(held.sessions) > 0
    PROVE  RequestsOf(LastSession(held).items) \in Nat /\ LastSession(held).worst \in Nat
<1> DEFINE T == SessionsOn(Range(job_list))
           I == Items(Range(job_list))
           last == LastSession(held)
<1>1. held.sessions \in Seq(T)
  BY DEF Holds
<1>2. last \in T
  <2> HIDE DEF T
  <2> QED BY <1>1 DEF LastSession
<1> HIDE DEF last
<1>3. last.items \in Seq(I) /\ last.worst \in Nat
  <2> HIDE DEF I
  <2> QED BY <1>2 DEF SessionsOn, I
<1>4. RequestsOf(last.items) \in Nat
  BY <1>3, RequestsAreWhole
<1>5. QED
  BY <1>3, <1>4 DEF last

\* A session is started on what is on disk.
LEMMA StartKeeps ==
    ASSUME FilesInv, RecorderInv, NEW resume \in BOOLEAN, NEW limit \in 1..MaxAttempts,
           NEW budget \in Budgets, StartRecording(resume, limit, budget)
    PROVE  FilesInv' /\ RecorderInv'
<1> DEFINE entries == _load_existing_entries(resume, cache)
           worst == WorstCase(Cardinality(Jobs \ DOMAIN entries), limit)
           base == IF resume /\ receipt # NoReceipt THEN receipt ELSE ReceiptBase
           open == [budget |-> budget, worst |-> worst, items |-> <<>>]
           held == [base EXCEPT !.sessions = Append(@, open)]
           r == [at |-> "job", pos |-> 1, tries |-> 0, attempts |-> limit, entries |-> entries, held |-> held]
<1>1. /\ rec = Idle /\ manifest # NoManifest /\ worst <= budget
      /\ ~resume => DOMAIN cache = {} /\ receipt = NoReceipt
      /\ rec' = r
      /\ manifest' = manifest /\ cache' = cache /\ receipt' = receipt
  BY DEF StartRecording
<1>2. ListsOnce(manifest) /\ manifest' # NoManifest
  BY <1>1 DEF FilesInv, ManifestInv
<1>3. entries = cache
  <2>1. CASE resume
    BY <2>1 DEF _load_existing_entries
  <2>2. CASE ~resume
    <3>1. cache = [k \in {} |-> cache[k]]
      BY <1>1, <2>2 DEF FilesInv, CacheInv
    <3>2. QED
      BY <2>2, <3>1 DEF _load_existing_entries
  <2>3. QED
    BY <2>1, <2>2
<1>4. Holds(base, manifest, DOMAIN cache)
  <2>1. CASE resume /\ receipt # NoReceipt
    BY <2>1 DEF FilesInv, ReceiptInv
  <2>2. CASE ~(resume /\ receipt # NoReceipt)
    <3>1. \A S : <<>> \in Seq(S)
      OBVIOUS
    <3>2. base = ReceiptBase
      BY <2>2
    <3> HIDE DEF base
    <3>3. base.manifest = manifest /\ base.status = "PARTIAL" /\ base.sessions = <<>>
          /\ base = [manifest |-> base.manifest, status |-> base.status, storage |-> base.storage,
                     sessions |-> base.sessions, summary |-> base.summary]
      BY <3>2 DEF ReceiptBase
    <3>4. QED
      BY <3>1, <3>3 DEF Holds
  <2>3. QED
    BY <2>1, <2>2
<1> HIDE DEF base
<1>5. /\ worst \in Nat /\ budget \in Nat
      /\ limit * Cardinality(Unanswered(manifest, DOMAIN cache, 1)) <= worst
  <2>1. Cardinality(Jobs \ DOMAIN cache) \in Nat
        /\ Cardinality(Unanswered(manifest, DOMAIN cache, 1)) <= Cardinality(Jobs \ DOMAIN cache)
    BY <1>2, UnansweredAtFirst DEF Jobs
  <2>2. Cardinality(Unanswered(manifest, DOMAIN cache, 1)) \in Nat
    <3>1. Len(manifest) \in Nat
      BY <1>2 DEF ListsOnce
    <3>2. QED
      BY <3>1, UnansweredLess
  <2>3. limit \in Nat
    BY LimitsAssumption
  <2>4. \A c \in Nat : c * limit = limit * c
    BY <2>3
  <2>5. worst = limit * Cardinality(Jobs \ DOMAIN cache)
    BY <1>3, <2>1, <2>4 DEF WorstCase
  <2>6. QED
    BY <2>1, <2>2, <2>3, <2>5, ProductGrows, LimitsAssumption
<1> HIDE DEF entries, worst
<1>6. open \in SessionsOn(Range(manifest)) /\ SessionStands(open, DOMAIN cache) /\ RequestsOf(open.items) = 0
  <2>1. \A S : <<>> \in Seq(S)
    OBVIOUS
  <2>2. DOMAIN <<>> = {}
    OBVIOUS
  <2>3. QED
    BY <1>1, <1>5, <2>1, <2>2, NothingRequested DEF SessionsOn, SessionStands
<1> HIDE DEF open
<1>7. held = [manifest |-> base.manifest, status |-> base.status, storage |-> base.storage,
              sessions |-> Append(base.sessions, open), summary |-> base.summary]
  BY <1>4 DEF Holds
<1>8. /\ Append(base.sessions, open) \in Seq(SessionsOn(Range(manifest)))
      /\ Len(Append(base.sessions, open)) > 0
      /\ Append(base.sessions, open)[Len(Append(base.sessions, open))] = open
      /\ \A k \in DOMAIN Append(base.sessions, open) : SessionStands(Append(base.sessions, open)[k], DOMAIN cache)
  <2>1. base.sessions \in Seq(SessionsOn(Range(manifest)))
        /\ \A k \in DOMAIN base.sessions : SessionStands(base.sessions[k], DOMAIN cache)
    BY <1>4 DEF Holds
  <2>2. \A S : \A s \in Seq(S), e \in S : Len(Append(s, e)) > 0 /\ Append(s, e)[Len(Append(s, e))] = e
    OBVIOUS
  <2>3. QED
    BY <1>6, <2>1, <2>2, AppendedTo
<1>9. Holds(held, manifest, DOMAIN cache) /\ Len(held.sessions) > 0 /\ LastSession(held) = open
  <2> HIDE DEF held
  <2> QED BY <1>4, <1>7, <1>8 DEF Holds, LastSession
<1>10. RequestsOf(LastSession(held).items) + 0 + limit * Cardinality(Unanswered(manifest, DOMAIN cache, 1))
            <= LastSession(held).worst
  <2>1. open.worst = worst
    BY DEF open
  <2>2. limit * Cardinality(Unanswered(manifest, DOMAIN cache, 1)) \in Int
    <3>1. Len(manifest) \in Nat
      BY <1>2 DEF ListsOnce
    <3>2. Cardinality(Unanswered(manifest, DOMAIN cache, 1)) \in Nat
      BY <3>1, UnansweredLess
    <3>3. QED
      BY <3>2, LimitsAssumption
  <2> HIDE DEF held
  <2>3. QED
    BY <1>5, <1>6, <1>9, <2>1, <2>2
<1> HIDE DEF held
<1>11. RecorderStands(r, manifest, cache)
  <2>1. 1 \in 1..Len(manifest)
    BY <1>2 DEF ListsOnce
  <2>2. QED
    BY <1>3, <1>9, <1>10, <2>1 DEF RecorderStands, Within
<1>12. QED
  <2> HIDE DEF r
  <2>1. RecorderInv'
    BY <1>1, <1>11 DEF RecorderInv
  <2>2. FilesInv'
    BY <1>1, <1>2 DEF FilesInv, ManifestInv, CacheInv, ReceiptInv, Jobs
  <2>3. QED
    BY <2>1, <2>2

\* What holds of a recorder that is not idle.
LEMMA Recording ==
    ASSUME FilesInv, RecorderInv, rec.at # "idle"
    PROVE  /\ rec # Idle /\ RecorderStands(rec, manifest, cache)
           /\ manifest # NoManifest /\ ListsOnce(manifest)
           /\ Len(manifest) \in Nat /\ rec.pos \in DOMAIN manifest /\ Job \in Jobs
           /\ rec.attempts \in Nat /\ rec.attempts <= MaxAttempts
           /\ RequestsOf(LastSession(rec.held).items) \in Nat /\ LastSession(rec.held).worst \in Nat
           /\ Cardinality(Unanswered(manifest, DOMAIN cache, rec.pos)) \in Nat
           /\ Cardinality(Unanswered(manifest, DOMAIN cache, rec.pos + 1)) \in Nat
<1>1. rec # Idle
  BY DEF Idle
<1>2. RecorderStands(rec, manifest, cache) /\ manifest # NoManifest
  BY <1>1 DEF RecorderInv, FilesInv, ManifestInv
<1>3. ListsOnce(manifest)
  BY <1>2 DEF FilesInv, ManifestInv
<1>4. Len(manifest) \in Nat /\ DOMAIN manifest = 1..Len(manifest)
  BY <1>3 DEF ListsOnce
<1>5. rec.pos \in DOMAIN manifest /\ rec.attempts \in Nat /\ rec.attempts <= MaxAttempts
  BY <1>2, <1>4, LimitsAssumption DEF RecorderStands
<1>6. Job \in Jobs
  BY <1>5 DEF Job, Jobs, Range
<1>7. RequestsOf(LastSession(rec.held).items) \in Nat /\ LastSession(rec.held).worst \in Nat
  BY <1>2, OpenSession DEF RecorderStands
<1>8. /\ Cardinality(Unanswered(manifest, DOMAIN cache, rec.pos)) \in Nat
      /\ Cardinality(Unanswered(manifest, DOMAIN cache, rec.pos + 1)) \in Nat
  BY <1>4, <1>5, UnansweredNext
<1>9. QED
  BY <1>1, <1>2, <1>3, <1>4, <1>5, <1>6, <1>7, <1>8

\* The files stay as they are.
LEMMA FilesStay ==
    ASSUME FilesInv, manifest # NoManifest, UNCHANGED <<manifest, cache, receipt>>
    PROVE  FilesInv'
  BY DEF FilesInv, ManifestInv, CacheInv, ReceiptInv, Jobs

\* The item that a step adds is one of the session's.
LEMMA JobItem ==
    ASSUME Job \in Jobs, NEW status \in {"RECORDED", "CACHED", "ERROR"}, NEW asked \in 0..MaxAttempts,
           (status = "CACHED") <=> (asked = 0)
    PROVE  [key |-> Job, status |-> status, attempts |-> asked] \in Items(Range(manifest))
  BY DEF Items, Jobs

LEMMA TakeJobKeeps ==
    ASSUME FilesInv, RecorderInv, TakeJob
    PROVE  FilesInv' /\ RecorderInv'
<1>1. rec.at = "job" /\ UNCHANGED <<manifest, cache, receipt>>
  BY DEF TakeJob
<1>2. /\ rec # Idle /\ RecorderStands(rec, manifest, cache)
      /\ manifest # NoManifest
      /\ Len(manifest) \in Nat /\ rec.pos \in DOMAIN manifest /\ Job \in Jobs
      /\ rec.attempts \in Nat
      /\ RequestsOf(LastSession(rec.held).items) \in Nat /\ LastSession(rec.held).worst \in Nat
      /\ Cardinality(Unanswered(manifest, DOMAIN cache, rec.pos)) \in Nat
      /\ Cardinality(Unanswered(manifest, DOMAIN cache, rec.pos + 1)) \in Nat
  BY <1>1, Recording
<1>3. FilesInv'
  BY <1>1, <1>2, FilesStay
<1>4. /\ rec = [at |-> rec.at, pos |-> rec.pos, tries |-> rec.tries, attempts |-> rec.attempts,
                entries |-> rec.entries, held |-> rec.held]
      /\ rec.entries = cache /\ Within(rec, manifest, DOMAIN cache, 0, rec.pos)
      /\ Holds(rec.held, manifest, DOMAIN cache) /\ Len(rec.held.sessions) > 0
  BY <1>1, <1>2 DEF RecorderStands
<1>5. ASSUME Job \in DOMAIN cache
      PROVE  RecorderStands(rec', manifest, cache)
  <2> DEFINE item == [key |-> Job, status |-> "CACHED", attempts |-> 0]
             held == WithItem(rec.held, item)
             r == [at |-> "receipt", pos |-> rec.pos, tries |-> rec.tries, attempts |-> rec.attempts,
                   entries |-> rec.entries, held |-> held]
  <2>1. rec' = [rec EXCEPT !.at = "receipt", !.held = held]
    BY <1>4, <1>5 DEF TakeJob, AddItem, WithItem
  <2>2. item \in Items(Range(manifest)) /\ item.attempts = 0 /\ item.key = Job
    <3>1. 0 \in 0..MaxAttempts
      BY LimitsAssumption
    <3>2. QED
      BY <1>2, <3>1, JobItem
  <2> DEFINE least == rec.attempts * Cardinality(Unanswered(manifest, DOMAIN cache, rec.pos))
             next == rec.attempts * Cardinality(Unanswered(manifest, DOMAIN cache, rec.pos + 1))
  <2>3. next <= least /\ least \in Nat /\ next \in Nat
    <3>1. Cardinality(Unanswered(manifest, DOMAIN cache, rec.pos + 1)) <= Cardinality(Unanswered(manifest, DOMAIN cache, rec.pos))
      BY <1>2, UnansweredNext
    <3>2. QED
      BY <1>2, <3>1, ProductGrows
  <2>4. RequestsOf(LastSession(rec.held).items) + 0 + least <= LastSession(rec.held).worst
    BY <1>4 DEF Within
  <2> HIDE DEF item, least, next
  <2>5. RequestsOf(LastSession(rec.held).items) + item.attempts <= LastSession(rec.held).worst
    BY <1>2, <2>2, <2>3, <2>4
  <2>6. /\ Holds(held, manifest, DOMAIN cache) /\ Len(held.sessions) = Len(rec.held.sessions)
        /\ LastSession(held).worst = LastSession(rec.held).worst
        /\ RequestsOf(LastSession(held).items) = RequestsOf(LastSession(rec.held).items) + item.attempts
    BY <1>4, <1>5, <2>2, <2>5, ItemAdded
  <2> HIDE DEF held
  <2>7. RequestsOf(LastSession(held).items) + 0 + next <= LastSession(held).worst
    BY <1>2, <2>2, <2>3, <2>4, <2>6
  <2>8. rec' = r
    BY <1>4, <2>1
  <2>9. RecorderStands(r, manifest, cache)
    BY <1>2, <1>4, <2>6, <2>7 DEF RecorderStands, Within, next
  <2>10. QED
    BY <2>8, <2>9
<1>6. ASSUME Job \notin DOMAIN cache
      PROVE  RecorderStands(rec', manifest, cache)
  <2> DEFINE r == [at |-> "asking", pos |-> rec.pos, tries |-> 0, attempts |-> rec.attempts,
                   entries |-> rec.entries, held |-> rec.held]
  <2>1. rec' = [rec EXCEPT !.at = "asking", !.tries = 0]
    BY <1>4, <1>6 DEF TakeJob
  <2>2. rec' = r
    BY <1>4, <2>1
  <2>3. RecorderStands(r, manifest, cache)
    BY <1>2, <1>4, <1>6 DEF RecorderStands, Within, Job
  <2>4. QED
    BY <2>2, <2>3
<1>7. QED
  BY <1>1, <1>3, <1>5, <1>6 DEF RecorderInv

LEMMA AnsweredKeeps ==
    ASSUME FilesInv, RecorderInv, NEW reply, RequestAnswered(reply)
    PROVE  FilesInv' /\ RecorderInv'
<1>1. rec.at = "asking" /\ UNCHANGED <<manifest, cache, receipt>>
  BY DEF RequestAnswered
<1>2. /\ rec # Idle /\ RecorderStands(rec, manifest, cache)
      /\ manifest # NoManifest
      /\ Len(manifest) \in Nat /\ rec.pos \in DOMAIN manifest /\ Job \in Jobs
      /\ rec.attempts \in Nat
      /\ RequestsOf(LastSession(rec.held).items) \in Nat /\ LastSession(rec.held).worst \in Nat
      /\ Cardinality(Unanswered(manifest, DOMAIN cache, rec.pos)) \in Nat
      /\ Cardinality(Unanswered(manifest, DOMAIN cache, rec.pos + 1)) \in Nat
  BY <1>1, Recording
<1>3. FilesInv'
  BY <1>1, <1>2, FilesStay
<1>4. /\ rec = [at |-> rec.at, pos |-> rec.pos, tries |-> rec.tries, attempts |-> rec.attempts,
                entries |-> rec.entries, held |-> rec.held]
      /\ rec.entries = cache /\ Within(rec, manifest, DOMAIN cache, 0, rec.pos)
      /\ Holds(rec.held, manifest, DOMAIN cache) /\ Len(rec.held.sessions) > 0
      /\ Job \notin DOMAIN cache /\ rec.tries < rec.attempts /\ rec.tries \in Nat
  BY <1>1, <1>2 DEF RecorderStands, Job
<1> DEFINE entries == [k \in DOMAIN cache \cup {Job} |-> IF k = Job THEN reply ELSE cache[k]]
           r == [at |-> "cache", pos |-> rec.pos, tries |-> rec.tries + 1, attempts |-> rec.attempts,
                 entries |-> entries, held |-> rec.held]
<1>5. rec' = r
  <2>1. rec' = [rec EXCEPT !.at = "cache", !.tries = rec.tries + 1, !.entries = entries]
    BY <1>4 DEF RequestAnswered
  <2> HIDE DEF entries
  <2>2. QED
    BY <1>4, <2>1
<1>6. RequestsOf(LastSession(rec.held).items) + (rec.tries + 1)
        + rec.attempts * Cardinality(Unanswered(manifest, DOMAIN cache, rec.pos + 1)) <= LastSession(rec.held).worst
  <2>1. Cardinality(Unanswered(manifest, DOMAIN cache, rec.pos)) =
            Cardinality(Unanswered(manifest, DOMAIN cache, rec.pos + 1)) + 1
    BY <1>2, <1>4, UnansweredNext DEF Job
  <2> DEFINE n == Cardinality(Unanswered(manifest, DOMAIN cache, rec.pos + 1))
  <2>2. rec.attempts * (n + 1) = rec.attempts * n + rec.attempts /\ rec.attempts * n \in Nat
    <3> HIDE DEF n
    <3>1. n \in Nat /\ n <= n
      BY <1>2 DEF n
    <3>2. QED
      BY <1>2, <3>1, ProductGrows
  <2>3. RequestsOf(LastSession(rec.held).items) + 0 + rec.attempts * (n + 1) <= LastSession(rec.held).worst
    BY <1>4, <2>1 DEF Within
  <2>4. QED
    <3> DEFINE product == rec.attempts * n
    <3>1. product \in Nat /\ RequestsOf(LastSession(rec.held).items) + 0 + (product + rec.attempts) <= LastSession(rec.held).worst
      BY <2>2, <2>3
    <3> HIDE DEF product
    <3>2. RequestsOf(LastSession(rec.held).items) + (rec.tries + 1) + product <= LastSession(rec.held).worst
      BY <1>2, <1>4, <3>1
    <3>3. QED
      BY <3>2 DEF product
<1>7. RecorderStands(r, manifest, cache)
  <2>1. entries = [k \in DOMAIN entries |-> entries[k]] /\ DOMAIN entries = DOMAIN cache \cup {Job}
        /\ \A k \in DOMAIN cache : entries[k] = cache[k]
    BY <1>4
  <2> HIDE DEF entries
  <2>2. rec.tries + 1 \in 1..rec.attempts
    BY <1>2, <1>4
  <2>3. rec.attempts \in 1..MaxAttempts /\ rec.pos \in 1..Len(manifest)
    BY <1>2 DEF RecorderStands
  <2>4. QED
    BY <1>4, <1>6, <2>1, <2>2, <2>3 DEF RecorderStands, Within, Job
<1>8. rec' # Idle /\ RecorderInv'
  <2> HIDE DEF r
  <2>1. QED
    BY <1>1, <1>5, <1>7 DEF RecorderInv, Idle, r
<1>9. QED
  BY <1>3, <1>8

LEMMA FailsKeeps ==
    ASSUME FilesInv, RecorderInv, RequestFails
    PROVE  FilesInv' /\ RecorderInv'
<1>1. rec.at = "asking" /\ UNCHANGED <<manifest, cache, receipt>>
  BY DEF RequestFails
<1>2. /\ rec # Idle /\ RecorderStands(rec, manifest, cache)
      /\ manifest # NoManifest
      /\ Len(manifest) \in Nat /\ rec.pos \in DOMAIN manifest /\ Job \in Jobs
      /\ rec.attempts \in Nat /\ rec.attempts <= MaxAttempts
      /\ RequestsOf(LastSession(rec.held).items) \in Nat /\ LastSession(rec.held).worst \in Nat
      /\ Cardinality(Unanswered(manifest, DOMAIN cache, rec.pos)) \in Nat
      /\ Cardinality(Unanswered(manifest, DOMAIN cache, rec.pos + 1)) \in Nat
  BY <1>1, Recording
<1>3. FilesInv'
  BY <1>1, <1>2, FilesStay
<1>4. /\ rec = [at |-> rec.at, pos |-> rec.pos, tries |-> rec.tries, attempts |-> rec.attempts,
                entries |-> rec.entries, held |-> rec.held]
      /\ rec.entries = cache /\ Within(rec, manifest, DOMAIN cache, 0, rec.pos)
      /\ Holds(rec.held, manifest, DOMAIN cache) /\ Len(rec.held.sessions) > 0
      /\ Job \notin DOMAIN cache /\ rec.tries < rec.attempts /\ rec.tries \in Nat
  BY <1>1, <1>2 DEF RecorderStands, Job
<1>5. ASSUME rec.tries + 1 < rec.attempts
      PROVE  RecorderStands(rec', manifest, cache)
  <2> DEFINE r == [at |-> rec.at, pos |-> rec.pos, tries |-> rec.tries + 1, attempts |-> rec.attempts,
                   entries |-> rec.entries, held |-> rec.held]
  <2>1. rec' = [rec EXCEPT !.tries = rec.tries + 1]
    BY <1>4, <1>5 DEF RequestFails
  <2>2. rec' = r
    BY <1>4, <2>1
  <2>3. RecorderStands(r, manifest, cache)
    BY <1>1, <1>2, <1>4, <1>5 DEF RecorderStands, Within, Job
  <2>4. QED
    BY <2>2, <2>3
<1>6. ASSUME ~(rec.tries + 1 < rec.attempts)
      PROVE  RecorderStands(rec', manifest, cache)
  <2> DEFINE item == [key |-> Job, status |-> "ERROR", attempts |-> rec.tries + 1]
             held == WithItem(rec.held, item)
             r == [at |-> "receipt", pos |-> rec.pos, tries |-> rec.tries + 1, attempts |-> rec.attempts,
                   entries |-> rec.entries, held |-> held]
  <2>1. rec' = [rec EXCEPT !.at = "receipt", !.tries = rec.tries + 1, !.held = held]
    BY <1>4, <1>6 DEF RequestFails, AddItem, WithItem
  <2>2. item \in Items(Range(manifest)) /\ item.attempts = rec.attempts /\ item.status = "ERROR"
    <3>1. rec.tries + 1 \in 0..MaxAttempts /\ rec.tries + 1 # 0 /\ rec.tries + 1 = rec.attempts
      BY <1>2, <1>4, <1>6, LimitsAssumption
    <3>2. QED
      BY <1>2, <3>1, JobItem
  <2> DEFINE least == rec.attempts * Cardinality(Unanswered(manifest, DOMAIN cache, rec.pos))
             next == rec.attempts * Cardinality(Unanswered(manifest, DOMAIN cache, rec.pos + 1))
  <2>3. least = next + rec.attempts /\ next \in Nat
    <3>1. Cardinality(Unanswered(manifest, DOMAIN cache, rec.pos)) =
            Cardinality(Unanswered(manifest, DOMAIN cache, rec.pos + 1)) + 1
      BY <1>2, <1>4, UnansweredNext DEF Job
    <3> DEFINE n == Cardinality(Unanswered(manifest, DOMAIN cache, rec.pos + 1))
    <3>2. n \in Nat /\ n <= n
      BY <1>2
    <3> HIDE DEF n
    <3>3. rec.attempts * (n + 1) = rec.attempts * n + rec.attempts /\ rec.attempts * n \in Nat
      BY <1>2, <3>2, ProductGrows
    <3>4. QED
      BY <3>1, <3>3 DEF n
  <2>4. RequestsOf(LastSession(rec.held).items) + 0 + least <= LastSession(rec.held).worst
    BY <1>4 DEF Within
  <2> HIDE DEF item, least, next
  <2>5. RequestsOf(LastSession(rec.held).items) + item.attempts <= LastSession(rec.held).worst
    BY <1>2, <2>2, <2>3, <2>4
  <2>6. /\ Holds(held, manifest, DOMAIN cache) /\ Len(held.sessions) = Len(rec.held.sessions)
        /\ LastSession(held).worst = LastSession(rec.held).worst
        /\ RequestsOf(LastSession(held).items) = RequestsOf(LastSession(rec.held).items) + item.attempts
    BY <1>4, <2>2, <2>5, ItemAdded
  <2> HIDE DEF held
  <2>7. RequestsOf(LastSession(held).items) + 0 + next <= LastSession(held).worst
    BY <1>2, <2>2, <2>3, <2>4, <2>6
  <2>8. rec' = r
    BY <1>4, <2>1
  <2>9. RecorderStands(r, manifest, cache)
    BY <1>2, <1>4, <2>6, <2>7 DEF RecorderStands, Within, next
  <2>10. QED
    BY <2>8, <2>9
<1>7. QED
  BY <1>1, <1>3, <1>5, <1>6 DEF RecorderInv

\* The answer is written, then the receipt may name it.
LEMMA WriteCacheKeeps ==
    ASSUME FilesInv, RecorderInv, WriteCache
    PROVE  FilesInv' /\ RecorderInv'
<1>1. rec.at = "cache" /\ cache' = rec.entries /\ UNCHANGED <<manifest, receipt>>
  BY DEF WriteCache
<1>2. /\ rec # Idle /\ RecorderStands(rec, manifest, cache)
      /\ manifest # NoManifest /\ ListsOnce(manifest)
      /\ Len(manifest) \in Nat /\ rec.pos \in DOMAIN manifest /\ Job \in Jobs
      /\ rec.attempts \in Nat /\ rec.attempts <= MaxAttempts
      /\ RequestsOf(LastSession(rec.held).items) \in Nat /\ LastSession(rec.held).worst \in Nat
  BY <1>1, Recording
<1>3. /\ rec = [at |-> rec.at, pos |-> rec.pos, tries |-> rec.tries, attempts |-> rec.attempts,
                entries |-> rec.entries, held |-> rec.held]
      /\ rec.entries = [k \in DOMAIN rec.entries |-> rec.entries[k]]
      /\ DOMAIN rec.entries = DOMAIN cache \cup {Job}
      /\ \A k \in DOMAIN cache : rec.entries[k] = cache[k]
      /\ rec.tries \in 1..rec.attempts
      /\ Within(rec, manifest, DOMAIN cache, rec.tries, rec.pos + 1)
      /\ Holds(rec.held, manifest, DOMAIN cache) /\ Len(rec.held.sessions) > 0
  BY <1>1, <1>2 DEF RecorderStands, Job
<1> DEFINE kept == DOMAIN rec.entries
<1>4. DOMAIN cache \subseteq kept /\ Job \in kept
  BY <1>3
<1>5. Holds(rec.held, manifest, kept)
  <2> HIDE DEF kept
  <2> QED BY <1>3, <1>4, HoldsMore
<1>6. FilesInv'
  <2>1. ManifestInv'
    BY <1>1, <1>2 DEF ManifestInv
  <2>2. CacheInv'
    <3>1. DOMAIN cache \subseteq Jobs
      BY DEF FilesInv, CacheInv
    <3>2. QED
      BY <1>1, <1>2, <1>3, <3>1 DEF CacheInv, Jobs
  <2>3. ReceiptInv'
    <3>1. SUFFICES ASSUME receipt # NoReceipt
                   PROVE  /\ Holds(receipt, manifest, kept)
                          /\ receipt.summary = _receipt_summary(receipt.sessions)
                          /\ \A k \in DOMAIN receipt.storage : k \in kept /\ rec.entries[k] = receipt.storage[k]
                          /\ receipt.status = "COMPLETE" => kept = Jobs
      BY <1>1 DEF ReceiptInv, Jobs
    <3>2. /\ Holds(receipt, manifest, DOMAIN cache)
          /\ receipt.summary = _receipt_summary(receipt.sessions)
          /\ \A k \in DOMAIN receipt.storage : k \in DOMAIN cache /\ cache[k] = receipt.storage[k]
          /\ receipt.status = "COMPLETE" => DOMAIN cache = Jobs
      BY <3>1 DEF FilesInv, ReceiptInv
    <3>3. Holds(receipt, manifest, kept)
      <4> HIDE DEF kept
      <4> QED BY <1>4, <3>2, HoldsMore
    <3>4. QED
      BY <1>2, <1>3, <3>2, <3>3
  <2>4. QED
    BY <2>1, <2>2, <2>3 DEF FilesInv
<1>7. RecorderStands(rec', manifest, rec.entries)
  <2> DEFINE item == [key |-> Job, status |-> "RECORDED", attempts |-> rec.tries]
             held == WithItem(rec.held, item)
             r == [at |-> "receipt", pos |-> rec.pos, tries |-> rec.tries, attempts |-> rec.attempts,
                   entries |-> rec.entries, held |-> held]
  <2>1. rec' = [rec EXCEPT !.at = "receipt", !.held = held]
    BY <1>3 DEF WriteCache, AddItem, WithItem
  <2>2. item \in Items(Range(manifest)) /\ item.attempts = rec.tries /\ item.key = Job /\ rec.tries \in Nat
    <3>1. rec.tries \in 0..MaxAttempts /\ rec.tries # 0
      BY <1>2, <1>3, LimitsAssumption
    <3>2. QED
      BY <1>2, <3>1, JobItem
  <2> DEFINE before == rec.attempts * Cardinality(Unanswered(manifest, DOMAIN cache, rec.pos + 1))
             next == rec.attempts * Cardinality(Unanswered(manifest, kept, rec.pos + 1))
  <2>3. next <= before /\ next \in Nat /\ before \in Nat
    <3> HIDE DEF kept
    <3>1. rec.pos + 1 \in Nat
      BY <1>2 DEF RecorderStands
    <3>2. /\ Cardinality(Unanswered(manifest, DOMAIN cache, rec.pos + 1)) \in Nat
          /\ Cardinality(Unanswered(manifest, kept, rec.pos + 1)) \in Nat
          /\ Cardinality(Unanswered(manifest, kept, rec.pos + 1)) <= Cardinality(Unanswered(manifest, DOMAIN cache, rec.pos + 1))
      BY <1>2, <1>4, <3>1, UnansweredLess
    <3>3. QED
      BY <1>2, <3>2, ProductGrows
  <2>4. RequestsOf(LastSession(rec.held).items) + rec.tries + before <= LastSession(rec.held).worst
    BY <1>3 DEF Within
  <2> HIDE DEF item, before, next
  <2>5. RequestsOf(LastSession(rec.held).items) + item.attempts <= LastSession(rec.held).worst
    BY <1>2, <2>2, <2>3, <2>4
  <2>6. /\ Holds(held, manifest, kept) /\ Len(held.sessions) = Len(rec.held.sessions)
        /\ LastSession(held).worst = LastSession(rec.held).worst
        /\ RequestsOf(LastSession(held).items) = RequestsOf(LastSession(rec.held).items) + item.attempts
    <3> HIDE DEF kept
    <3> QED BY <1>3, <1>4, <1>5, <2>2, <2>5, ItemAdded
  <2> HIDE DEF held
  <2>7. RequestsOf(LastSession(held).items) + 0 + next <= LastSession(held).worst
    BY <1>2, <2>2, <2>3, <2>4, <2>6
  <2>8. rec' = r
    BY <1>3, <2>1
  <2>9. RecorderStands(r, manifest, rec.entries)
    <3>1. rec.pos \in 1..Len(manifest) /\ rec.attempts \in 1..MaxAttempts
      BY <1>2 DEF RecorderStands
    <3>2. QED
      BY <1>3, <2>2, <2>6, <2>7, <3>1 DEF RecorderStands, Within, next
  <2>10. QED
    BY <2>8, <2>9
<1>8. QED
  BY <1>1, <1>6, <1>7 DEF RecorderInv

\* The receipt is written of what is on disk.
LEMMA WriteReceiptKeeps ==
    ASSUME FilesInv, RecorderInv, WriteReceipt
    PROVE  FilesInv' /\ RecorderInv'
<1>1. rec.at = "receipt" /\ receipt' = Written(rec.held) /\ UNCHANGED <<manifest, cache>>
  BY DEF WriteReceipt
<1>2. /\ rec # Idle /\ RecorderStands(rec, manifest, cache)
      /\ manifest # NoManifest
      /\ Len(manifest) \in Nat /\ rec.pos \in DOMAIN manifest
  BY <1>1, Recording
<1>3. /\ rec = [at |-> rec.at, pos |-> rec.pos, tries |-> rec.tries, attempts |-> rec.attempts,
                entries |-> rec.entries, held |-> rec.held]
      /\ rec.entries = cache /\ Within(rec, manifest, DOMAIN cache, 0, rec.pos + 1)
      /\ Holds(rec.held, manifest, DOMAIN cache) /\ Len(rec.held.sessions) > 0
  BY <1>1, <1>2 DEF RecorderStands
<1> DEFINE written == Written(rec.held)
<1>4. written = [manifest |-> rec.held.manifest,
                 status |-> IF DOMAIN cache = Jobs THEN "COMPLETE" ELSE "PARTIAL",
                 storage |-> cache, sessions |-> rec.held.sessions,
                 summary |-> _receipt_summary(rec.held.sessions)]
  <2> DEFINE status == IF DOMAIN cache = Jobs THEN "COMPLETE" ELSE "PARTIAL"
             summary == _receipt_summary(rec.held.sessions)
  <2>1. written = [rec.held EXCEPT !.status = status, !.storage = cache, !.summary = summary]
    BY <1>3 DEF Written
  <2>2. rec.held = [manifest |-> rec.held.manifest, status |-> rec.held.status, storage |-> rec.held.storage,
                    sessions |-> rec.held.sessions, summary |-> rec.held.summary]
    BY <1>3 DEF Holds
  <2> HIDE DEF status, summary, written
  <2>3. written = [manifest |-> rec.held.manifest, status |-> status, storage |-> cache,
                   sessions |-> rec.held.sessions, summary |-> summary]
    BY <2>1, <2>2
  <2>4. QED
    BY <2>3 DEF status, summary
<1>5. Holds(written, manifest, DOMAIN cache) /\ written.sessions = rec.held.sessions
  <2> HIDE DEF written
  <2> QED BY <1>3, <1>4 DEF Holds
<1> HIDE DEF written
<1>6. FilesInv'
  <2>1. ReceiptInv'
    <3>1. /\ written.summary = _receipt_summary(written.sessions)
          /\ written.storage = cache
          /\ written.status = "COMPLETE" => DOMAIN cache = Jobs
      BY <1>4
    <3>2. receipt' = written
      BY <1>1 DEF written
    <3>3. QED
      BY <1>1, <1>5, <3>1, <3>2 DEF ReceiptInv, Jobs
  <2>2. QED
    BY <1>1, <1>2, <2>1 DEF FilesInv, ManifestInv, CacheInv, Jobs
<1>7. RecorderInv'
  <2>1. CASE rec.pos = Len(manifest)
    BY <2>1 DEF WriteReceipt, RecorderInv
  <2>2. CASE rec.pos # Len(manifest)
    <3> DEFINE r == [at |-> "job", pos |-> rec.pos + 1, tries |-> rec.tries, attempts |-> rec.attempts,
                     entries |-> rec.entries, held |-> written]
    <3>1. rec' = [rec EXCEPT !.at = "job", !.pos = rec.pos + 1, !.held = written]
      BY <1>3, <2>2 DEF WriteReceipt, written
    <3>2. rec' = r
      BY <1>3, <3>1
    <3>3. rec.pos + 1 \in 1..Len(manifest)
      BY <1>2, <2>2 DEF RecorderStands
    <3>4. LastSession(written) = LastSession(rec.held) /\ Len(written.sessions) > 0
      BY <1>3, <1>5 DEF LastSession
    <3>5. RecorderStands(r, manifest, cache)
      BY <1>2, <1>3, <1>5, <3>3, <3>4 DEF RecorderStands, Within
    <3>6. QED
      BY <1>1, <3>2, <3>5 DEF RecorderInv
  <2>3. QED
    BY <2>1, <2>2
<1>8. QED
  BY <1>6, <1>7

\* What is written stands, whatever the next step is.
LEMMA EvidenceKeeps ==
    ASSUME RepositoryInv, PlanInv, FilesInv, RecorderInv, [PipelineNext]_pipelineVars
    PROVE  FilesInv' /\ RecorderInv'
<1>1. CASE UNCHANGED <<manifest, cache, receipt, rec>>
  BY <1>1 DEF FilesInv, ManifestInv, CacheInv, ReceiptInv, RecorderInv, Jobs
<1>2. CASE /\ manifest = NoManifest /\ ListsOnce(manifest')
           /\ UNCHANGED <<cache, receipt, rec>>
  <2>1. DOMAIN cache = {} /\ receipt = NoReceipt /\ rec = Idle
    BY <1>2 DEF FilesInv, ManifestInv
  <2>2. QED
    BY <1>2, <2>1 DEF FilesInv, ManifestInv, CacheInv, ReceiptInv, RecorderInv
<1>3. CASE Crash
  <2>1. rec' = Idle /\ UNCHANGED <<manifest, cache, receipt>>
    BY <1>3 DEF Crash
  <2>2. QED
    BY <2>1 DEF FilesInv, ManifestInv, CacheInv, ReceiptInv, RecorderInv, Jobs
<1>4. ASSUME NEW shard \in plan.shards, plan # NoPlan, WriteReviewedDraft(shard)
      PROVE  FilesInv' /\ RecorderInv'
  <2>1. ListsOnce(shard)
    BY <1>4, DraftsAreListed
  <2>2. QED
    BY <1>2, <1>4, <2>1 DEF WriteReviewedDraft
<1>5. ASSUME WriteInventory
      PROVE  FilesInv' /\ RecorderInv'
  <2>1. ListsOnce(build_exact_inventory(w))
    BY <1>5, InventoryIsListed DEF WriteInventory, RepositoryInv
  <2>2. QED
    BY <1>2, <1>5, <2>1 DEF WriteInventory
<1>6. CASE UNCHANGED pipelineVars
  BY <1>1, <1>6 DEF pipelineVars
<1>7. ASSUME NEW t \in MayBeHeldOut, HoldOut(t)
      PROVE  FilesInv' /\ RecorderInv'
  BY <1>1, <1>7 DEF HoldOut
<1>8. CASE Plan
  BY <1>1, <1>8 DEF Plan
<1>9. CASE run_batch_replay
  BY <1>1, <1>9 DEF run_batch_replay
<1>10. CASE RecorderStep
  BY <1>10, TakeJobKeeps, AnsweredKeeps, FailsKeeps, WriteCacheKeeps, WriteReceiptKeeps DEF RecorderStep
<1>11. QED
  BY <1>3, <1>4, <1>5, <1>6, <1>7, <1>8, <1>9, <1>10, StartKeeps DEF PipelineNext

LEMMA EvidenceInvariant == PipelineSpec => [](RepositoryInv /\ PlanInv /\ FilesInv /\ RecorderInv)
<1>1. PipelineInit => FilesInv /\ RecorderInv
  BY DEF PipelineInit, FilesInv, ManifestInv, CacheInv, ReceiptInv, RecorderInv
<1>2. RepositoryInv /\ PlanInv /\ FilesInv /\ RecorderInv /\ [PipelineNext]_pipelineVars
        => (FilesInv /\ RecorderInv)'
  BY EvidenceKeeps
<1>3. QED
  BY <1>1, <1>2, PlanInvariant, PTL DEF PipelineSpec

\* Whatever crash, failed request or resume happened, the receipt on disk is one that a
\* resumed session accepts, and it counts no answer that the cache does not have.
THEOREM ReceiptTheorem == PipelineSpec => []ReceiptTellsTheCache
<1>1. FilesInv => ReceiptTellsTheCache
  <2> SUFFICES ASSUME FilesInv, receipt # NoReceipt
               PROVE  /\ AcceptedReceipt(receipt, manifest)
                      /\ \A k \in DOMAIN receipt.storage : k \in DOMAIN cache /\ cache[k] = receipt.storage[k]
                      /\ receipt.status = "COMPLETE" => DOMAIN cache = Jobs
                      /\ \A s \in DOMAIN receipt.sessions :
                            /\ RequestsOf(receipt.sessions[s].items) <= receipt.sessions[s].budget
                            /\ \A k \in DOMAIN receipt.sessions[s].items :
                                receipt.sessions[s].items[k].status # "ERROR"
                                    => receipt.sessions[s].items[k].key \in DOMAIN cache
    BY DEF ReceiptTellsTheCache
  <2>1. /\ Holds(receipt, manifest, DOMAIN cache)
        /\ receipt.summary = _receipt_summary(receipt.sessions)
        /\ \A k \in DOMAIN receipt.storage : k \in DOMAIN cache /\ cache[k] = receipt.storage[k]
        /\ receipt.status = "COMPLETE" => DOMAIN cache = Jobs
    BY DEF FilesInv, ReceiptInv
  <2> DEFINE I == Items(Range(manifest))
  <2>2. ASSUME NEW s \in DOMAIN receipt.sessions
        PROVE  /\ SessionStands(receipt.sessions[s], DOMAIN cache)
               /\ receipt.sessions[s].budget \in Nat /\ receipt.sessions[s].worst \in Nat
               /\ receipt.sessions[s].items \in Seq(I)
    <3>1. receipt.sessions \in Seq(SessionsOn(Range(manifest))) /\ SessionStands(receipt.sessions[s], DOMAIN cache)
      BY <2>1, <2>2 DEF Holds
    <3>2. receipt.sessions[s] \in SessionsOn(Range(manifest))
      BY <2>2, <3>1
    <3>3. QED
      BY <3>1, <3>2 DEF SessionsOn
  <2>3. ASSUME NEW s \in DOMAIN receipt.sessions
        PROVE  /\ receipt.sessions[s].worst <= receipt.sessions[s].budget
               /\ \A k \in DOMAIN receipt.sessions[s].items :
                    /\ receipt.sessions[s].items[k].attempts <= MaxAttempts
                    /\ (receipt.sessions[s].items[k].status = "CACHED") = (receipt.sessions[s].items[k].attempts = 0)
    <3>1. \A e \in I : e.attempts <= MaxAttempts /\ (e.status = "CACHED") = (e.attempts = 0)
      BY LimitsAssumption DEF Items
    <3>2. \A k \in DOMAIN receipt.sessions[s].items : receipt.sessions[s].items[k] \in I
      <4> HIDE DEF I
      <4> QED BY <2>2, <2>3
    <3>3. receipt.sessions[s].worst <= receipt.sessions[s].budget
      BY <2>2, <2>3 DEF SessionStands
    <3> HIDE DEF I
    <3>4. QED
      BY <3>1, <3>2, <3>3
  <2>4. AcceptedReceipt(receipt, manifest)
    BY <2>1, <2>3 DEF AcceptedReceipt, Holds
  <2>5. ASSUME NEW s \in DOMAIN receipt.sessions
        PROVE  /\ RequestsOf(receipt.sessions[s].items) <= receipt.sessions[s].budget
               /\ \A k \in DOMAIN receipt.sessions[s].items :
                    receipt.sessions[s].items[k].status # "ERROR"
                        => receipt.sessions[s].items[k].key \in DOMAIN cache
    <3>1. SessionStands(receipt.sessions[s], DOMAIN cache)
      BY <2>2, <2>5
    <3>2. RequestsOf(receipt.sessions[s].items) \in Int
      BY <2>2, <2>5, RequestsAreWhole
    <3>3. QED
      BY <2>2, <2>5, <3>1, <3>2 DEF SessionStands
  <2>6. QED
    BY <2>1, <2>4, <2>5
<1>2. QED
  BY <1>1, EvidenceInvariant, PTL

\* What one step does to the answers.
AnswersKept ==
    /\ \A k \in DOMAIN cache : k \in DOMAIN cache' /\ cache'[k] = cache[k]
    /\ (rec # rec' /\ rec'.at = "asking") => manifest[rec'.pos] \notin DOMAIN cache

LEMMA AnswersStay ==
    ASSUME FilesInv, RecorderInv, PipelineNext
    PROVE  AnswersKept
<1>1. ASSUME UNCHANGED <<cache, rec>>
      PROVE  AnswersKept
  BY <1>1 DEF AnswersKept
<1>2. ASSUME cache' = cache, rec'.at # "asking"
      PROVE  AnswersKept
  BY <1>2 DEF AnswersKept
<1>3. CASE Crash
  BY <1>2, <1>3 DEF Crash, Idle
<1>4. ASSUME NEW resume \in BOOLEAN, NEW limit \in 1..MaxAttempts, NEW budget \in Budgets,
             StartRecording(resume, limit, budget)
      PROVE  AnswersKept
  BY <1>2, <1>4 DEF StartRecording
<1>5. CASE TakeJob
  <2>1. rec.at = "job" /\ cache' = cache
    BY <1>5 DEF TakeJob
  <2>2. RecorderStands(rec, manifest, cache)
    BY <2>1, Recording
  <2>3. /\ rec = [at |-> rec.at, pos |-> rec.pos, tries |-> rec.tries, attempts |-> rec.attempts,
                  entries |-> rec.entries, held |-> rec.held]
        /\ rec.entries = cache
    BY <2>1, <2>2 DEF RecorderStands
  <2>4. CASE Job \in DOMAIN cache
    <3> DEFINE held == AddItem(rec.held, "CACHED", 0)
    <3>1. rec' = [rec EXCEPT !.at = "receipt", !.held = held]
      BY <1>5, <2>3, <2>4 DEF TakeJob
    <3> HIDE DEF held
    <3>2. rec'.at = "receipt"
      BY <2>3, <3>1
    <3>3. QED
      BY <1>2, <2>1, <3>2
  <2>5. CASE Job \notin DOMAIN cache
    <3>1. rec' = [rec EXCEPT !.at = "asking", !.tries = 0]
      BY <1>5, <2>3, <2>5 DEF TakeJob
    <3>2. rec'.pos = rec.pos
      BY <2>3, <3>1
    <3>3. QED
      BY <2>1, <2>5, <3>2 DEF AnswersKept, Job
  <2>6. QED
    BY <2>4, <2>5
<1>6. ASSUME NEW reply, RequestAnswered(reply)
      PROVE  AnswersKept
  <2>1. rec.at = "asking" /\ cache' = cache
    BY <1>6 DEF RequestAnswered
  <2>2. rec = [at |-> rec.at, pos |-> rec.pos, tries |-> rec.tries, attempts |-> rec.attempts,
               entries |-> rec.entries, held |-> rec.held]
    BY <2>1, Recording DEF RecorderStands
  <2> DEFINE entries == [k \in DOMAIN rec.entries \cup {Job} |-> IF k = Job THEN reply ELSE rec.entries[k]]
  <2>3. rec' = [rec EXCEPT !.at = "cache", !.tries = rec.tries + 1, !.entries = entries]
    BY <1>6 DEF RequestAnswered
  <2> HIDE DEF entries
  <2>4. rec'.at = "cache"
    BY <2>2, <2>3
  <2>5. QED
    BY <1>2, <2>1, <2>4
<1>7. CASE RequestFails
  <2>1. rec.at = "asking" /\ cache' = cache
    BY <1>7 DEF RequestFails
  <2>2. RecorderStands(rec, manifest, cache)
    BY <2>1, Recording
  <2>3. /\ rec = [at |-> rec.at, pos |-> rec.pos, tries |-> rec.tries, attempts |-> rec.attempts,
                  entries |-> rec.entries, held |-> rec.held]
        /\ Job \notin DOMAIN cache
    BY <2>1, <2>2 DEF RecorderStands, Job
  <2>4. rec'.pos = rec.pos
    <3> DEFINE held == AddItem(rec.held, "ERROR", rec.tries + 1)
    <3>1. \/ rec' = [rec EXCEPT !.tries = rec.tries + 1]
          \/ rec' = [rec EXCEPT !.at = "receipt", !.tries = rec.tries + 1, !.held = held]
      BY <1>7 DEF RequestFails
    <3> HIDE DEF held
    <3>2. QED
      BY <2>3, <3>1
  <2>5. QED
    BY <2>1, <2>3, <2>4 DEF AnswersKept, Job
<1>8. CASE WriteCache
  <2>1. rec.at = "cache" /\ cache' = rec.entries
    BY <1>8 DEF WriteCache
  <2>2. RecorderStands(rec, manifest, cache)
    BY <2>1, Recording
  <2>3. /\ rec = [at |-> rec.at, pos |-> rec.pos, tries |-> rec.tries, attempts |-> rec.attempts,
                  entries |-> rec.entries, held |-> rec.held]
        /\ DOMAIN rec.entries = DOMAIN cache \cup {Job}
        /\ \A k \in DOMAIN cache : rec.entries[k] = cache[k]
    BY <2>1, <2>2 DEF RecorderStands, Job
  <2> DEFINE held == AddItem(rec.held, "RECORDED", rec.tries)
  <2>4. rec' = [rec EXCEPT !.at = "receipt", !.held = held]
    BY <1>8 DEF WriteCache
  <2> HIDE DEF held
  <2>5. rec'.at = "receipt"
    BY <2>3, <2>4
  <2>6. QED
    BY <2>1, <2>3, <2>5 DEF AnswersKept
<1>9. CASE WriteReceipt
  <2>1. rec.at = "receipt" /\ cache' = cache
    BY <1>9 DEF WriteReceipt
  <2>2. rec = [at |-> rec.at, pos |-> rec.pos, tries |-> rec.tries, attempts |-> rec.attempts,
               entries |-> rec.entries, held |-> rec.held]
    BY <2>1, Recording DEF RecorderStands
  <2> DEFINE written == Written(rec.held)
  <2>3. rec' = Idle \/ rec' = [rec EXCEPT !.at = "job", !.pos = rec.pos + 1, !.held = written]
    BY <1>9 DEF WriteReceipt
  <2> HIDE DEF written
  <2>4. rec'.at # "asking"
    <3>1. CASE rec' = Idle
      BY <3>1 DEF Idle
    <3>2. ASSUME rec' = [rec EXCEPT !.at = "job", !.pos = rec.pos + 1, !.held = written]
          PROVE  rec'.at = "job"
      BY <2>2, <3>2
    <3>3. QED
      BY <2>3, <3>1, <3>2
  <2>5. QED
    BY <1>2, <2>1, <2>4
<1>10. CASE RecorderStep
  BY <1>5, <1>6, <1>7, <1>8, <1>9, <1>10 DEF RecorderStep
<1>11. ASSUME NEW t \in MayBeHeldOut, HoldOut(t)
       PROVE  AnswersKept
  BY <1>1, <1>11 DEF HoldOut
<1>12. CASE Plan
  BY <1>1, <1>12 DEF Plan
<1>13. CASE run_batch_replay
  BY <1>1, <1>13 DEF run_batch_replay
<1>14. ASSUME NEW shard, WriteReviewedDraft(shard)
       PROVE  AnswersKept
  BY <1>1, <1>14 DEF WriteReviewedDraft
<1>15. CASE WriteInventory
  BY <1>1, <1>15 DEF WriteInventory
<1>16. QED
  BY <1>3, <1>4, <1>10, <1>11, <1>12, <1>13, <1>14, <1>15 DEF PipelineNext

\* No paid answer is lost or changed, and none is paid for twice.
THEOREM AnswersTheorem == PipelineSpec => AnswersAreKept
<1>1. FilesInv /\ RecorderInv /\ [PipelineNext]_pipelineVars => [AnswersKept]_pipelineVars
  BY AnswersStay
<1>2. QED
  BY <1>1, EvidenceInvariant, PTL DEF PipelineSpec, AnswersAreKept, AnswersKept

-----------------------------------------------------------------------------
(* The lowering of a task DAG.                                             *)

\* The least and the greatest frame of some.
LEMMA MinOfFrames ==
    ASSUME NEW S \in SUBSET Nat, S # {}
    PROVE  Min(S) \in S /\ \A j \in S : Min(S) <= j
<1>1. \E i \in S : \A j \in S : i <= j
  BY LeastNumber
<1>2. QED
  BY <1>1 DEF Min

LEMMA MaxOfFrames ==
    ASSUME NEW n \in Nat, NEW S \in SUBSET (0..n), S # {}
    PROVE  Max(S) \in S /\ \A j \in S : j <= Max(S)
<1>1. \E i \in S : \A j \in S : j <= i
  BY GreatestNumber
<1>2. \E i \in S : \A j \in S : i >= j
  BY <1>1
<1>3. QED
  BY <1>2 DEF Max

\* None of the fall-backs says that something is satisfied.
LEMMA ForemostIsNoSuccess ==
    ASSUME NEW present
    PROVE  Foremost(NotAll, present) # "SATISFIED"
<1> DEFINE held == {k \in DOMAIN NotAll : NotAll[k] \in present}
<1>1. CASE held = {}
  BY <1>1 DEF Foremost
<1>2. CASE held # {}
  <2>1. DOMAIN NotAll = 1..3
    BY DEF NotAll
  <2>2. held \in SUBSET Nat /\ held \subseteq 1..3
    BY <2>1
  <2>3. Min(held) \in 1..3
    <3> HIDE DEF held
    <3> QED BY <1>2, <2>2, MinOfFrames
  <2>4. \A k \in 1..3 : NotAll[k] # "SATISFIED"
    BY DEF NotAll
  <2>5. Foremost(NotAll, present) = NotAll[Min(held)]
    BY <1>2 DEF Foremost
  <2>6. QED
    BY <2>3, <2>4, <2>5
<1>3. QED
  BY <1>1, <1>2

LEMMA NoAlternativeIsNoSuccess ==
    ASSUME NEW statuses
    PROVE  NoAlternative(statuses) # "SATISFIED"
BY DEF NoAlternative

\* A topological order of a DAG, as numbers.
Ordered(dag, rank) ==
    /\ rank \in [Nodes(dag) -> 0 .. Cardinality(Nodes(dag))]
    /\ \A e \in dag.edges : rank[e.parent] < rank[e.child]

LEMMA ParentsComeFirst ==
    ASSUME NEW dag, ValidDag(dag), NEW rank, Ordered(dag, rank), NEW n \in Nodes(dag),
           NEW p \in EffectiveParents(dag, n)
    PROVE  p \in Nodes(dag) /\ rank[p] \in Nat /\ rank[n] \in Nat /\ rank[p] < rank[n]
<1>1. Cardinality(Nodes(dag)) \in Nat
  BY FS_CardinalityType DEF ValidDag
<1>2. PICK e \in dag.edges : e.parent = p /\ e.child = n
  BY DEF EffectiveParents, ParentsBy
<1>3. p \in Nodes(dag)
  BY <1>2 DEF ValidDag
<1>4. \A k \in Nodes(dag) : rank[k] \in Nat
  BY <1>1 DEF Ordered
<1>5. QED
  BY <1>2, <1>3, <1>4 DEF Ordered

\* The parents a node depends on, by mode.
LEMMA ModesHaveParents ==
    ASSUME NEW dag, NEW n
    PROVE  /\ EffectiveMode(dag, n) \in {"ROOT", "ALL_OF", "ANY_OF"}
           /\ EffectiveMode(dag, n) \in {"ALL_OF", "ANY_OF"} => EffectiveParents(dag, n) # {}
BY DEF EffectiveMode, EffectiveParents

\* g gives each of these nodes its result.
Solves(dag, frames, table, deadline, g, nodes) ==
    /\ DOMAIN g = nodes
    /\ \A n \in nodes : g[n] = NodeResult(dag, frames, table, deadline, n,
                                          {g[p] : p \in EffectiveParents(dag, n)})

\* Results of the nodes up to some place of the order, and so of all.
LEMMA ResultsExist ==
    ASSUME NEW dag, NEW frames, NEW table, NEW deadline, ValidDag(dag)
    PROVE  \E g : Solves(dag, frames, table, deadline, g, Nodes(dag))
<1>0. PICK rank : Ordered(dag, rank)
  BY DEF ValidDag, Ordered
<1> DEFINE Until(k) == {n \in Nodes(dag) : rank[n] < k}
           Sol(g, k) == Solves(dag, frames, table, deadline, g, Until(k))
           Bad == {k \in Nat : ~\E g : Sol(g, k)}
<1>1. Cardinality(Nodes(dag)) \in Nat
  BY FS_CardinalityType DEF ValidDag
<1>2. \A n \in Nodes(dag) : rank[n] \in 0 .. Cardinality(Nodes(dag)) /\ rank[n] \in Nat
  BY <1>0, <1>1 DEF Ordered
<1>3. Bad = {}
  <2> SUFFICES ASSUME Bad # {} PROVE FALSE
    OBVIOUS
  <2>1. PICK m \in Bad : \A j \in Bad : m <= j
    <3>1. Bad \in SUBSET Nat
      OBVIOUS
    <3> HIDE DEF Bad
    <3> QED BY <3>1, LeastNumber
  <2>2. m \in Nat
    BY <2>1
  <2>3. m # 0
    <3>1. Until(0) = {}
      BY <1>2
    <3>2. Sol([n \in {} |-> n], 0)
      BY <3>1 DEF Solves
    <3>3. QED
      BY <2>1, <3>2
  <2>4. m - 1 \in Nat /\ m - 1 \notin Bad
    <3>1. m - 1 \in Nat /\ ~(m <= m - 1)
      BY <2>2, <2>3
    <3> HIDE DEF Bad
    <3> QED BY <2>1, <3>1
  <2>5. PICK g : Sol(g, m - 1)
    BY <2>4
  <2> DEFINE Result(n) == NodeResult(dag, frames, table, deadline, n,
                                     {g[p] : p \in EffectiveParents(dag, n)})
             h == [n \in Until(m) |-> Result(n)]
  <2>6. ASSUME NEW n \in Until(m - 1) PROVE n \in Until(m) /\ h[n] = g[n]
    <3>1. n \in Until(m)
      BY <1>2, <2>2
    <3>2. g[n] = Result(n)
      BY <2>5 DEF Solves
    <3>3. QED
      <4> HIDE DEF Result
      <4> QED BY <3>1, <3>2
  <2>7. ASSUME NEW n \in Until(m)
        PROVE  {h[p] : p \in EffectiveParents(dag, n)} = {g[p] : p \in EffectiveParents(dag, n)}
    <3>1. ASSUME NEW p \in EffectiveParents(dag, n) PROVE p \in Until(m - 1)
      <4>1. n \in Nodes(dag) /\ rank[n] < m
        OBVIOUS
      <4>2. p \in Nodes(dag) /\ rank[p] \in Nat /\ rank[n] \in Nat /\ rank[p] < rank[n]
        BY <1>0, <4>1, ParentsComeFirst
      <4>3. QED
        BY <2>2, <4>1, <4>2
    <3> HIDE DEF h, Until
    <3>2. \A p \in EffectiveParents(dag, n) : h[p] = g[p]
      BY <2>6, <3>1
    <3>3. QED
      BY <3>2
  <2>8. Sol(h, m)
    <3>1. \A n \in Until(m) : h[n] = Result(n)
      <4> HIDE DEF Result, Until
      <4> QED OBVIOUS
    <3>2. DOMAIN h = Until(m)
      <4> HIDE DEF Result, Until
      <4> QED OBVIOUS
    <3> HIDE DEF h, Until
    <3>3. \A n \in Until(m) : h[n] = NodeResult(dag, frames, table, deadline, n,
                                                {h[p] : p \in EffectiveParents(dag, n)})
      BY <2>7, <3>1
    <3>4. QED
      BY <3>2, <3>3 DEF Solves
  <2>9. QED
    <3> HIDE DEF h, Sol
    <3> QED BY <2>1, <2>8
<1>4. Until(Cardinality(Nodes(dag)) + 1) = Nodes(dag)
  BY <1>1, <1>2
<1>5. Cardinality(Nodes(dag)) + 1 \notin Bad /\ Cardinality(Nodes(dag)) + 1 \in Nat
  <2> HIDE DEF Bad
  <2> QED BY <1>1, <1>3
<1>6. QED
  BY <1>4, <1>5

\* NodeResults gives every node its result.
LEMMA ResultsSolve ==
    ASSUME NEW dag, NEW frames, NEW table, NEW deadline, ValidDag(dag)
    PROVE  Solves(dag, frames, table, deadline, NodeResults(dag, frames, table, deadline), Nodes(dag))
<1> DEFINE Def(f) == f = [n \in Nodes(dag) |->
                            NodeResult(dag, frames, table, deadline, n,
                                       {f[p] : p \in EffectiveParents(dag, n)})]
           all == CHOOSE f : Def(f)
<1>1. NodeResults(dag, frames, table, deadline) = all
  BY DEF NodeResults
<1>2. PICK g : Solves(dag, frames, table, deadline, g, Nodes(dag))
  BY ResultsExist
<1> DEFINE r == [n \in Nodes(dag) |-> g[n]]
<1>3. Def(r)
  <2>1. ASSUME NEW n \in Nodes(dag)
        PROVE  {r[p] : p \in EffectiveParents(dag, n)} = {g[p] : p \in EffectiveParents(dag, n)}
    <3>1. \A p \in EffectiveParents(dag, n) : p \in Nodes(dag)
      <4>1. PICK rank : Ordered(dag, rank)
        BY DEF ValidDag, Ordered
      <4>2. QED
        BY <4>1, ParentsComeFirst
    <3>2. QED
      BY <3>1
  <2>2. \A n \in Nodes(dag) : r[n] = g[n]
    OBVIOUS
  <2>3. \A n \in Nodes(dag) : r[n] = NodeResult(dag, frames, table, deadline, n,
                                               {r[p] : p \in EffectiveParents(dag, n)})
    <3> HIDE DEF r
    <3> QED BY <1>2, <2>1, <2>2 DEF Solves
  <2>4. r = [n \in Nodes(dag) |-> r[n]]
    OBVIOUS
  <2> HIDE DEF r
  <2>5. QED
    BY <2>3, <2>4
<1>4. Def(all)
  <2> HIDE DEF Def, r
  <2> QED BY <1>3
<1>5. DOMAIN all = Nodes(dag)
  <2> HIDE DEF all
  <2> QED BY <1>4
<1>6. \A n \in Nodes(dag) : all[n] = NodeResult(dag, frames, table, deadline, n,
                                                  {all[p] : p \in EffectiveParents(dag, n)})
  <2> HIDE DEF all
  <2> QED BY <1>4
<1>7. QED
  <2> HIDE DEF all
  <2> QED BY <1>1, <1>5, <1>6 DEF Solves

\* The frames on which a node holds behind what it depends on, given what matched when.
Hits(dag, frames, table, results, n) ==
    {f \in 1 .. Len(frames) :
        /\ FrameStatus(dag, table, n, f, TRUE) = "SATISFIED"
        /\ CASE EffectiveMode(dag, n) = "ROOT" -> TRUE
             [] EffectiveMode(dag, n) = "ALL_OF" ->
                    \A p \in EffectiveParents(dag, n) :
                        0 < results[p].matched /\ results[p].matched < f
             [] EffectiveMode(dag, n) = "ANY_OF" ->
                    \E p \in EffectiveParents(dag, n) :
                        0 < results[p].matched /\ results[p].matched < f}

\* A node matches on the first of them.
Tells(dag, frames, table, results, n) ==
    LET hits == Hits(dag, frames, table, results, n) IN
    /\ results[n].matched = IF hits = {} THEN 0 ELSE Min(hits)
    /\ results[n].candidates = IF hits = {} THEN {} ELSE CandidateFrames(dag, n, hits)

\* What a node's result is made of: behind the last of its conjuncts, behind the first of
\* its alternatives.
LEMMA ResultTells ==
    ASSUME NEW dag, NEW frames, NEW table, NEW results, Len(frames) \in Nat,
           NEW n \in Nodes(dag),
           results[n] = NodeResult(dag, frames, table, TRUE, n,
                                   {results[p] : p \in EffectiveParents(dag, n)}),
           \A p \in EffectiveParents(dag, n) : results[p].matched \in 0 .. Len(frames)
    PROVE  Tells(dag, frames, table, results, n)
<1> DEFINE mode == EffectiveMode(dag, n)
           parents == {results[p] : p \in EffectiveParents(dag, n)}
           matched == {r.matched : r \in parents} \ {0}
           blocked == IF mode = "ALL_OF" THEN \E r \in parents : r.matched = 0
                      ELSE mode = "ANY_OF" /\ matched = {}
           window == IF blocked THEN {} ELSE StartFrame(mode, matched) .. Len(frames)
           hits == {f \in window : FrameStatus(dag, table, n, f, TRUE) = "SATISFIED"}
<1>1. /\ results[n].matched = IF blocked \/ hits = {} THEN 0 ELSE Min(hits)
      /\ results[n].candidates = IF blocked \/ hits = {} THEN {} ELSE CandidateFrames(dag, n, hits)
  <2> DEFINE none == [status |-> BlockedStatus(mode, {r.status : r \in parents}),
                      matched |-> 0, candidates |-> {}]
             held == [status |-> "SATISFIED", matched |-> Min(hits),
                      candidates |-> CandidateFrames(dag, n, hits)]
             unseen == [status |-> Foremost(NotSeen, {FrameStatus(dag, table, n, f, TRUE) : f \in window}),
                        matched |-> 0, candidates |-> {}]
  <2>1. results[n] = CASE blocked -> none [] ~blocked /\ hits # {} -> held [] OTHER -> unseen
    BY DEF NodeResult
  <2>2. /\ none.matched = 0 /\ none.candidates = {}
        /\ unseen.matched = 0 /\ unseen.candidates = {}
        /\ held.matched = Min(hits) /\ held.candidates = CandidateFrames(dag, n, hits)
    <3> HIDE DEF hits, window, parents, mode
    <3> QED OBVIOUS
  <2> HIDE DEF blocked, hits, none, held, unseen
  <2>3. CASE blocked
    <3>1. results[n] = none
      BY <2>1, <2>3
    <3>2. QED
      BY <2>2, <2>3, <3>1
  <2>4. CASE ~blocked /\ hits # {}
    <3>1. results[n] = held
      BY <2>1, <2>4
    <3>2. QED
      BY <2>2, <2>4, <3>1
  <2>5. CASE ~blocked /\ hits = {}
    <3>1. results[n] = unseen
      BY <2>1, <2>5
    <3>2. QED
      BY <2>2, <2>5, <3>1
  <2>6. QED
    BY <2>3, <2>4, <2>5
<1>2. \A p \in EffectiveParents(dag, n) : results[p] \in parents
  OBVIOUS
<1>3. \A r \in parents : \E p \in EffectiveParents(dag, n) : r = results[p]
  OBVIOUS
<1>4. matched \subseteq 1 .. Len(frames)
  <2> HIDE DEF parents
  <2> QED BY <1>3
<1>5. \A p \in EffectiveParents(dag, n) : results[p].matched # 0 => results[p].matched \in matched
  OBVIOUS
<1>6. \A k \in matched : \E p \in EffectiveParents(dag, n) : k = results[p].matched /\ k # 0
  OBVIOUS
<1>7. blocked => Hits(dag, frames, table, results, n) = {}
  <2>1. CASE mode = "ALL_OF"
    <3> SUFFICES ASSUME blocked, NEW f \in Hits(dag, frames, table, results, n) PROVE FALSE
      OBVIOUS
    <3>1. PICK p \in EffectiveParents(dag, n) : results[p].matched = 0
      BY <2>1, <1>3
    <3>2. \A q \in EffectiveParents(dag, n) : 0 < results[q].matched
      BY <2>1 DEF Hits
    <3>3. QED
      BY <3>1, <3>2
  <2>2. CASE mode # "ALL_OF"
    <3> SUFFICES ASSUME blocked, NEW f \in Hits(dag, frames, table, results, n) PROVE FALSE
      OBVIOUS
    <3>1. mode = "ANY_OF" /\ matched = {}
      <4> HIDE DEF mode, matched
      <4> QED BY <2>2
    <3>2. PICK p \in EffectiveParents(dag, n) : 0 < results[p].matched
      BY <3>1 DEF Hits
    <3>3. QED
      <4> HIDE DEF matched
      <4> QED BY <1>5, <3>1, <3>2
  <2>3. QED
    BY <2>1, <2>2
<1>8. ~blocked => hits = Hits(dag, frames, table, results, n)
  <2> SUFFICES ASSUME ~blocked PROVE hits = Hits(dag, frames, table, results, n)
    OBVIOUS
  <2>0. window = StartFrame(mode, matched) .. Len(frames)
    <3> HIDE DEF blocked, matched, mode
    <3> QED OBVIOUS
  <2>1. CASE mode = "ROOT"
    <3>1. window = 1 .. Len(frames)
      <4> HIDE DEF matched, mode, window
      <4> QED BY <2>0, <2>1 DEF StartFrame
    <3>2. QED
      <4> HIDE DEF window
      <4> QED BY <2>1, <3>1 DEF Hits
  <2>2. CASE mode = "ALL_OF"
    <3>1. \A p \in EffectiveParents(dag, n) : results[p].matched # 0
      BY <1>2, <2>2
    <3>2. matched # {} /\ matched \in SUBSET (0 .. Len(frames))
      <4>1. EffectiveParents(dag, n) # {}
        BY <2>2, ModesHaveParents
      <4> HIDE DEF matched
      <4>2. QED
        BY <1>4, <1>5, <3>1, <4>1
    <3> HIDE DEF matched, blocked
    <3>3. Max(matched) \in matched /\ \A k \in matched : k <= Max(matched)
      BY <3>2, MaxOfFrames
    <3>4. window = Max(matched) + 1 .. Len(frames)
      <4> HIDE DEF mode, window
      <4> QED BY <2>0, <2>2 DEF StartFrame
    <3>5. Max(matched) \in Nat /\ 0 < Max(matched)
      <4>1. \A k \in 1 .. Len(frames) : k \in Nat /\ 0 < k
        OBVIOUS
      <4>2. Max(matched) \in 1 .. Len(frames)
        BY <1>4, <3>3
      <4>3. QED
        BY <4>1, <4>2
    <3>6. ASSUME NEW f
          PROVE f \in window <=> /\ f \in 1 .. Len(frames)
                                  /\ \A p \in EffectiveParents(dag, n) :
                                        0 < results[p].matched /\ results[p].matched < f
      <4>1. ASSUME f \in window, NEW p \in EffectiveParents(dag, n)
            PROVE  0 < results[p].matched /\ results[p].matched < f
        <5>1. results[p].matched \in matched /\ results[p].matched \in 0 .. Len(frames)
          BY <1>5, <3>1
        <5>2. results[p].matched <= Max(matched)
          BY <3>3, <5>1
        <5>3. f \in Int /\ Max(matched) + 1 <= f
          <6> HIDE DEF window
          <6> QED BY <3>4, <3>5, <4>1
        <5>4. QED
          BY <3>1, <3>5, <5>1, <5>2, <5>3
      <4>2. f \in window => f \in 1 .. Len(frames)
        <5> HIDE DEF window
        <5> QED BY <3>4, <3>5
      <4>3. ASSUME f \in 1 .. Len(frames),
                   \A p \in EffectiveParents(dag, n) : 0 < results[p].matched /\ results[p].matched < f
            PROVE  f \in window
        <5>1. PICK p \in EffectiveParents(dag, n) : Max(matched) = results[p].matched
          BY <1>6, <3>3
        <5>2. Max(matched) < f
          BY <4>3, <5>1
        <5> HIDE DEF window
        <5>3. QED
          BY <3>4, <3>5, <4>3, <5>2
      <4> HIDE DEF window
      <4>4. QED
        BY <4>1, <4>2, <4>3
    <3>7. \A f : f \in Hits(dag, frames, table, results, n) <=>
              /\ f \in 1 .. Len(frames) /\ FrameStatus(dag, table, n, f, TRUE) = "SATISFIED"
              /\ \A p \in EffectiveParents(dag, n) : 0 < results[p].matched /\ results[p].matched < f
      BY <2>2 DEF Hits
    <3> HIDE DEF window
    <3>8. QED
      BY <3>6, <3>7
  <2>3. CASE mode = "ANY_OF"
    <3>1. matched # {} /\ matched \in SUBSET Nat
      <4>1. matched # {}
        <5> HIDE DEF matched
        <5> QED BY <2>3
      <4> HIDE DEF matched
      <4> QED BY <1>4, <4>1
    <3> HIDE DEF matched, blocked
    <3>3. Min(matched) \in matched /\ \A k \in matched : Min(matched) <= k
      BY <3>1, MinOfFrames
    <3>4. window = Min(matched) + 1 .. Len(frames)
      <4> HIDE DEF mode, window
      <4> QED BY <2>0, <2>3 DEF StartFrame
    <3>5. Min(matched) \in Nat /\ 0 < Min(matched)
      <4>1. \A k \in 1 .. Len(frames) : k \in Nat /\ 0 < k
        OBVIOUS
      <4>2. Min(matched) \in 1 .. Len(frames)
        BY <1>4, <3>3
      <4>3. QED
        BY <4>1, <4>2
    <3>6. ASSUME NEW f
          PROVE f \in window <=> /\ f \in 1 .. Len(frames)
                                  /\ \E p \in EffectiveParents(dag, n) :
                                        0 < results[p].matched /\ results[p].matched < f
      <4>1. ASSUME f \in window
            PROVE  \E p \in EffectiveParents(dag, n) : 0 < results[p].matched /\ results[p].matched < f
        <5>1. PICK p \in EffectiveParents(dag, n) : Min(matched) = results[p].matched
          BY <1>6, <3>3
        <5>2. Min(matched) < f
          <6> HIDE DEF window
          <6> QED BY <3>4, <3>5, <4>1
        <5>3. QED
          BY <3>5, <5>1, <5>2
      <4>2. f \in window => f \in 1 .. Len(frames)
        <5> HIDE DEF window
        <5> QED BY <3>4, <3>5
      <4>3. ASSUME f \in 1 .. Len(frames),
                   \E p \in EffectiveParents(dag, n) : 0 < results[p].matched /\ results[p].matched < f
            PROVE  f \in window
        <5>1. PICK p \in EffectiveParents(dag, n) : 0 < results[p].matched /\ results[p].matched < f
          BY <4>3
        <5>2. results[p].matched \in matched /\ results[p].matched \in 0 .. Len(frames)
          BY <1>5, <5>1
        <5>3. Min(matched) <= results[p].matched
          BY <3>3, <5>2
        <5>4. Min(matched) + 1 <= f
          BY <3>5, <4>3, <5>1, <5>2, <5>3
        <5> HIDE DEF window
        <5>5. QED
          BY <3>4, <3>5, <4>3, <5>4
      <4> HIDE DEF window
      <4>4. QED
        BY <4>1, <4>2, <4>3
    <3>7. \A f : f \in Hits(dag, frames, table, results, n) <=>
              /\ f \in 1 .. Len(frames) /\ FrameStatus(dag, table, n, f, TRUE) = "SATISFIED"
              /\ \E p \in EffectiveParents(dag, n) : 0 < results[p].matched /\ results[p].matched < f
      BY <2>3 DEF Hits
    <3> HIDE DEF window
    <3>8. QED
      BY <3>6, <3>7
  <2>4. QED
    BY <2>1, <2>2, <2>3, ModesHaveParents
<1>9. QED
  <2> HIDE DEF blocked, hits
  <2> QED BY <1>1, <1>7, <1>8 DEF Tells

\* The first of some frames is a frame.
LEMMA HitsAreFrames ==
    ASSUME NEW dag, NEW frames, NEW table, NEW results, NEW n, Len(frames) \in Nat
    PROVE  LET hits == Hits(dag, frames, table, results, n) IN
           /\ hits \subseteq 1 .. Len(frames)
           /\ hits # {} => Min(hits) \in hits /\ \A f \in hits : Min(hits) <= f
<1> DEFINE hits == Hits(dag, frames, table, results, n)
<1>1. hits \subseteq 1 .. Len(frames)
  BY DEF Hits
<1>2. hits \in SUBSET Nat
  <2> HIDE DEF hits
  <2> QED BY <1>1
<1>3. hits # {} => Min(hits) \in hits /\ \A f \in hits : Min(hits) <= f
  <2> HIDE DEF hits
  <2> QED BY <1>2, MinOfFrames
<1>4. QED
  BY <1>1, <1>3

\* So every node's result tells it.
LEMMA ResultsTell ==
    ASSUME NEW dag, NEW frames, NEW table, NEW results, Len(frames) \in Nat, ValidDag(dag),
           Solves(dag, frames, table, TRUE, results, Nodes(dag))
    PROVE  \A n \in Nodes(dag) : /\ results[n].matched \in 0 .. Len(frames)
                                 /\ Tells(dag, frames, table, results, n)
<1>0. PICK rank : Ordered(dag, rank)
  BY DEF ValidDag, Ordered
<1>1. Cardinality(Nodes(dag)) \in Nat
  BY FS_CardinalityType DEF ValidDag
<1>2. \A n \in Nodes(dag) : rank[n] \in Nat
  BY <1>0, <1>1 DEF Ordered
<1> DEFINE Good(n) == /\ results[n].matched \in 0 .. Len(frames)
                      /\ Tells(dag, frames, table, results, n)
           Bad == {rank[n] : n \in {m \in Nodes(dag) : ~Good(m)}}
<1>3. ASSUME NEW n \in Nodes(dag), \A p \in EffectiveParents(dag, n) : Good(p)
      PROVE  Good(n)
  <2>1. \A p \in EffectiveParents(dag, n) : results[p].matched \in 0 .. Len(frames)
    BY <1>3
  <2>2. results[n] = NodeResult(dag, frames, table, TRUE, n,
                                {results[p] : p \in EffectiveParents(dag, n)})
    BY DEF Solves
  <2>3. Tells(dag, frames, table, results, n)
    BY <2>1, <2>2, ResultTells
  <2>4. results[n].matched \in 0 .. Len(frames)
    BY <2>3, HitsAreFrames DEF Tells
  <2>5. QED
    BY <2>3, <2>4
<1>4. Bad = {}
  <2> SUFFICES ASSUME Bad # {} PROVE FALSE
    OBVIOUS
  <2>1. PICK k \in Bad : \A j \in Bad : k <= j
    <3>1. Bad \in SUBSET Nat
      <4> HIDE DEF Good
      <4> QED BY <1>2
    <3> HIDE DEF Bad
    <3> QED BY <3>1, LeastNumber
  <2>2. PICK n \in Nodes(dag) : ~Good(n) /\ k = rank[n]
    <3> HIDE DEF Good
    <3> QED BY <2>1
  <2>3. ASSUME NEW p \in EffectiveParents(dag, n) PROVE Good(p)
    <3>1. p \in Nodes(dag) /\ rank[p] \in Nat /\ rank[n] \in Nat /\ rank[p] < rank[n]
      BY <1>0, ParentsComeFirst
    <3>2. rank[p] \notin Bad
      <4> HIDE DEF Bad
      <4> QED BY <2>1, <2>2, <3>1
    <3> HIDE DEF Good
    <3>3. QED
      BY <3>1, <3>2
  <2> HIDE DEF Good, Bad
  <2>4. QED
    BY <1>3, <2>2, <2>3
<1>5. \A n \in Nodes(dag) : Good(n)
  <2> HIDE DEF Good
  <2> QED BY <1>4
<1>6. QED
  BY <1>5

\* No walk is at a node earlier than the results say it matches.
LEMMA NoWalkIsEarlier ==
    ASSUME NEW dag, NEW frames, NEW table, NEW results, Len(frames) \in Nat, ValidDag(dag),
           Solves(dag, frames, table, TRUE, results, Nodes(dag)),
           NEW at \in [Nodes(dag) -> 0 .. Len(frames)], WalksTo(dag, table, at)
    PROVE  \A n \in Nodes(dag) : at[n] # 0 =>
               /\ at[n] \in Hits(dag, frames, table, results, n)
               /\ 0 < results[n].matched /\ results[n].matched <= at[n]
<1>0. PICK rank : Ordered(dag, rank)
  BY DEF ValidDag, Ordered
<1>1. Cardinality(Nodes(dag)) \in Nat
  BY FS_CardinalityType DEF ValidDag
<1>2. \A n \in Nodes(dag) : rank[n] \in Nat
  BY <1>0, <1>1 DEF Ordered
<1> DEFINE Good(n) == at[n] # 0 =>
                        /\ at[n] \in Hits(dag, frames, table, results, n)
                        /\ 0 < results[n].matched /\ results[n].matched <= at[n]
           Bad == {rank[n] : n \in {m \in Nodes(dag) : ~Good(m)}}
<1>3. ASSUME NEW n \in Nodes(dag), \A p \in EffectiveParents(dag, n) : p \in Nodes(dag) /\ Good(p)
      PROVE  Good(n)
  <2> SUFFICES ASSUME at[n] # 0
               PROVE  /\ at[n] \in Hits(dag, frames, table, results, n)
                      /\ 0 < results[n].matched /\ results[n].matched <= at[n]
    OBVIOUS
  <2>1. at[n] \in 1 .. Len(frames)
    <3>1. at[n] \in 0 .. Len(frames)
      OBVIOUS
    <3>2. QED
      BY <3>1
  <2>2. FrameStatus(dag, table, n, at[n], TRUE) = "SATISFIED"
    BY DEF WalksTo
  <2>3. ASSUME NEW p \in EffectiveParents(dag, n), 0 < at[p], at[p] < at[n]
        PROVE  0 < results[p].matched /\ results[p].matched < at[n]
    <3>1. at[p] \in 0 .. Len(frames) /\ at[p] # 0
      BY <1>3, <2>3
    <3>2. 0 < results[p].matched /\ results[p].matched <= at[p]
      BY <1>3, <3>1
    <3>3. results[p].matched \in 0 .. Len(frames)
      BY <1>3, ResultsTell
    <3>4. QED
      BY <2>1, <2>3, <3>1, <3>2, <3>3
  <2>4. at[n] \in Hits(dag, frames, table, results, n)
    <3>1. CASE EffectiveMode(dag, n) = "ROOT"
      BY <2>1, <2>2, <3>1 DEF Hits
    <3>2. CASE EffectiveMode(dag, n) = "ALL_OF"
      <4>1. \A p \in EffectiveParents(dag, n) : 0 < at[p] /\ at[p] < at[n]
        BY <3>2 DEF WalksTo
      <4>2. \A p \in EffectiveParents(dag, n) : 0 < results[p].matched /\ results[p].matched < at[n]
        BY <2>3, <4>1
      <4>3. QED
        BY <2>1, <2>2, <3>2, <4>2 DEF Hits
    <3>3. CASE EffectiveMode(dag, n) = "ANY_OF"
      <4>1. \E p \in EffectiveParents(dag, n) : 0 < at[p] /\ at[p] < at[n]
        BY <3>3 DEF WalksTo
      <4>2. \E p \in EffectiveParents(dag, n) : 0 < results[p].matched /\ results[p].matched < at[n]
        BY <2>3, <4>1
      <4>3. QED
        BY <2>1, <2>2, <3>3, <4>2 DEF Hits
    <3>4. QED
      BY <3>1, <3>2, <3>3, ModesHaveParents
  <2>5. results[n].matched = Min(Hits(dag, frames, table, results, n))
    BY <2>4, ResultsTell DEF Tells
  <2>6. /\ results[n].matched \in 1 .. Len(frames)
        /\ results[n].matched <= at[n]
    BY <2>4, <2>5, HitsAreFrames
  <2>7. QED
    BY <2>4, <2>6
<1>4. Bad = {}
  <2> SUFFICES ASSUME Bad # {} PROVE FALSE
    OBVIOUS
  <2>1. PICK k \in Bad : \A j \in Bad : k <= j
    <3>1. Bad \in SUBSET Nat
      <4> HIDE DEF Good
      <4> QED BY <1>2
    <3> HIDE DEF Bad
    <3> QED BY <3>1, LeastNumber
  <2>2. PICK n \in Nodes(dag) : ~Good(n) /\ k = rank[n]
    <3> HIDE DEF Good
    <3> QED BY <2>1
  <2>3. ASSUME NEW p \in EffectiveParents(dag, n) PROVE p \in Nodes(dag) /\ Good(p)
    <3>1. p \in Nodes(dag) /\ rank[p] \in Nat /\ rank[n] \in Nat /\ rank[p] < rank[n]
      BY <1>0, ParentsComeFirst
    <3>2. rank[p] \notin Bad
      <4> HIDE DEF Bad
      <4> QED BY <2>1, <2>2, <3>1
    <3> HIDE DEF Good
    <3>3. QED
      BY <3>1, <3>2
  <2> HIDE DEF Good, Bad
  <2>4. QED
    BY <1>3, <2>2, <2>3
<1>5. \A n \in Nodes(dag) : Good(n)
  <2> HIDE DEF Good
  <2> QED BY <1>4
<1>6. QED
  BY <1>5

\* Some walk is at a node on a frame.
Reaches(dag, frames, table, n, f) ==
    \E at \in [Nodes(dag) -> 0 .. Len(frames)] : WalksTo(dag, table, at) /\ at[n] = f

\* The walk the results describe, broken off at a node that is entered on any of its
\* hits: the nodes before it where they match first, none behind it.
LEMMA ResultsWalk ==
    ASSUME NEW dag, NEW frames, NEW table, NEW results, Len(frames) \in Nat, ValidDag(dag),
           Solves(dag, frames, table, TRUE, results, Nodes(dag)),
           NEW n \in Nodes(dag), NEW f \in Hits(dag, frames, table, results, n)
    PROVE  Reaches(dag, frames, table, n, f)
<1>0. PICK rank : Ordered(dag, rank)
  BY DEF ValidDag, Ordered
<1> DEFINE at == [m \in Nodes(dag) |-> IF m = n THEN f
                                       ELSE IF rank[m] < rank[n] THEN results[m].matched ELSE 0]
<1>1. \A m \in Nodes(dag) : results[m].matched \in 0 .. Len(frames)
  BY ResultsTell
<1>2. f \in 1 .. Len(frames)
  BY DEF Hits
<1>3. at \in [Nodes(dag) -> 0 .. Len(frames)]
  <2>1. \A m \in Nodes(dag) : (IF m = n THEN f
              ELSE IF rank[m] < rank[n] THEN results[m].matched ELSE 0) \in 0 .. Len(frames)
    BY <1>1, <1>2
  <2>2. QED
    BY <2>1
<1>4. ASSUME NEW m \in Nodes(dag), at[m] # 0, NEW p \in EffectiveParents(dag, m)
      PROVE  at[p] = results[p].matched
  <2>1. p \in Nodes(dag) /\ rank[p] \in Nat /\ rank[m] \in Nat /\ rank[p] < rank[m]
    BY <1>0, ParentsComeFirst
  <2>2. rank[m] < rank[n] \/ m = n
    BY <1>4
  <2>3. rank[n] \in Nat
    <3>1. Cardinality(Nodes(dag)) \in Nat
      BY FS_CardinalityType DEF ValidDag
    <3>2. QED
      BY <1>0, <3>1 DEF Ordered
  <2>4. rank[p] < rank[n] /\ p # n
    BY <2>1, <2>2, <2>3
  <2>5. QED
    BY <2>1, <2>4
<1>5. ASSUME NEW m \in Nodes(dag), at[m] # 0
      PROVE  at[m] \in Hits(dag, frames, table, results, m)
  <2>1. CASE m = n
    BY <2>1
  <2>2. CASE m # n
    <3>1. at[m] = results[m].matched
      BY <1>5, <2>2
    <3>2. Tells(dag, frames, table, results, m)
      BY ResultsTell
    <3>3. /\ Hits(dag, frames, table, results, m) # {}
          /\ at[m] = Min(Hits(dag, frames, table, results, m))
      <4> HIDE DEF at
      <4> QED BY <1>5, <3>1, <3>2 DEF Tells
    <3>4. QED
      <4> HIDE DEF at
      <4> QED BY <3>3, HitsAreFrames
  <2>3. QED
    BY <2>1, <2>2
<1>6. at[n] = f
  OBVIOUS
<1> HIDE DEF at
<1>7. WalksTo(dag, table, at)
  <2> SUFFICES ASSUME NEW m \in Nodes(dag), at[m] # 0
               PROVE  /\ FrameStatus(dag, table, m, at[m], TRUE) = "SATISFIED"
                      /\ CASE EffectiveMode(dag, m) = "ROOT" -> TRUE
                           [] EffectiveMode(dag, m) = "ALL_OF" ->
                                \A p \in EffectiveParents(dag, m) : 0 < at[p] /\ at[p] < at[m]
                           [] EffectiveMode(dag, m) = "ANY_OF" ->
                                \E p \in EffectiveParents(dag, m) : 0 < at[p] /\ at[p] < at[m]
    BY DEF WalksTo
  <2>1. at[m] \in Hits(dag, frames, table, results, m)
    BY <1>5
  <2>2. \A p \in EffectiveParents(dag, m) : at[p] = results[p].matched
    BY <1>4
  <2>3. FrameStatus(dag, table, m, at[m], TRUE) = "SATISFIED"
    BY <2>1 DEF Hits
  <2>4. CASE EffectiveMode(dag, m) = "ROOT"
    BY <2>3, <2>4
  <2>5. CASE EffectiveMode(dag, m) = "ALL_OF"
    <3>1. \A p \in EffectiveParents(dag, m) :
              0 < results[p].matched /\ results[p].matched < at[m]
      BY <2>1, <2>5 DEF Hits
    <3>2. QED
      BY <2>2, <2>3, <2>5, <3>1
  <2>6. CASE EffectiveMode(dag, m) = "ANY_OF"
    <3>1. \E p \in EffectiveParents(dag, m) :
              0 < results[p].matched /\ results[p].matched < at[m]
      BY <2>1, <2>6 DEF Hits
    <3>2. QED
      BY <2>2, <2>3, <2>6, <3>1
  <2>7. QED
    BY <2>4, <2>5, <2>6, ModesHaveParents
<1>8. QED
  BY <1>3, <1>6, <1>7 DEF Reaches

\* The lowering neither invents a walk nor misses one.
LEMMA LoweringFindsTheWalks ==
    ASSUME NEW dag, NEW frames, NEW context, Len(frames) \in Nat, ValidDag(dag)
    PROVE  (acquire_and_evaluate_legacy_contract(dag, frames, context) = "SATISFIED")
              <=> Walks(dag, frames, context)
<1> DEFINE table == acquire_legacy_checker_outcomes(dag, frames, context)
           results == NodeResults(dag, frames, table, TRUE)
           last == Len(frames)
           Ends(n) == \E at \in [Nodes(dag) -> 0 .. last] : WalksTo(dag, table, at) /\ at[n] = last
           targets == {TargetStatus(last, results[n], TRUE) : n \in dag.success}
<1>1. Solves(dag, frames, table, TRUE, results, Nodes(dag))
  <2> HIDE DEF table
  <2> QED BY ResultsSolve
<1>2. ASSUME NEW n \in dag.success
      PROVE  (TargetStatus(last, results[n], TRUE) = "SATISFIED") <=> (last > 0 /\ Ends(n))
  <2> HIDE DEF table, results
  <2>0. n \in Nodes(dag)
    BY DEF ValidDag
  <2>1. (TargetStatus(last, results[n], TRUE) = "SATISFIED")
            <=> (last > 0 /\ last \in results[n].candidates)
    BY DEF TargetStatus
  <2>2. results[n].candidates = Hits(dag, frames, table, results, n)
    <3>1. Tells(dag, frames, table, results, n)
      BY <1>1, <2>0, ResultsTell
    <3>2. QED
      BY <1>2, <3>1 DEF Tells, CandidateFrames
  <2>3. ASSUME last > 0, Ends(n) PROVE last \in Hits(dag, frames, table, results, n)
    <3>1. PICK at \in [Nodes(dag) -> 0 .. last] : WalksTo(dag, table, at) /\ at[n] = last
      BY <2>3
    <3>2. at[n] # 0
      BY <2>3, <3>1
    <3>3. \A m \in Nodes(dag) : at[m] # 0 => at[m] \in Hits(dag, frames, table, results, m)
      BY <1>1, <3>1, NoWalkIsEarlier
    <3>4. QED
      BY <2>0, <3>1, <3>2, <3>3
  <2>4. ASSUME last \in Hits(dag, frames, table, results, n) PROVE Ends(n)
    <3>1. Reaches(dag, frames, table, n, last)
      BY <1>1, <2>0, <2>4, ResultsWalk
    <3>2. QED
      BY <3>1 DEF Reaches
  <2> HIDE DEF Ends, last
  <2>5. QED
    BY <2>1, <2>2, <2>3, <2>4
<1>3. acquire_and_evaluate_legacy_contract(dag, frames, context) =
        IF dag.operator = "ANY_OF"
        THEN IF "SATISFIED" \in targets THEN "SATISFIED" ELSE NoAlternative(targets)
        ELSE IF targets = {"SATISFIED"} THEN "SATISFIED" ELSE Foremost(NotAll, targets)
  <2> HIDE DEF table
  <2> QED BY DEF acquire_and_evaluate_legacy_contract, SuccessStatus, table
<1>4. Walks(dag, frames, context) <=>
        /\ last > 0
        /\ IF dag.operator = "ANY_OF" THEN \E n \in dag.success : Ends(n)
           ELSE \A n \in dag.success : Ends(n)
  BY DEF Walks
<1>5. dag.success # {}
  BY DEF ValidDag
<1> HIDE DEF last, Ends, results, table
<1>6. CASE dag.operator = "ANY_OF"
  <2>1. "SATISFIED" \in targets <=> \E n \in dag.success : last > 0 /\ Ends(n)
    BY <1>2
  <2>2. NoAlternative(targets) # "SATISFIED"
    BY NoAlternativeIsNoSuccess
  <2> HIDE DEF targets
  <2>3. QED
    BY <1>3, <1>4, <1>6, <2>1, <2>2
<1>7. CASE dag.operator # "ANY_OF"
  <2>1. targets = {"SATISFIED"} <=> \A n \in dag.success : last > 0 /\ Ends(n)
    BY <1>2, <1>5
  <2>2. Foremost(NotAll, targets) # "SATISFIED"
    BY ForemostIsNoSuccess
  <2> HIDE DEF targets
  <2>3. QED
    BY <1>3, <1>4, <1>5, <1>7, <2>1, <2>2
<1>8. QED
  BY <1>6, <1>7

\* A condition holds when one signal matches, or all do; nothing else makes it hold.
LEMMA ConditionHolds ==
    ASSUME NEW operator, NEW signals
    PROVE  (ConditionStatus(operator, signals, TRUE) = "SATISFIED")
              <=> IF operator = "ANY_OF" THEN "MATCH" \in signals ELSE signals = {"MATCH"}
<1>1. CASE operator = "ANY_OF"
  BY <1>1 DEF ConditionStatus
<1>2. CASE operator # "ANY_OF"
  BY <1>2 DEF ConditionStatus
<1>3. QED
  BY <1>1, <1>2

\* Every answer of one context is also in the other; the rest is the same.
KnowsMore(more, less) ==
    /\ more.bound = less.bound /\ more.visual = less.visual /\ more.classify = less.classify
    /\ \A k \in DOMAIN less.answers : k \in DOMAIN more.answers /\ more.answers[k] = less.answers[k]

\* What matched goes on matching when more is known.
LEMMA MatchStays ==
    ASSUME NEW more, NEW less, KnowsMore(more, less), NEW node, NEW checker, NEW frame,
           CheckerSignal(node, checker, frame, less) = "MATCH"
    PROVE  CheckerSignal(node, checker, frame, more) = "MATCH"
<1>1. CASE checker.kind \in {"ocr", "llm"}
  <2> DEFINE key == EvidenceCacheKey(checker, frame.image)
  <2>1. RecordedSignal(node, checker, frame, less) = "MATCH"
    BY <1>1 DEF CheckerSignal
  <2>2. /\ <<node, checker.kind>> \in less.bound /\ frame.image # NoImage
        /\ key \in DOMAIN less.answers /\ Answered(checker, less.answers[key]) = "MATCH"
    <3> HIDE DEF key
    <3> QED BY <2>1 DEF RecordedSignal, key
  <2>3. RecordedSignal(node, checker, frame, more) = Answered(checker, more.answers[key])
    BY <2>2 DEF KnowsMore, RecordedSignal
  <2>4. QED
    BY <1>1, <2>2, <2>3 DEF KnowsMore, CheckerSignal
<1>2. CASE checker.kind = "visual_state"
  BY <1>2 DEF KnowsMore, CheckerSignal, VisualSignal
<1>3. CASE checker.kind \notin {"ocr", "llm", "visual_state"}
  BY <1>3 DEF CheckerSignal
<1>4. QED
  BY <1>1, <1>2, <1>3

LEMMA OutcomeIsOfTheSignal ==
    ASSUME NEW dag, NEW frames, NEW context, NEW n \in Nodes(dag), NEW c \in dag.checkers[n],
           NEW f \in DOMAIN frames
    PROVE  (acquire_legacy_checker_outcomes(dag, frames, context)[<<n, c, f>>] = "MATCH")
               <=> (CheckerSignal(n, c, frames[f], context) = "MATCH")
<1> DEFINE entries == UNION {{m} \X dag.checkers[m] \X DOMAIN frames : m \in Nodes(dag)}
           Signal(e) == LET signal == CheckerSignal(e[1], e[2], frames[e[3]], context) IN
                        IF signal = "SOURCE_EVIDENCE_MISSING" /\ ~context.classify
                        THEN "UNAVAILABLE" ELSE signal
           table == [e \in entries |-> Signal(e)]
<1>1. acquire_legacy_checker_outcomes(dag, frames, context) = table
  BY DEF acquire_legacy_checker_outcomes
<1>2. <<n, c, f>> \in entries
  OBVIOUS
<1>3. table[<<n, c, f>>] = Signal(<<n, c, f>>)
  <2> HIDE DEF entries, Signal
  <2> QED BY <1>2
<1>4. Signal(<<n, c, f>>) = IF CheckerSignal(n, c, frames[f], context) = "SOURCE_EVIDENCE_MISSING" /\ ~context.classify
                            THEN "UNAVAILABLE" ELSE CheckerSignal(n, c, frames[f], context)
  OBVIOUS
<1>5. (Signal(<<n, c, f>>) = "MATCH") <=> (CheckerSignal(n, c, frames[f], context) = "MATCH")
  <2> HIDE DEF Signal
  <2> QED BY <1>4
<1>6. QED
  <2> HIDE DEF table, Signal
  <2> QED BY <1>1, <1>3, <1>5

\* A walk that was found is found again when more is known.
LEMMA WalksStay ==
    ASSUME NEW dag, NEW frames, NEW more, NEW less, KnowsMore(more, less),
           Len(frames) \in Nat, DOMAIN frames = 1 .. Len(frames),
           dag.success \subseteq Nodes(dag),
           Walks(dag, frames, less)
    PROVE  Walks(dag, frames, more)
<1> DEFINE old == acquire_legacy_checker_outcomes(dag, frames, less)
           new == acquire_legacy_checker_outcomes(dag, frames, more)
           last == Len(frames)
           Ends(table, n) == \E at \in [Nodes(dag) -> 0 .. last] : WalksTo(dag, table, at) /\ at[n] = last
<1>1. ASSUME NEW n \in Nodes(dag), NEW f \in 1 .. last,
             FrameStatus(dag, old, n, f, TRUE) = "SATISFIED"
      PROVE  FrameStatus(dag, new, n, f, TRUE) = "SATISFIED"
  <2>1. \A c \in dag.checkers[n] : old[<<n, c, f>>] = "MATCH" => new[<<n, c, f>>] = "MATCH"
    BY OutcomeIsOfTheSignal, MatchStays
  <2> DEFINE before == {old[<<n, c, f>>] : c \in dag.checkers[n]}
             after == {new[<<n, c, f>>] : c \in dag.checkers[n]}
  <2> HIDE DEF old, new
  <2>2. /\ "MATCH" \in before => "MATCH" \in after
        /\ before = {"MATCH"} => after = {"MATCH"}
    BY <2>1
  <2>3. IF dag.cond[n] = "ANY_OF" THEN "MATCH" \in before ELSE before = {"MATCH"}
    BY <1>1, ConditionHolds DEF FrameStatus
  <2>4. IF dag.cond[n] = "ANY_OF" THEN "MATCH" \in after ELSE after = {"MATCH"}
    <3> HIDE DEF before, after
    <3> QED BY <2>2, <2>3
  <2>5. QED
    BY <2>4, ConditionHolds DEF FrameStatus
<1> HIDE DEF old, new
<1>2. ASSUME NEW at \in [Nodes(dag) -> 0 .. last], WalksTo(dag, old, at)
      PROVE  WalksTo(dag, new, at)
  <2>1. \A n \in Nodes(dag) : at[n] # 0 => at[n] \in 1 .. last
    OBVIOUS
  <2>2. \A n \in Nodes(dag) : at[n] # 0 => FrameStatus(dag, new, n, at[n], TRUE) = "SATISFIED"
    BY <1>1, <1>2, <2>1 DEF WalksTo
  <2>3. QED
    BY <1>2, <2>2 DEF WalksTo
<1>3. \A n : Ends(old, n) => Ends(new, n)
  BY <1>2
<1>4. /\ last > 0
      /\ IF dag.operator = "ANY_OF" THEN \E n \in dag.success : Ends(old, n)
         ELSE \A n \in dag.success : Ends(old, n)
  BY DEF Walks, old
<1>5. /\ last > 0
      /\ IF dag.operator = "ANY_OF" THEN \E n \in dag.success : Ends(new, n)
         ELSE \A n \in dag.success : Ends(new, n)
  <2> HIDE DEF Ends
  <2> QED BY <1>3, <1>4
<1>6. QED
  BY <1>5 DEF Walks, new

\* What the report on disk was made of.
ReportInv ==
    report # NoReport =>
        /\ \A t \in w.batch : (report.rows[t].verdict = "PASS")
              <=> Walks(w.dag, w.frames[t], [Context EXCEPT !.answers = report.answers])
        /\ \A k \in DOMAIN report.answers : k \in DOMAIN cache /\ cache[k] = report.answers[k]

ContextOf(answers) == [answers |-> answers, bound |-> w.bound, visual |-> w.visual, classify |-> w.visual.on]

\* A replay reports what the lowering finds.
LEMMA ReplayReports ==
    ASSUME RepositoryInv, run_batch_replay
    PROVE  /\ report'.answers = cache
           /\ \A t \in w.batch : (report'.rows[t].verdict = "PASS")
                                    <=> Walks(w.dag, w.frames[t], ContextOf(cache))
<1>1. report' = [answers |-> cache,
                 rows |-> [t \in w.batch |-> CHOOSE e \in EnvelopesOf(t) : TRUE]]
  BY DEF run_batch_replay
<1>2. ASSUME NEW t \in w.batch
      PROVE  (report'.rows[t].verdict = "PASS") <=> Walks(w.dag, w.frames[t], ContextOf(cache))
  <2> DEFINE e == CHOOSE x \in EnvelopesOf(t) : TRUE
  <2>1. e \in EnvelopesOf(t)
    BY DEF run_batch_replay
  <2>2. report'.rows[t] = e
    <3> HIDE DEF e
    <3>1. report'.rows = [s \in w.batch |-> CHOOSE x \in EnvelopesOf(s) : TRUE]
      BY <1>1
    <3>2. QED
      BY <3>1 DEF e
  <2> HIDE DEF e
  <2>3. e.verdict = ReportOf(t).outcome
    BY <2>1 DEF EnvelopesOf, build_audit_report_envelope
  <2>4. (ReportOf(t).outcome = "PASS") <=> (MacroStatus(t) = "SATISFIED")
    BY DEF run_batch_replay, Evaluates
  <2>5. Len(w.frames[t]) \in Nat /\ ValidDag(w.dag)
    BY RepositoriesAssumption DEF RepositoryInv
  <2>6. (MacroStatus(t) = "SATISFIED") <=> Walks(w.dag, w.frames[t], Context)
    BY <2>5, LoweringFindsTheWalks DEF MacroStatus
  <2>7. QED
    BY <2>2, <2>3, <2>4, <2>6 DEF Context, ContextOf
<1>3. QED
  BY <1>1, <1>2

LEMMA ContextWith ==
    ASSUME NEW answers
    PROVE  [Context EXCEPT !.answers = answers] = ContextOf(answers)
BY DEF Context, ContextOf

LEMMA ReportKeeps ==
    ASSUME RepositoryInv, ReportInv, [PipelineNext]_pipelineVars, [AnswersKept]_pipelineVars
    PROVE  ReportInv'
<1>1. \A k \in DOMAIN cache : k \in DOMAIN cache' /\ cache'[k] = cache[k]
  BY DEF AnswersKept, pipelineVars
<1>2. CASE run_batch_replay
  <2>1. /\ report'.answers = cache
        /\ \A t \in w.batch : (report'.rows[t].verdict = "PASS")
                                    <=> Walks(w.dag, w.frames[t], ContextOf(cache))
    BY <1>2, ReplayReports
  <2>2. w' = w /\ cache' = cache
    BY <1>2 DEF run_batch_replay
  <2>3. [Context EXCEPT !.answers = report.answers]' = ContextOf(cache)
    BY <2>1, <2>2 DEF Context, ContextOf
  <2>4. QED
    BY <2>1, <2>2, <2>3 DEF ReportInv
<1>3. CASE w' = w /\ report' = report
  <2>1. [Context EXCEPT !.answers = report.answers]' = [Context EXCEPT !.answers = report.answers]
    BY <1>3 DEF Context
  <2>2. report # NoReport => \A k \in DOMAIN report.answers : k \in DOMAIN cache' /\ cache'[k] = report.answers[k]
    BY <1>1 DEF ReportInv
  <2>3. QED
    BY <1>3, <2>1, <2>2 DEF ReportInv
<1>4. QED
  BY <1>2, <1>3 DEF PipelineNext, pipelineVars, HoldOut, Plan, WriteReviewedDraft, WriteInventory,
     StartRecording, RecorderStep, TakeJob, RequestAnswered, RequestFails, WriteCache, WriteReceipt,
     Crash

\* What a step does to the rows that pass.
PassKept ==
    (report # NoReport /\ report' # report) =>
        \A t \in w.batch : report.rows[t].verdict = "PASS" => report'.rows[t].verdict = "PASS"

LEMMA PassKeeps ==
    ASSUME RepositoryInv, ReportInv, PipelineNext
    PROVE  PassKept
<1>1. CASE run_batch_replay
  <2> SUFFICES ASSUME report # NoReport, NEW t \in w.batch, report.rows[t].verdict = "PASS"
               PROVE  report'.rows[t].verdict = "PASS"
    BY DEF PassKept
  <2>1. Walks(w.dag, w.frames[t], ContextOf(report.answers))
    BY ContextWith DEF ReportInv
  <2>2. KnowsMore(ContextOf(cache), ContextOf(report.answers))
    BY DEF ReportInv, KnowsMore, ContextOf
  <2>3. /\ Len(w.frames[t]) \in Nat /\ DOMAIN w.frames[t] = 1 .. Len(w.frames[t])
        /\ w.dag.success \subseteq Nodes(w.dag)
    BY RepositoriesAssumption DEF RepositoryInv, ValidDag
  <2>4. Walks(w.dag, w.frames[t], ContextOf(cache))
    BY <2>1, <2>2, <2>3, WalksStay
  <2>5. QED
    BY <1>1, <2>4, ReplayReports
<1>2. CASE report' = report
  BY <1>2 DEF PassKept
<1>3. QED
  BY <1>1, <1>2 DEF PipelineNext, HoldOut, Plan, WriteReviewedDraft, WriteInventory,
     StartRecording, RecorderStep, TakeJob, RequestAnswered, RequestFails, WriteCache, WriteReceipt,
     Crash

\* The report stands while more is recorded.
LEMMA ReportInvariant ==
    PipelineSpec => [](RepositoryInv /\ PlanInv /\ FilesInv /\ RecorderInv /\ ReportInv)
<1>1. PipelineInit => ReportInv
  BY DEF PipelineInit, ReportInv
<1>2. FilesInv /\ RecorderInv /\ [PipelineNext]_pipelineVars => [AnswersKept]_pipelineVars
  BY AnswersStay
<1>3. RepositoryInv /\ ReportInv /\ [PipelineNext]_pipelineVars /\ [AnswersKept]_pipelineVars => ReportInv'
  BY ReportKeeps
<1>4. QED
  BY <1>1, <1>2, <1>3, EvidenceInvariant, PTL DEF PipelineSpec

\* A trace passes exactly when a walk through the task DAG is there to be seen.
THEOREM WitnessTheorem == PipelineSpec => []PassIsWitnessed
<1>1. ReportInv => PassIsWitnessed
  BY DEF ReportInv, PassIsWitnessed
<1>2. QED
  BY <1>1, ReportInvariant, PTL

\* What passed over the answers of one day passes over those of any later day.
THEOREM PassStandsTheorem == PipelineSpec => PassStands
<1>1. RepositoryInv /\ ReportInv /\ [PipelineNext]_pipelineVars => [PassKept]_pipelineVars
  BY PassKeeps
<1>2. QED
  BY <1>1, ReportInvariant, PTL DEF PipelineSpec, PassStands, PassKept

=============================================================================

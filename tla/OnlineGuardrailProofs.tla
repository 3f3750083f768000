------------------------ MODULE OnlineGuardrailProofs ------------------------
(***************************************************************************)
(* What the interceptor keeps for every contract, policy and run: its      *)
(* state is well formed, it negotiates as DoneNegotiation says, and a      *)
(* protected criterion that regresses, or one that oscillates up to the    *)
(* policy's limit, ends the run; its trace is the record of what it saw    *)
(* and decided, an allowed completion and an intervention each rest on     *)
(* frames that show their reason, and a decided criterion is undone only   *)
(* as its semantics lets it.                                               *)
(***************************************************************************)
EXTENDS OnlineGuardrail, FiniteSetTheorems, SequenceTheorems, WellFoundedInduction, TLAPS

(* A nonempty set of positions of a sequence has a greatest element: the   *)
(* least element of the set mirrored in the sequence's length.             *)
LEMMA LastPosition ==
    ASSUME NEW n \in Nat, NEW S \in SUBSET (1 .. n), S # {}
    PROVE  LastOf(S) \in S /\ \A j \in S : j <= LastOf(S)
<1> DEFINE Mirror == {m \in Nat : n - m \in S}
           Smaller == {ss \in Nat \X Nat : ss[1] < ss[2]}
<1>1. IsWellFoundedOn(Smaller, Nat)
  BY NatLessThanWellFounded DEF OpToRel
<1>2. Mirror \in SUBSET Nat /\ Mirror # {}
  <2>1. PICK i \in S : TRUE
    OBVIOUS
  <2>2. n - i \in Nat /\ n - (n - i) = i
    BY <2>1
  <2>3. n - i \in Mirror
    BY <2>1, <2>2
  <2>4. QED
    BY <2>3
<1>3. \E x \in Mirror : \A y \in Mirror : ~ (<<y, x>> \in Smaller)
  <2> HIDE DEF Smaller, Mirror
  <2> QED BY <1>1, <1>2, WFMin
<1>4. PICK x \in Mirror : \A y \in Mirror : <<y, x>> \notin Smaller
  BY <1>3
<1>5. \A j \in S : j <= n - x
  <2> SUFFICES ASSUME NEW j \in S PROVE j <= n - x
    OBVIOUS
  <2>1. n - j \in Nat /\ n - (n - j) = j /\ j \in Nat
    OBVIOUS
  <2>2. n - j \in Mirror
    BY <2>1
  <2>3. <<n - j, x>> \notin Smaller
    BY <1>4, <2>2
  <2>4. ~ (n - j < x)
    BY <2>1, <2>3
  <2>5. QED
    BY <2>1, <2>4
<1>6. n - x \in S
  BY <1>4
<1>7. QED
  BY <1>5, <1>6 DEF LastOf

(* Whatever the semantics, an aggregated status is a status.               *)
LEMMA AggregateTyped ==
    ASSUME NEW semantics \in Semantics, NEW obs \in Seq(Observation)
    PROVE  AggregateCriterion(semantics, obs) \in Statuses
<1>1. UnknownStatus(obs) \in Statuses
  BY DEF UnknownStatus, Statuses
<1>2. AggregateLatched(obs) \in Statuses
  BY <1>1 DEF AggregateLatched, Statuses
<1>3. AggregatePersistent(obs) \in Statuses
  <2> DEFINE looks == {i \in Where(obs, Success) \cup Where(obs, Violation) :
                          obs[i].state # "OBSCURED_BUT_PERSISTENT"}
  <2>1. looks \in SUBSET (1 .. Len(obs)) /\ Len(obs) \in Nat
    BY DEF Where
  <2>2. \A i \in 1 .. Len(obs) : obs[i].status \in Statuses
    <3>1. \A i \in 1 .. Len(obs) : obs[i] \in Observation
      OBVIOUS
    <3>2. \A o \in Observation : o.status \in Statuses
      BY DEF Observation
    <3>3. QED
      BY <3>1, <3>2
  <2> HIDE DEF looks
  <2>3. CASE looks = {}
    <3>1. AggregatePersistent(obs) = UnknownStatus(obs)
      BY <2>3 DEF AggregatePersistent, looks
    <3>2. QED
      BY <3>1, <1>1
  <2>4. CASE looks # {}
    <3>1. LastOf(looks) \in 1 .. Len(obs)
      BY <2>1, <2>4, LastPosition
    <3>2. AggregatePersistent(obs) = obs[LastOf(looks)].status
      BY <2>4 DEF AggregatePersistent, looks
    <3>3. QED
      BY <3>1, <3>2, <2>2
  <2>5. QED
    BY <2>3, <2>4
<1>4. AggregateEventual(obs) \in Statuses
  BY <1>1 DEF AggregateEventual, Statuses
<1>5. AggregateProcess(obs) \in Statuses
  BY <1>1 DEF AggregateProcess, Statuses
<1>6. QED
  BY <1>2, <1>3, <1>4, <1>5 DEF AggregateCriterion, Semantics

-----------------------------------------------------------------------------
SnapshotRecord == [index : Nat, statuses : [Criteria -> Statuses]]

(* The part of the type invariant that the other proofs need.              *)
StateInv ==
    /\ setup \in Setups
    /\ observations \in [Criteria -> Seq(Observation)]
    /\ history \in Seq(SnapshotRecord) /\ latestHistory \in Seq(SnapshotRecord)
    /\ interventions \in 0 .. policy.maxInterventions
    /\ candidates \in Nat
    /\ status \in {"RUNNING"} \cup Endings

(* What the setup guarantees.                                              *)
LEMMA SetupFacts ==
    ASSUME setup \in Setups
    PROVE  /\ policy.maxInterventions \in 0 .. HardMaxInterventions
           /\ policy.onAbstain \in AbstainActions
           /\ policy.protected \subseteq Criteria
           /\ contract.semantics \in [Criteria -> Semantics]
           /\ \A k \in Criteria : Shows[k] \subseteq Observation
  BY SetupsAssumption, CandidatesAssumption DEF policy, contract, Criteria, AcceptedPolicy

\* What a candidate's prefix, its statuses and its moment are, for handle_done.
LEMMA CandidateFacts ==
    ASSUME setup \in Setups, NEW c \in Candidates
    PROVE  /\ c.news \in [Criteria -> Observation]
           /\ c.moment \in Moment
<1>1. PICK n \in News, x \in Circumstances :
        c = [news |-> n, moment |-> x.moment, profile |-> x.profile]
  BY DEF Candidates
<1>2. n \in [Criteria -> Observation]
  BY SetupFacts DEF News
<1>3. x.moment \in Moment
  BY CandidatesAssumption
<1>4. QED
  BY <1>1, <1>2, <1>3

(* Every answer either sends the agent back, within the policy's limit and *)
(* with nothing that had to stop the run, or ends the run.                 *)
LEMMA AnswerShape ==
    ASSUME setup \in Setups, NEW c, HandleDone(c)
    PROVE  /\ Accept(c)
           /\ \/ /\ interventions < policy.maxInterventions
                 /\ interventions' = interventions + 1
                 /\ UNCHANGED status
                 /\ ~Regressed(c) /\ ~Oscillated(c) /\ Failed(c) # {}
              \/ /\ UNCHANGED interventions
                 /\ status' \in Endings
<1>1. CASE StopForRegression(c)
  BY <1>1 DEF StopForRegression, ForceStop, Finish, Endings, StopStatuses
<1>2. CASE StopForOscillation(c)
  BY <1>2 DEF StopForOscillation, ForceStop, Finish, Endings, StopStatuses
<1>3. CASE AllowDone(c)
  BY <1>3 DEF AllowDone, Finish, Endings
<1>4. CASE Abstain(c)
  BY <1>4, SetupFacts DEF Abstain, Finish, Endings, AbstainActions
<1>5. CASE StopForBudget(c)
  <2>1. PICK ending \in BudgetFailure(c) : ForceStop(c, ending, Notes(c), {})
    BY <1>5 DEF StopForBudget
  <2>2. ending \in StopStatuses
    BY <2>1 DEF BudgetFailure, StopStatuses
  <2>3. QED
    BY <1>5, <2>1, <2>2 DEF StopForBudget, ForceStop, Finish, Endings
<1>6. CASE StopForInterventions(c)
  BY <1>6 DEF StopForInterventions, ForceStop, Finish, Endings, StopStatuses
<1>7. CASE Intervene(c)
  BY <1>7 DEF Intervene, Correctable
<1>8. QED
  BY <1>1, <1>2, <1>3, <1>4, <1>5, <1>6, <1>7 DEF HandleDone

\* The interceptor's attributes start in the inductive invariant.
LEMMA StateInit == Init => StateInv
<1> SUFFICES ASSUME Init PROVE StateInv
  OBVIOUS
<1>1. setup \in Setups
  BY DEF Init
<1>2. policy.maxInterventions \in 0 .. HardMaxInterventions
  BY <1>1, SetupFacts
<1>3. QED
  BY <1>1, <1>2 DEF Init, StateInv, HardMaxInterventions

(* What a snapshot records of a candidate is one status per criterion.     *)
LEMMA StatesTyped ==
    ASSUME StateInv, NEW c \in Candidates
    PROVE  /\ Prefix(c) \in [Criteria -> Seq(Observation)]
           /\ States(c) \in [Criteria -> Statuses]
           /\ Latest(c) \in [Criteria -> Statuses]
<1>1. c.news \in [Criteria -> Observation]
  BY CandidateFacts DEF StateInv
<1>2. Prefix(c) \in [Criteria -> Seq(Observation)]
  BY <1>1 DEF Prefix, StateInv
<1>3. Latest(c) \in [Criteria -> Statuses]
  BY <1>1 DEF Latest, Observation
<1>4. Replayed(c) \in [Criteria -> Statuses]
  <2>1. \A k \in Criteria : AggregateCriterion(contract.semantics[k], Prefix(c)[k]) \in Statuses
    <3> SUFFICES ASSUME NEW k \in Criteria
                 PROVE  AggregateCriterion(contract.semantics[k], Prefix(c)[k]) \in Statuses
      OBVIOUS
    <3>1. contract.semantics[k] \in Semantics
      BY SetupFacts DEF StateInv
    <3>2. Prefix(c)[k] \in Seq(Observation)
      BY <1>2
    <3>3. QED
      BY <3>1, <3>2, AggregateTyped
  <2>2. "UNSUPPORTED_CAPABILITY" \in Statuses
    BY DEF Statuses
  <2>3. QED
    BY <2>1, <2>2 DEF Replayed, Replay, Criteria
<1>5. States(c) \in [Criteria -> Statuses]
  BY <1>3, <1>4 DEF States
<1>6. QED
  BY <1>2, <1>3, <1>5

\* Every way handle_done returns keeps the inductive invariant.
LEMMA StateStep == StateInv /\ [Next]_vars => StateInv'
<1> SUFFICES ASSUME StateInv, [Next]_vars PROVE StateInv'
  OBVIOUS
<1>1. CASE UNCHANGED vars
  BY <1>1 DEF vars, StateInv, policy, contract, Criteria, SnapshotRecord
<1>2. ASSUME NEW c \in Candidates, HandleDone(c) PROVE StateInv'
  <2>1. setup \in Setups
    BY DEF StateInv
  <2>2. Accept(c)
    BY <1>2, <2>1, AnswerShape
  <2>3. UNCHANGED setup /\ UNCHANGED policy /\ UNCHANGED contract
        /\ UNCHANGED Criteria /\ UNCHANGED SnapshotRecord
    BY <2>2 DEF Accept, policy, contract, Criteria, SnapshotRecord
  <2>4. observations' \in [Criteria -> Seq(Observation)]
    BY <2>2, StatesTyped DEF Accept
  <2>5. interventions \in Nat
    BY <2>1, SetupFacts DEF StateInv
  <2>6. Snapshot(States(c)) \in SnapshotRecord /\ Snapshot(Latest(c)) \in SnapshotRecord
    BY <2>5, StatesTyped DEF Snapshot, SnapshotRecord
  <2>7. history' \in Seq(SnapshotRecord) /\ latestHistory' \in Seq(SnapshotRecord)
    BY <2>2, <2>6 DEF Accept, StateInv
  <2>8. interventions' \in 0 .. policy.maxInterventions
    BY <1>2, <2>1, AnswerShape, SetupFacts DEF StateInv
  <2>9. status' \in {"RUNNING"} \cup Endings
    BY <1>2, <2>1, AnswerShape DEF StateInv
  <2>10. candidates' \in Nat
    BY <2>2 DEF Accept, StateInv
  <2>11. QED
    BY <2>1, <2>3, <2>4, <2>7, <2>8, <2>9, <2>10, Zenon DEF StateInv, Endings, StopStatuses
<1>3. QED
  BY <1>1, <1>2 DEF Next, Answered

\* The inductive invariant holds in every reachable state.
LEMMA StateInvariant == Spec => []StateInv
  BY StateInit, StateStep, PTL DEF Spec

-----------------------------------------------------------------------------
(* The negotiation.  The claim of the agent is sent back at most           *)
(* policy.maxInterventions times; every other answer ends the run.         *)
THEOREM NegotiationTheorem == Spec => NegotiationHolds
<1>1. Init => Negotiation!Init
  <2> SUFFICES ASSUME Init PROVE Negotiation!Init
    OBVIOUS
  <2>1. policy.maxInterventions \in 0 .. HardMaxInterventions
    BY SetupFacts DEF Init
  <2>2. QED
    BY <2>1 DEF Init, Negotiation!Init, Terminal
<1>2. StateInv /\ [Next]_vars => [Negotiation!Next]_(Negotiation!vars)
  <2> SUFFICES ASSUME StateInv, [Next]_vars
               PROVE  [Negotiation!Next]_(Negotiation!vars)
    OBVIOUS
  <2>1. CASE UNCHANGED vars
    BY <2>1 DEF vars, policy, Terminal, Negotiation!vars
  <2>2. ASSUME NEW c \in Candidates, HandleDone(c), ~Terminal
        PROVE  Negotiation!Next
    <3>1. setup \in Setups /\ UNCHANGED policy
      BY <2>2, AnswerShape DEF StateInv, Accept, policy
    <3>2. CASE /\ interventions < policy.maxInterventions
               /\ interventions' = interventions + 1
               /\ UNCHANGED status
      BY <2>2, <3>1, <3>2 DEF Negotiation!Next, Negotiation!SendBack, Terminal
    <3>3. CASE UNCHANGED interventions /\ status' \in Endings
      <4>1. status' # "RUNNING"
        BY <3>3 DEF Endings, StopStatuses
      <4>2. QED
        BY <2>2, <3>1, <3>3, <4>1 DEF Negotiation!Next, Negotiation!End, Terminal
    <3>4. QED
      BY <2>2, <3>1, <3>2, <3>3, AnswerShape
  <2>3. QED
    BY <2>1, <2>2 DEF Next, Answered
<1>3. QED
  BY <1>1, <1>2, StateInvariant, PTL DEF Spec, NegotiationHolds, Negotiation!Spec

-----------------------------------------------------------------------------
(* A protected regression shows between two neighbouring snapshots; an     *)
(* open run has none, so that the last answer is the first it can be in.   *)
LEMMA RegressionStep ==
    StateInv /\ ProtectedRegressionEndsTheRun /\ [Next]_vars => ProtectedRegressionEndsTheRun'
<1> SUFFICES ASSUME StateInv, ProtectedRegressionEndsTheRun, [Next]_vars
             PROVE  ProtectedRegressionEndsTheRun'
  OBVIOUS
<1>1. CASE UNCHANGED vars
  BY <1>1 DEF vars, ProtectedRegressionEndsTheRun, policy, Terminal
<1>2. ASSUME NEW c \in Candidates, HandleDone(c), ~Terminal
      PROVE  ProtectedRegressionEndsTheRun'
  <2>1. setup \in Setups
    BY DEF StateInv
  <2>2. Accept(c) /\ UNCHANGED policy
    BY <1>2, <2>1, AnswerShape DEF Accept, policy
  <2>3. history' = Append(history, Snapshot(States(c)))
    BY <2>2 DEF Accept
  <2>4. SUFFICES ASSUME policy.stopOnRegression,
                        NEW i \in 2 .. Len(history'), NEW k \in policy.protected,
                        history'[i - 1].statuses[k] = "SATISFIED",
                        history'[i].statuses[k] = "VIOLATED"
                 PROVE  Terminal' /\ i = Len(history')
    BY <2>2 DEF ProtectedRegressionEndsTheRun
  <2>5. Len(history') = Len(history) + 1 /\ Len(history) \in Nat
    BY <2>3 DEF StateInv
  <2>6. \A j \in 1 .. Len(history) : history'[j] = history[j]
    BY <2>3 DEF StateInv
  <2>7. CASE i # Len(history')
    <3>1. i \in 2 .. Len(history) /\ i - 1 \in 1 .. Len(history)
      BY <2>5, <2>7
    <3>2. history[i - 1].statuses[k] = "SATISFIED" /\ history[i].statuses[k] = "VIOLATED"
      BY <2>4, <2>6, <3>1
    <3>3. Terminal
      BY <2>4, <3>1, <3>2 DEF ProtectedRegressionEndsTheRun
    <3>4. QED
      BY <1>2, <3>3
  <2>8. CASE i = Len(history')
    <3>1. history # <<>> /\ i - 1 = Len(history) /\ i - 1 \in 1 .. Len(history)
      BY <2>5, <2>8
    <3>2. history'[i - 1] = history[Len(history)]
      BY <2>6, <3>1
    <3>3. history'[i] = Snapshot(States(c))
      BY <2>3, <2>5, <2>8 DEF StateInv
    <3>4. Before[k] = "SATISFIED" /\ States(c)[k] = "VIOLATED"
      BY <2>4, <3>2, <3>3 DEF Before, Snapshot
    <3>5. StateRegressions(c, policy.protected) # {}
      BY <3>1, <3>4 DEF StateRegressions
    <3>6. Failed(c) # {} => Regressed(c)
      BY <2>4, <3>5 DEF Regressed
    <3>7. status' \in Endings
      BY <1>2, <2>1, <3>6, AnswerShape
    <3>8. QED
      BY <2>8, <3>7 DEF Terminal, Endings, StopStatuses
  <2>9. QED
    BY <2>7, <2>8
<1>3. QED
  BY <1>1, <1>2 DEF Next, Answered

(* An agent that breaks a protected criterion is not sent back to work.    *)
THEOREM ProtectedRegressionTheorem == Spec => []ProtectedRegressionEndsTheRun
<1>1. Init => ProtectedRegressionEndsTheRun
  BY DEF Init, ProtectedRegressionEndsTheRun
<1>2. QED
  BY <1>1, StateInvariant, RegressionStep, PTL DEF Spec

(* Nor is one that flips a criterion up to the limit: the counts are of    *)
(* the history with the candidate's own snapshot.                          *)
THEOREM OscillationTheorem == Spec => []OscillationEndsTheRun
<1>1. Init => OscillationEndsTheRun
  <2> SUFFICES ASSUME Init PROVE Oscillating(history) = {}
    BY DEF OscillationEndsTheRun
  <2>1. history = <<>> /\ setup \in Setups
    BY DEF Init
  <2>2. \A k : Flips(history, k) = {}
    BY <2>1 DEF Flips, Decided
  <2>3. Cardinality({}) = 0
    BY FS_EmptySet
  <2>4. \A n \in policy.oscillations : n \in Nat \ {0}
    BY <2>1, SetupsAssumption DEF policy, AcceptedPolicy
  <2>5. QED
    BY <2>2, <2>3, <2>4 DEF Oscillating
<1>2. StateInv /\ OscillationEndsTheRun /\ [Next]_vars => OscillationEndsTheRun'
  <2> SUFFICES ASSUME StateInv, OscillationEndsTheRun, [Next]_vars
               PROVE  OscillationEndsTheRun'
    OBVIOUS
  <2>1. CASE UNCHANGED vars
    <3>1. UNCHANGED <<history, status, policy, Criteria>>
      BY <2>1 DEF vars, policy, contract, Criteria
    <3>2. (Oscillating(history))' = Oscillating(history)
      BY <3>1 DEF Oscillating, Flips, Decided
    <3>3. QED
      BY <3>1, <3>2 DEF OscillationEndsTheRun, Terminal
  <2>2. ASSUME NEW c \in Candidates, HandleDone(c), ~Terminal
        PROVE  OscillationEndsTheRun'
    <3>1. setup \in Setups
      BY DEF StateInv
    <3>2. Accept(c) /\ UNCHANGED <<policy, Criteria>>
      BY <2>2, <3>1, AnswerShape DEF Accept, policy, contract, Criteria
    <3>3. SUFFICES ASSUME policy.stopOnOscillation, ~Terminal'
                   PROVE  (Oscillating(history))' = {}
      BY <3>2 DEF OscillationEndsTheRun
    <3>4. ~Oscillated(c) /\ Failed(c) # {}
      BY <2>2, <3>1, <3>3, AnswerShape DEF Terminal, Endings, StopStatuses
    <3>5. Oscillating(Append(history, Snapshot(States(c)))) = {}
      BY <3>3, <3>4 DEF Oscillated
    <3>6. (Oscillating(history))' = Oscillating(Append(history, Snapshot(States(c))))
      BY <3>2 DEF Accept, Oscillating, Flips, Decided
    <3>7. QED
      BY <3>5, <3>6
  <2>3. QED
    BY <2>1, <2>2 DEF Next, Answered
<1>3. QED
  BY <1>1, <1>2, StateInvariant, PTL DEF Spec

-----------------------------------------------------------------------------
(* The trace.  handle_done appends one group per candidate: its            *)
(* observation, remarks, and the decision.                                 *)
TraceRecord == [kind : Kinds, candidate : Nat, moment : Moment, index : Nat,
                ids : SUBSET Criteria]
RemarkKinds == {"POST_INTERVENTION_SNAPSHOT", "STATE_REGRESSION_DETECTED",
                "OBSERVABLE_STATE_CORRUPTION_DETECTED", "CRITERION_OSCILLATION_DETECTED",
                "ABSTAIN_RECORDED"}

Opening(c) == Event("CANDIDATE_OBSERVED", c, interventions, {})
Remarks(c) == {e \in TraceRecord : /\ e.kind \in RemarkKinds /\ e.index = interventions
                                   /\ e.candidate = candidates + 1 /\ e.moment = c.moment}
Decisions(c) == {e \in TraceRecord : /\ e.candidate = candidates + 1 /\ e.moment = c.moment
                                     /\ \/ e.kind \in TerminalKinds /\ e.index = interventions
                                        \/ /\ e.kind = "INTERVENTION_ISSUED"
                                           /\ e.index = interventions + 1}

\* What is told before the decision: the candidate was observed, then remarks.
Prelude(c, told) ==
    /\ told \in Seq(TraceRecord) /\ Len(told) >= 1
    /\ told[1] = Opening(c)
    /\ \A i \in 2 .. Len(told) : told[i] \in Remarks(c)

\* Remarks may follow a prelude.
LEMMA PreludeGrows ==
    ASSUME NEW c, NEW told, Prelude(c, told), NEW more \in Seq(Remarks(c))
    PROVE  Prelude(c, told \o more)
<1>1. told \in Seq(TraceRecord) /\ more \in Seq(TraceRecord)
  <2>1. Remarks(c) \subseteq TraceRecord
    BY DEF Remarks
  <2>2. QED
    BY <2>1, SeqMonotonic DEF Prelude
<1>2. /\ told \o more \in Seq(TraceRecord) /\ Len(told \o more) = Len(told) + Len(more)
      /\ \A i \in 1 .. Len(told) + Len(more) :
           (told \o more)[i] = IF i <= Len(told) THEN told[i] ELSE more[i - Len(told)]
      /\ Len(told) \in Nat /\ Len(more) \in Nat
  BY <1>1, ConcatProperties
<1>3. \A i \in 1 .. Len(more) : more[i] \in Remarks(c)
  OBVIOUS
<1> DEFINE all == told \o more
<1> HIDE DEF all
<1>4. ASSUME NEW i \in 2 .. Len(all)
      PROVE  all[i] \in Remarks(c)
  <2>1. CASE i <= Len(told)
    BY <1>2, <2>1 DEF Prelude, all
  <2>2. CASE i > Len(told)
    <3>1. i - Len(told) \in 1 .. Len(more) /\ all[i] = more[i - Len(told)]
      BY <1>2, <2>2 DEF all
    <3>2. QED
      BY <3>1, <1>3
  <2>3. QED
    BY <1>2, <2>1, <2>2
<1>5. Len(all) >= 1 /\ all[1] = Opening(c)
  BY <1>2 DEF Prelude, all
<1>6. QED
  BY <1>2, <1>4, <1>5 DEF Prelude, all

\* Four appended pieces, whichever of them were put together first.
LEMMA Reassociated ==
    ASSUME NEW S, NEW es \in Seq(S), NEW A \in Seq(S), NEW B \in Seq(S), NEW D \in Seq(S)
    PROVE  (es \o A) \o (B \o D) = (es \o (A \o B)) \o D
<1>1. es \o A \in Seq(S) /\ A \o B \in Seq(S)
  OBVIOUS
<1>2. (es \o A) \o (B \o D) = ((es \o A) \o B) \o D
  BY <1>1
<1>3. (es \o A) \o B = es \o (A \o B)
  OBVIOUS
<1>4. QED
  BY <1>2, <1>3

\* A conditional note is a sequence of at most that note.
LEMMA OnlyTyped ==
    ASSUME NEW S, NEW e, NEW b, b => e \in S
    PROVE  Only(b, e) \in Seq(S)
<1>1. CASE b
  BY <1>1 DEF Only
<1>2. CASE ~b
  BY <1>2 DEF Only
<1>3. QED
  BY <1>1, <1>2

\* What is told of a candidate is told of criteria of the contract.
LEMMA Told ==
    ASSUME StateInv, NEW c \in Candidates
    PROVE  /\ Failed(c) \subseteq Criteria
           /\ UnknownLosses(c) \subseteq Criteria
           /\ \A ks : StateRegressions(c, ks) \subseteq ks
           /\ policy.protected \subseteq Criteria
           /\ \A snapshots : Oscillating(snapshots) \subseteq Criteria
<1>1. contract.required \subseteq Criteria
  BY SetupsAssumption DEF StateInv, contract, Criteria
<1>2. QED
  BY <1>1, SetupFacts DEF StateInv, Failed, EnforcementScope, OutcomeCriteria, UnknownLosses,
       StateCorruptions, StateRegressions, Oscillating

\* The events of a candidate are records of the trace.
LEMMA EventTyped ==
    ASSUME StateInv, NEW c \in Candidates
    PROVE  /\ interventions \in Nat /\ candidates \in Nat
           /\ Opening(c) \in TraceRecord
           /\ \A k \in RemarkKinds : \A ids \in SUBSET Criteria :
                 Event(k, c, interventions, ids) \in Remarks(c)
           /\ \A k \in TerminalKinds : \A ids \in SUBSET Criteria :
                 Event(k, c, interventions, ids) \in Decisions(c)
           /\ \A ids \in SUBSET Criteria :
                 Event("INTERVENTION_ISSUED", c, interventions + 1, ids) \in Decisions(c)
<1>1. interventions \in Nat /\ candidates \in Nat
  BY SetupFacts DEF StateInv
<1>2. c.moment \in Moment
  BY CandidateFacts DEF StateInv
<1>3. RemarkKinds \subseteq Kinds /\ TerminalKinds \subseteq Kinds
      /\ "INTERVENTION_ISSUED" \in Kinds /\ "CANDIDATE_OBSERVED" \in Kinds
  BY DEF RemarkKinds, Kinds
<1>4. \A k \in Kinds : \A n \in Nat : \A ids \in SUBSET Criteria :
         LET e == Event(k, c, n, ids) IN
         /\ e \in TraceRecord /\ e.kind = k /\ e.index = n
         /\ e.candidate = candidates + 1 /\ e.moment = c.moment /\ e.ids = ids
  BY <1>1, <1>2 DEF Event, TraceRecord
<1>5. Opening(c) \in TraceRecord
  BY <1>1, <1>3, <1>4 DEF Opening
<1>6. ASSUME NEW k \in RemarkKinds, NEW ids \in SUBSET Criteria
      PROVE  Event(k, c, interventions, ids) \in Remarks(c)
  BY <1>1, <1>3, <1>4 DEF Remarks
<1>7. ASSUME NEW k \in TerminalKinds, NEW ids \in SUBSET Criteria
      PROVE  Event(k, c, interventions, ids) \in Decisions(c)
  BY <1>1, <1>3, <1>4 DEF Decisions
<1>8. ASSUME NEW ids \in SUBSET Criteria
      PROVE  Event("INTERVENTION_ISSUED", c, interventions + 1, ids) \in Decisions(c)
  <2>1. interventions + 1 \in Nat
    BY <1>1
  <2>2. QED
    BY <1>3, <1>4, <2>1 DEF Decisions
<1>9. QED
  BY <1>1, <1>5, <1>6, <1>7, <1>8

\* What is appended before the decision.
LEMMA RemarksTyped ==
    ASSUME StateInv, NEW c \in Candidates
    PROVE  Prelude(c, Observed(c)) /\ Notes(c) \in Seq(Remarks(c))
<1> DEFINE A == Only(history # <<>>, Event("POST_INTERVENTION_SNAPSHOT", c, interventions, {}))
           B == Only(policy.trackCorruption /\ UnknownLosses(c) # {},
                     Event("OBSERVABLE_STATE_CORRUPTION_DETECTED", c, interventions, UnknownLosses(c)))
           C == Only(StateRegressions(c, Criteria) # {},
                     Event("STATE_REGRESSION_DETECTED", c, interventions, StateRegressions(c, Criteria)))
<1>1. A \in Seq(Remarks(c)) /\ B \in Seq(Remarks(c)) /\ C \in Seq(Remarks(c))
  <2>1. {} \in SUBSET Criteria /\ UnknownLosses(c) \in SUBSET Criteria
        /\ StateRegressions(c, Criteria) \in SUBSET Criteria
    BY Told
  <2>2. /\ Event("POST_INTERVENTION_SNAPSHOT", c, interventions, {}) \in Remarks(c)
        /\ Event("OBSERVABLE_STATE_CORRUPTION_DETECTED", c, interventions, UnknownLosses(c))
             \in Remarks(c)
        /\ Event("STATE_REGRESSION_DETECTED", c, interventions, StateRegressions(c, Criteria))
             \in Remarks(c)
    BY <2>1, EventTyped DEF RemarkKinds
  <2>3. QED
    BY <2>2, OnlyTyped
<1>2. Observed(c) = ((<<Opening(c)>> \o A) \o B) \o C
  BY DEF Observed, Opening
<1>3. Notes(c) \in Seq(Remarks(c))
  <2> DEFINE snapshots == Append(history, Snapshot(States(c)))
  <2>1. Oscillating(snapshots) \in SUBSET Criteria
    BY Told
  <2> HIDE DEF snapshots
  <2>2. Event("CRITERION_OSCILLATION_DETECTED", c, interventions, Oscillating(snapshots))
          \in Remarks(c)
    BY <2>1, EventTyped DEF RemarkKinds
  <2>3. QED
    BY <2>2, OnlyTyped DEF Notes, OscillationNote, snapshots
<1> HIDE DEF A, B, C
<1>4. Prelude(c, <<Opening(c)>>)
  <2>1. Opening(c) \in TraceRecord
    BY EventTyped
  <2>2. QED
    BY <2>1 DEF Prelude
<1>5. Prelude(c, <<Opening(c)>> \o A)
  BY <1>1, <1>4, PreludeGrows
<1>6. Prelude(c, (<<Opening(c)>> \o A) \o B)
  BY <1>1, <1>5, PreludeGrows
<1>7. Prelude(c, ((<<Opening(c)>> \o A) \o B) \o C)
  BY <1>1, <1>6, PreludeGrows
<1>8. QED
  BY <1>2, <1>3, <1>7

(* A prelude and a decision, which is terminal exactly when the answer ends the  *)
(* run, and otherwise sends the agent back for what failed, in budget.     *)
Concludes(c, decision) ==
    \/ /\ decision.kind \in TerminalKinds
       /\ status' \in Endings /\ UNCHANGED interventions
    \/ /\ decision = Event("INTERVENTION_ISSUED", c, interventions + 1, Failed(c))
       /\ interventions' = interventions + 1 /\ UNCHANGED status
       /\ Failed(c) # {} /\ BudgetFailure(c) = {}

GroupAppended(c, told, decision) ==
    /\ Prelude(c, told)
    /\ events' = (events \o told) \o <<decision>>
    /\ Concludes(c, decision)

\* Whatever handle_done answers, it appends such a group.
LEMMA AppendsGroup ==
    ASSUME StateInv, events \in Seq(TraceRecord), NEW c \in Candidates, HandleDone(c)
    PROVE  \E told \in Seq(TraceRecord), decision \in Decisions(c) : GroupAppended(c, told, decision)
<1> DEFINE R == Remarks(c)
<1>1. PICK observed : Prelude(c, observed) /\ observed = Observed(c)
  BY RemarksTyped
<1>2. R \subseteq TraceRecord /\ Decisions(c) \subseteq TraceRecord
  BY DEF Remarks, Decisions
<1> HIDE DEF R
<1>3. ASSUME NEW N \in Seq(R), NEW d \in Decisions(c),
             events' = events \o Observed(c) \o (N \o <<d>>), Concludes(c, d)
      PROVE  \E told \in Seq(TraceRecord), decision \in Decisions(c) : GroupAppended(c, told, decision)
  <2>1. Prelude(c, observed \o N)
    BY <1>1, PreludeGrows DEF R
  <2>2. N \in Seq(TraceRecord) /\ <<d>> \in Seq(TraceRecord) /\ observed \in Seq(TraceRecord)
    BY <1>1, <1>2, SeqMonotonic DEF Prelude
  <2>3. events' = (events \o observed) \o (N \o <<d>>)
    BY <1>1, <1>3
  <2>4. PICK D \in Seq(TraceRecord) : D = <<d>>
    BY <2>2
  <2>5. (events \o observed) \o (N \o D) = (events \o (observed \o N)) \o D
    BY <2>2, Reassociated
  <2>6. events' = (events \o (observed \o N)) \o <<d>>
    BY <2>3, <2>4, <2>5
  <2>7. GroupAppended(c, observed \o N, d)
    BY <1>3, <2>1, <2>6, Zenon DEF GroupAppended
  <2>8. observed \o N \in Seq(TraceRecord)
    BY <2>1 DEF Prelude
  <2>9. QED
    BY <2>7, <2>8
<1>4. Notes(c) \in Seq(R) /\ <<>> \in Seq(R)
  <2>1. Notes(c) \in Seq(R)
    BY RemarksTyped DEF R
  <2>2. QED
    BY <2>1
<1>5. /\ Failed(c) \in SUBSET Criteria /\ {} \in SUBSET Criteria
      /\ StateRegressions(c, policy.protected) \in SUBSET Criteria
      /\ \A s : Oscillating(s) \in SUBSET Criteria
  BY Told
<1>6. ASSUME NEW ending, NEW N \in Seq(R), NEW ids \in SUBSET Criteria, ending \in Endings,
             ForceStop(c, ending, N, ids)
      PROVE  \E told \in Seq(TraceRecord), decision \in Decisions(c) : GroupAppended(c, told, decision)
  <2> DEFINE d == Event("FORCED_STOP", c, interventions, ids)
  <2>1. d \in Decisions(c) /\ d.kind \in TerminalKinds
    BY EventTyped DEF TerminalKinds, Event
  <2>2. events' = events \o Observed(c) \o (N \o <<d>>) /\ status' = ending
        /\ UNCHANGED interventions
    BY <1>6 DEF ForceStop, Finish
  <2>3. Concludes(c, d)
    BY <1>6, <2>1, <2>2 DEF Concludes
  <2> HIDE DEF d
  <2>4. QED
    BY <1>3, <2>1, <2>2, <2>3
<1>7. StopStatuses \subseteq Endings
  BY DEF Endings
<1>8. CASE StopForRegression(c)
  <2>1. ForceStop(c, "FAIL_STATE_REGRESSION", <<>>, StateRegressions(c, policy.protected))
    BY <1>8 DEF StopForRegression
  <2>2. "FAIL_STATE_REGRESSION" \in Endings
    BY DEF Endings, StopStatuses
  <2>3. QED
    BY <1>4, <1>5, <1>6, <2>1, <2>2 DEF R
<1>9. CASE StopForOscillation(c)
  <2>1. ForceStop(c, "FAIL_CRITERION_OSCILLATION", Notes(c),
                 Oscillating(Append(history, Snapshot(States(c)))))
    BY <1>9 DEF StopForOscillation
  <2>2. "FAIL_CRITERION_OSCILLATION" \in Endings
    BY DEF Endings, StopStatuses
  <2>3. QED
    BY <1>4, <1>5, <1>6, <2>1, <2>2 DEF R
<1>10. CASE AllowDone(c)
  <2> DEFINE d == Event("DONE_ALLOWED", c, interventions, {})
  <2>1. d \in Decisions(c) /\ d.kind \in TerminalKinds
    BY <1>5, EventTyped DEF TerminalKinds, Event
  <2>2. events' = events \o Observed(c) \o (Notes(c) \o <<d>>) /\ status' \in Endings
        /\ UNCHANGED interventions
    BY <1>10 DEF AllowDone, Finish, Endings
  <2>3. Concludes(c, d)
    BY <2>1, <2>2 DEF Concludes
  <2> HIDE DEF d
  <2>4. QED
    BY <1>3, <1>4, <2>1, <2>2, <2>3
<1>11. CASE Abstain(c)
  <2> DEFINE a == Event("ABSTAIN_RECORDED", c, interventions, {})
  <2>1. PICK kind \in TerminalKinds : 
            /\ events' = events \o Observed(c)
                 \o (Notes(c) \o <<a, Event(kind, c, interventions, {})>>)
            /\ status' \in Endings /\ UNCHANGED interventions
    <3>1. policy.onAbstain \in AbstainActions
      BY SetupFacts DEF StateInv
    <3>2. QED
      BY <1>11, <3>1 DEF Abstain, Finish, AbstainActions, TerminalKinds, Endings
  <2> DEFINE d == Event(kind, c, interventions, {})
  <2>2. d \in Decisions(c) /\ d.kind \in TerminalKinds /\ a \in R
    BY <1>5, EventTyped DEF TerminalKinds, Event, RemarkKinds, R
  <2>3. Notes(c) \o <<a, d>> = (Notes(c) \o <<a>>) \o <<d>>
    <3> HIDE DEF a, d
    <3>1. Notes(c) \in Seq(TraceRecord) /\ a \in TraceRecord /\ d \in TraceRecord
      BY <1>2, <1>4, <2>2, SeqMonotonic DEF R
    <3>2. <<a, d>> = <<a>> \o <<d>>
      OBVIOUS
    <3>3. QED
      BY <3>1, <3>2, ConcatAssociative
  <2> HIDE DEF a, d
  <2>4. Notes(c) \o <<a>> \in Seq(R)
    BY <1>4, <2>2
  <2>5. events' = events \o Observed(c) \o ((Notes(c) \o <<a>>) \o <<d>>)
    BY <2>1, <2>3 DEF d
  <2>6. Concludes(c, d)
    BY <2>1, <2>2 DEF Concludes
  <2>7. QED
    BY <1>3, <2>2, <2>4, <2>5, <2>6
<1>12. CASE StopForBudget(c)
  <2>1. PICK ending \in BudgetFailure(c) : ForceStop(c, ending, Notes(c), {})
    BY <1>12 DEF StopForBudget
  <2>2. ending \in Endings
    BY <1>7, <2>1 DEF BudgetFailure, StopStatuses
  <2>3. QED
    BY <1>4, <1>5, <1>6, <2>1, <2>2 DEF R
<1>13. CASE StopForInterventions(c)
  <2>1. ForceStop(c, "FAIL_MAX_INTERVENTIONS_REACHED", Notes(c), {})
    BY <1>13 DEF StopForInterventions
  <2>2. "FAIL_MAX_INTERVENTIONS_REACHED" \in Endings
    BY DEF Endings, StopStatuses
  <2>3. QED
    BY <1>4, <1>5, <1>6, <2>1, <2>2 DEF R
<1>14. CASE Intervene(c)
  <2> DEFINE d == Event("INTERVENTION_ISSUED", c, interventions + 1, Failed(c))
  <2>1. d \in Decisions(c)
    BY <1>5, EventTyped
  <2>2. events' = events \o Observed(c) \o Notes(c) \o <<d>>
    BY <1>14 DEF Intervene
  <2> HIDE DEF d
  <2>3. events \o Observed(c) \o Notes(c) \o <<d>> = events \o Observed(c) \o (Notes(c) \o <<d>>)
    <3>1. Notes(c) \in Seq(TraceRecord) /\ d \in TraceRecord
          /\ Observed(c) \in Seq(TraceRecord)
      BY <1>1, <1>2, <1>4, <2>1, SeqMonotonic DEF R, Prelude
    <3>2. events \o Observed(c) \in Seq(TraceRecord) /\ <<d>> \in Seq(TraceRecord)
      BY <3>1
    <3>3. QED
      BY <3>1, <3>2, ConcatAssociative
  <2>4. /\ interventions' = interventions + 1 /\ UNCHANGED status
        /\ Failed(c) # {} /\ BudgetFailure(c) = {}
    BY <1>14 DEF Intervene, Correctable
  <2>5. Concludes(c, d)
    BY <2>4 DEF Concludes, d
  <2>6. QED
    BY <1>3, <1>4, <2>1, <2>2, <2>3, <2>5
<1>15. QED
  BY <1>8, <1>9, <1>10, <1>11, <1>12, <1>13, <1>14 DEF HandleDone, R

\* What is where in a sequence put together from a sequence, another and an element.
PiecedTogether(S, new, es, more, d) ==
    /\ new \in Seq(S) /\ Len(new) = Len(es) + Len(more) + 1
    /\ \A i \in 1 .. Len(es) : new[i] = es[i]
    /\ \A i \in 1 .. Len(more) : new[Len(es) + i] = more[i]
    /\ new[Len(es) + Len(more) + 1] = d

LEMMA Pieces ==
    ASSUME NEW S, NEW es \in Seq(S), NEW more \in Seq(S), NEW d \in S
    PROVE  PiecedTogether(S, (es \o more) \o <<d>>, es, more, d)
BY DEF PiecedTogether

\* Where the group is in the trace: n events before it, m before its decision.
GroupAt(c, decision, n, m) ==
    /\ n \in Nat /\ m \in Nat /\ m >= 1
    /\ events' \in Seq(TraceRecord) /\ Len(events') = n + m + 1
    /\ \A i \in 1 .. n : events'[i] = events[i]
    /\ events'[n + 1] = Opening(c)
    /\ \A i \in n + 2 .. n + m : events'[i] \in Remarks(c)
    /\ events'[n + m + 1] = decision

LEMMA GroupPositions ==
    ASSUME StateInv, events \in Seq(TraceRecord), NEW c \in Candidates,
           NEW told, NEW decision \in Decisions(c), GroupAppended(c, told, decision),
           NEW n, n = Len(events), NEW m, m = Len(told)
    PROVE  GroupAt(c, decision, n, m)
<1>1. /\ told \in Seq(TraceRecord) /\ decision \in TraceRecord /\ m >= 1
      /\ told[1] = Opening(c) /\ \A i \in 2 .. m : told[i] \in Remarks(c)
      /\ n \in Nat /\ m \in Nat
  BY DEF GroupAppended, Prelude, Decisions
<1>2. /\ events' \in Seq(TraceRecord) /\ Len(events') = n + m + 1
      /\ \A i \in 1 .. n : events'[i] = events[i]
      /\ \A i \in 1 .. m : events'[n + i] = told[i]
      /\ events'[n + m + 1] = decision
  <2>1. events' = (events \o told) \o <<decision>>
    BY DEF GroupAppended
  <2>2. PiecedTogether(TraceRecord, (events \o told) \o <<decision>>, events, told, decision)
    BY <1>1, Pieces
  <2>3. QED
    BY <2>1, <2>2 DEF PiecedTogether
<1>3. events'[n + 1] = Opening(c)
  BY <1>1, <1>2
<1>4. ASSUME NEW i \in n + 2 .. n + m
      PROVE  events'[i] \in Remarks(c)
  <2>1. i - n \in 2 .. m /\ i - n \in 1 .. m /\ n + (i - n) = i
    BY <1>1
  <2>2. QED
    BY <1>1, <1>2, <2>1
<1>5. QED
  BY <1>1, <1>2, <1>3, <1>4 DEF GroupAt

(* The grammar of the trace holds because it was complete before every     *)
(* group and the group continues the numbers it ends with.                 *)
TraceInv ==
    /\ events \in Seq(TraceRecord)
    /\ ValidGroups(events)
    /\ events = <<>> => candidates = 0 /\ interventions = 0 /\ first = {}
    /\ events # <<>> =>
         /\ events[Len(events)].candidate = candidates
         /\ events[Len(events)].index = interventions
         /\ ~Terminal => events[Len(events)].kind = "INTERVENTION_ISSUED"
         /\ first = {events[1].moment}

\* An empty trace is one.
LEMMA TraceInit == Init => TraceInv
  BY DEF Init, TraceInv, ValidGroups

\* A group continues a complete trace to a complete trace.
LEMMA GroupContinues ==
    ASSUME StateInv, TraceInv, ~Terminal, NEW c \in Candidates, Accept(c),
           NEW told, NEW decision \in Decisions(c), GroupAppended(c, told, decision)
    PROVE  TraceInv'
<1> DEFINE n == Len(events)  m == Len(told)
<1>1. /\ n \in Nat /\ m \in Nat /\ m >= 1
      /\ events' \in Seq(TraceRecord) /\ Len(events') = n + m + 1
      /\ \A i \in 1 .. n : events'[i] = events[i]
      /\ events'[n + 1] = Opening(c)
      /\ \A i \in n + 2 .. n + m : events'[i] \in Remarks(c)
      /\ events'[n + m + 1] = decision
  <2>1. events \in Seq(TraceRecord)
    BY DEF TraceInv
  <2> HIDE DEF n, m
  <2>2. n = Len(events) /\ m = Len(told)
    BY DEF n, m
  <2>3. GroupAt(c, decision, n, m)
    BY <2>1, <2>2, GroupPositions
  <2>4. QED
    BY <2>3 DEF GroupAt
<1>2. n = 0 <=> events = <<>>
  BY DEF TraceInv
<1> HIDE DEF n, m
<1>3. /\ Opening(c).kind = "CANDIDATE_OBSERVED" /\ Opening(c).candidate = candidates + 1
      /\ Opening(c).index = interventions /\ Opening(c).moment = c.moment
  BY DEF Opening, Event
<1>4. /\ decision.candidate = candidates + 1 /\ decision.moment = c.moment
      /\ \/ decision.kind \in TerminalKinds /\ decision.index = interventions
         \/ decision.kind = "INTERVENTION_ISSUED" /\ decision.index = interventions + 1
  BY DEF Decisions
<1>5. \A i \in n + 2 .. n + m :
         /\ events'[i].kind \in RemarkKinds /\ events'[i].index = interventions
         /\ events'[i].candidate = candidates + 1 /\ events'[i].moment = c.moment
  BY <1>1 DEF Remarks
<1>6. /\ interventions \in Nat /\ candidates \in Nat
  BY EventTyped
<1>7. ValidGroups(events')
  <2>1. events' # <<>> /\ Opens(events'[1]) /\ events'[1].candidate = 1 /\ events'[1].index = 0
    <3>1. CASE n = 0
      BY <1>1, <1>2, <1>3, <3>1 DEF TraceInv, Opens
    <3>2. CASE n # 0
      BY <1>1, <1>2, <3>2 DEF TraceInv, ValidGroups
    <3>3. QED
      BY <3>1, <3>2
  <2>2. ASSUME NEW i \in 2 .. Len(events')
        PROVE  LET e == events'[i]  before == events'[i - 1] IN
               /\ IF Opens(e)
                  THEN before.kind = "INTERVENTION_ISSUED" /\ e.candidate = before.candidate + 1
                  ELSE e.candidate = before.candidate /\ e.moment = before.moment
               /\ e.index = IF e.kind = "INTERVENTION_ISSUED" THEN before.index + 1 ELSE before.index
               /\ before.kind \notin TerminalKinds
    <3>1. CASE i <= n
      <4>1. i \in 2 .. Len(events) /\ i \in 1 .. n /\ i - 1 \in 1 .. n
        BY <1>1, <3>1 DEF n
      <4>2. events'[i] = events[i] /\ events'[i - 1] = events[i - 1]
        BY <1>1, <4>1
      <4>3. QED
        BY <4>1, <4>2 DEF TraceInv, ValidGroups
    <3>2. CASE i = n + 1
      <4>1. n \in 1 .. n /\ i - 1 = n /\ events # <<>>
        BY <1>1, <1>2, <3>2
      <4>2. events'[i] = Opening(c) /\ events'[i - 1] = events[n]
        BY <1>1, <3>2, <4>1
      <4>3. /\ events[n].candidate = candidates /\ events[n].index = interventions
            /\ events[n].kind = "INTERVENTION_ISSUED"
        BY <4>1 DEF TraceInv, n
      <4>4. QED
        BY <1>3, <4>2, <4>3 DEF Opens, TerminalKinds
    <3>3. CASE i \in n + 2 .. n + m + 1
      <4>1. /\ events'[i - 1].kind \in RemarkKinds \cup {"CANDIDATE_OBSERVED"}
            /\ events'[i - 1].index = interventions
            /\ events'[i - 1].candidate = candidates + 1 /\ events'[i - 1].moment = c.moment
        <5>1. CASE i = n + 2
          <6>1. i - 1 = n + 1
            BY <1>1, <5>1
          <6>2. QED
            BY <1>1, <1>3, <6>1
        <5>2. CASE i # n + 2
          <6>1. i - 1 \in n + 2 .. n + m
            BY <1>1, <3>3, <5>2
          <6>2. QED
            BY <1>5, <6>1
        <5>3. QED
          BY <5>1, <5>2
      <4>2. /\ events'[i].candidate = candidates + 1 /\ events'[i].moment = c.moment
            /\ events'[i].kind # "CANDIDATE_OBSERVED"
            /\ events'[i].index = IF events'[i].kind = "INTERVENTION_ISSUED"
                                  THEN interventions + 1 ELSE interventions
        <5>1. CASE i = n + m + 1
          BY <1>1, <1>4, <5>1 DEF TerminalKinds
        <5>2. CASE i # n + m + 1
          <6>1. i \in n + 2 .. n + m
            BY <1>1, <3>3, <5>2
          <6>2. QED
            BY <1>5, <6>1 DEF RemarkKinds
        <5>3. QED
          BY <5>1, <5>2
      <4>3. QED
        BY <4>1, <4>2 DEF Opens, TerminalKinds, RemarkKinds
    <3>4. QED
      BY <1>1, <3>1, <3>2, <3>3
  <2>3. events'[Len(events')].kind \in TerminalKinds \cup {"INTERVENTION_ISSUED"}
    BY <1>1, <1>4
  <2>4. QED
    BY <2>1, <2>2, <2>3 DEF ValidGroups
<1>8. events'[Len(events')] = decision /\ events' # <<>>
  BY <1>1
<1>9. decision.candidate = candidates'
  BY <1>4 DEF Accept
<1>10. decision.index = interventions' /\ (~Terminal' => decision.kind = "INTERVENTION_ISSUED")
  <2>1. Concludes(c, decision)
    BY DEF GroupAppended
  <2>2. CASE decision.kind \in TerminalKinds /\ status' \in Endings /\ UNCHANGED interventions
    BY <1>4, <2>2 DEF TerminalKinds, Terminal, Endings, StopStatuses
  <2>3. CASE /\ decision = Event("INTERVENTION_ISSUED", c, interventions + 1, Failed(c))
             /\ interventions' = interventions + 1
    BY <1>4, <2>3 DEF Event
  <2>4. QED
    BY <2>1, <2>2, <2>3 DEF Concludes
<1>11. first' = {events'[1].moment}
  <2>1. CASE events = <<>>
    <3>1. first' = {c.moment} /\ events'[1] = Opening(c)
      BY <1>1, <1>2, <2>1 DEF TraceInv, Accept, Start
    <3>2. QED
      BY <1>3, <3>1
  <2>2. CASE events # <<>>
    <3>1. first = {events[1].moment} /\ events'[1] = events[1]
      BY <1>1, <1>2, <2>2 DEF TraceInv
    <3>2. QED
      BY <3>1 DEF Accept, Start
  <2>3. QED
    BY <2>1, <2>2
<1>12. (events \in Seq(TraceRecord))'
  <2>1. UNCHANGED TraceRecord
    BY DEF Accept, TraceRecord, Criteria, contract
  <2>2. QED
    BY <1>1, <2>1
<1>13. QED
  BY <1>7, <1>8, <1>9, <1>10, <1>11, <1>12 DEF TraceInv

\* Every step keeps the trace complete.
LEMMA TraceStep == StateInv /\ TraceInv /\ [Next]_vars => TraceInv'
<1> SUFFICES ASSUME StateInv, TraceInv, [Next]_vars PROVE TraceInv'
  OBVIOUS
<1>1. CASE UNCHANGED vars
  <2>1. UNCHANGED <<events, candidates, interventions, status, first, TraceRecord>>
    BY <1>1 DEF vars, TraceRecord, Criteria, contract
  <2>2. QED
    BY <2>1 DEF TraceInv, ValidGroups, Terminal
<1>2. ASSUME NEW c \in Candidates, HandleDone(c), ~Terminal PROVE TraceInv'
  <2>1. Accept(c)
    BY <1>2, AnswerShape DEF StateInv
  <2>2. PICK told \in Seq(TraceRecord), decision \in Decisions(c) :
           GroupAppended(c, told, decision)
    BY <1>2, AppendsGroup DEF TraceInv
  <2>3. QED
    BY <1>2, <2>1, <2>2, GroupContinues
<1>3. QED
  BY <1>1, <1>2 DEF Next, Answered

LEMMA TraceInvariant == Spec => []TraceInv
  BY TraceInit, StateInvariant, TraceStep, PTL DEF Spec

(* result() may be asked for after every answer: the trace passes the      *)
(* validation of its groups whatever was decided so far.                   *)
THEOREM TraceGrammarTheorem == Spec => []TraceGrammar
<1>1. TraceInv => TraceGrammar
  BY DEF TraceInv, TraceGrammar
<1>2. QED
  BY <1>1, TraceInvariant, PTL

-----------------------------------------------------------------------------
(* The evidence.  What an aggregated status says of the frames it is made  *)
(* from, and what one more frame may do to it.                             *)

\* A status that is known is not the unknown one.
LEMMA UnknownIsUndecided ==
    ASSUME NEW obs
    PROVE  UnknownStatus(obs) \notin {"SATISFIED", "VIOLATED"}
BY DEF UnknownStatus

\* The positions an aggregation looks at.
LEMMA Positions ==
    ASSUME NEW obs \in Seq(Observation)
    PROVE  /\ Len(obs) \in Nat
           /\ \A i : i \in Where(obs, Success) <=> i \in 1 .. Len(obs) /\ Success(obs[i])
           /\ \A i : i \in Where(obs, Violation) <=> i \in 1 .. Len(obs) /\ Violation(obs[i])
BY DEF Where

\* The looks that decide a persistent state, and the last of them.
Looks(obs) == {i \in Where(obs, Success) \cup Where(obs, Violation) :
                  obs[i].state # "OBSCURED_BUT_PERSISTENT"}

LEMMA LastLook ==
    ASSUME NEW obs \in Seq(Observation)
    PROVE  /\ Looks(obs) = {} => AggregatePersistent(obs) = UnknownStatus(obs)
           /\ Looks(obs) # {} => /\ AggregatePersistent(obs) = obs[LastOf(Looks(obs))].status
                                 /\ LastOf(Looks(obs)) \in Looks(obs)
                                 /\ \A j \in Looks(obs) : j <= LastOf(Looks(obs))
<1>1. Looks(obs) = {} => AggregatePersistent(obs) = UnknownStatus(obs)
  BY DEF AggregatePersistent, Looks
<1>2. ASSUME Looks(obs) # {}
      PROVE  /\ AggregatePersistent(obs) = obs[LastOf(Looks(obs))].status
             /\ LastOf(Looks(obs)) \in Looks(obs)
             /\ \A j \in Looks(obs) : j <= LastOf(Looks(obs))
  <2>1. Looks(obs) \in SUBSET (1 .. Len(obs)) /\ Len(obs) \in Nat
    BY Positions DEF Looks
  <2>2. LastOf(Looks(obs)) \in Looks(obs) /\ \A j \in Looks(obs) : j <= LastOf(Looks(obs))
    BY <1>2, <2>1, LastPosition
  <2>3. AggregatePersistent(obs) = obs[LastOf(Looks(obs))].status
    BY <1>2 DEF AggregatePersistent, Looks
  <2>4. QED
    BY <2>2, <2>3
<1>3. QED
  BY <1>1, <1>2

\* Whatever the semantics, a violated status was seen violated on a decisive frame.
LEMMA ViolatedWasSeen ==
    ASSUME NEW semantics \in Semantics, NEW obs \in Seq(Observation),
           AggregateCriterion(semantics, obs) = "VIOLATED"
    PROVE  \E j \in 1 .. Len(obs) : Violation(obs[j])
<1>1. UnknownStatus(obs) # "VIOLATED"
  BY UnknownIsUndecided
<1>2. SUFFICES \E j : j \in Where(obs, Violation)
  BY Positions
<1>3. CASE semantics = "LATCHED_EVENT"
  BY <1>1, <1>3 DEF AggregateCriterion, AggregateLatched
<1>4. CASE semantics = "PERSISTENT_STATE"
  <2>1. AggregatePersistent(obs) = "VIOLATED"
    BY <1>4 DEF AggregateCriterion
  <2>2. Looks(obs) # {} /\ obs[LastOf(Looks(obs))].status = "VIOLATED"
        /\ LastOf(Looks(obs)) \in Looks(obs)
    BY <1>1, <2>1, LastLook
  <2>3. LastOf(Looks(obs)) \notin Where(obs, Success)
    BY <2>2, Positions DEF Success
  <2>4. QED
    BY <2>2, <2>3 DEF Looks
<1>5. CASE semantics = "EVENTUAL_STATE"
  BY <1>1, <1>5 DEF AggregateCriterion, AggregateEventual
<1>6. CASE semantics = "PROCESS_OBLIGATION"
  BY <1>1, <1>6 DEF AggregateCriterion, AggregateProcess
<1>7. QED
  BY <1>3, <1>4, <1>5, <1>6 DEF Semantics

\* The successes and violations a criterion's frames contain justify its success.
Evidenced(semantics, obs) ==
    \E i \in Where(obs, Success) :
        \A j \in Where(obs, Violation) :
            \/ j < i
            \/ semantics = "EVENTUAL_STATE"
            \/ semantics = "LATCHED_EVENT" /\ ~obs[j].revokes
            \/ obs[j].state = "OBSCURED_BUT_PERSISTENT"

LEMMA SatisfiedIsEvidenced ==
    ASSUME NEW semantics \in Semantics, NEW obs \in Seq(Observation),
           semantics # "PROCESS_OBLIGATION",
           AggregateCriterion(semantics, obs) = "SATISFIED"
    PROVE  Evidenced(semantics, obs)
<1>1. UnknownStatus(obs) # "SATISFIED"
  BY UnknownIsUndecided
<1> DEFINE seen == Where(obs, Success)
<1>2. seen \in SUBSET (1 .. Len(obs)) /\ Len(obs) \in Nat
      /\ Where(obs, Violation) \in SUBSET (1 .. Len(obs))
  BY Positions
<1>3. CASE semantics = "LATCHED_EVENT"
  <2>1. /\ seen # {}
        /\ \A r \in Where(obs, Violation) : obs[r].revokes => \E i \in seen : ~(i <= r)
    BY <1>1, <1>3 DEF AggregateCriterion, AggregateLatched
  <2> HIDE DEF seen
  <2>2. LastOf(seen) \in seen /\ \A j \in seen : j <= LastOf(seen)
    BY <1>2, <2>1, LastPosition
  <2>3. ASSUME NEW r \in Where(obs, Violation), obs[r].revokes
        PROVE  r < LastOf(seen)
    <3>1. PICK i \in seen : ~(i <= r)
      BY <2>1, <2>3
    <3>2. i \in 1 .. Len(obs) /\ r \in 1 .. Len(obs) /\ LastOf(seen) \in 1 .. Len(obs)
      BY <1>2, <2>2
    <3>3. i <= LastOf(seen)
      BY <2>2
    <3>4. QED
      BY <1>2, <3>1, <3>2, <3>3
  <2>4. QED
    BY <1>3, <2>2, <2>3 DEF Evidenced, seen
<1>4. CASE semantics = "PERSISTENT_STATE"
  <2> DEFINE i == LastOf(Looks(obs))
  <2>1. /\ obs[i].status = "SATISFIED" /\ i \in Looks(obs)
        /\ \A j \in Looks(obs) : j <= i
    BY <1>1, <1>4, LastLook DEF AggregateCriterion
  <2> HIDE DEF i
  <2>2. i \in Where(obs, Success)
    BY <2>1, Positions DEF Looks, Violation
  <2>3. ASSUME NEW j \in Where(obs, Violation), obs[j].state # "OBSCURED_BUT_PERSISTENT"
        PROVE  j < i
    <3>1. j \in Looks(obs) /\ obs[j].status = "VIOLATED"
      BY <2>3, Positions DEF Looks, Violation
    <3>2. j <= i /\ j # i /\ i \in Nat /\ j \in Nat
      BY <1>2, <2>1, <2>2, <3>1
    <3>3. QED
      BY <3>2
  <2>4. QED
    BY <2>2, <2>3 DEF Evidenced
<1>5. CASE semantics = "EVENTUAL_STATE"
  <2>1. seen # {}
    BY <1>1, <1>5 DEF AggregateCriterion, AggregateEventual
  <2>2. QED
    BY <1>5, <2>1 DEF Evidenced
<1>6. QED
  BY <1>3, <1>4, <1>5 DEF Semantics

\* A passing outcome is made from satisfied criteria, none of them without capability.
LEMMA PassIsSatisfied ==
    ASSUME NEW c, Outcome(c) = "PASS", NEW k \in OutcomeCriteria(contract), k \in Criteria
    PROVE  /\ AggregateCriterion(contract.semantics[k], Prefix(c)[k]) = "SATISFIED"
           /\ contract.semantics[k] # "PROCESS_OBLIGATION"
<1> DEFINE results == {Replayed(c)[j] : j \in OutcomeCriteria(contract)}
<1>1. CriterionVerdict(results) = "PASS"
  BY DEF Outcome, OutcomeVerdict
<1> HIDE DEF results
<1>2. results = {"SATISFIED"}
  BY <1>1 DEF CriterionVerdict
<1>3. Replayed(c)[k] = "SATISFIED"
  BY <1>2 DEF results
<1>4. AggregateCriterion(contract.semantics[k], Prefix(c)[k]) = "SATISFIED"
  BY <1>3 DEF Replayed, Replay, Criteria
<1>5. QED
  BY <1>4 DEF OutcomeCriteria, ProcessCriteria

\* A run is allowed to be done as judged only by a candidate that passes.
LEMMA AllowedPasses ==
    ASSUME StateInv, NEW c, HandleDone(c), ~Terminal, status' = "DONE_ALLOWED"
    PROVE  Passes(c)
<1>1. policy.onAbstain \in AbstainActions
  BY SetupFacts DEF StateInv
<1>2. status # "DONE_ALLOWED"
  BY DEF Terminal
<1>3. ~StopForRegression(c) /\ ~StopForOscillation(c) /\ ~StopForInterventions(c)
  BY DEF StopForRegression, StopForOscillation, StopForInterventions, ForceStop, Finish
<1>4. ~Abstain(c)
  BY <1>1 DEF Abstain, Finish, AbstainActions
<1>5. ~StopForBudget(c)
  BY DEF StopForBudget, ForceStop, Finish, BudgetFailure
<1>6. ~Intervene(c)
  BY <1>2 DEF Intervene
<1>7. AllowDone(c)
  BY <1>3, <1>4, <1>5, <1>6 DEF HandleDone
<1>8. QED
  BY <1>7 DEF AllowDone

(* A run whose "done" was allowed as judged rests on decisive evidence for *)
(* every required outcome criterion, whatever the contract's semantics.    *)
THEOREM AllowedDoneTheorem == Spec => []AllowedDoneIsEvidenced
<1>1. Init => AllowedDoneIsEvidenced
  BY DEF Init, AllowedDoneIsEvidenced
<1>2. StateInv /\ AllowedDoneIsEvidenced /\ [Next]_vars => AllowedDoneIsEvidenced'
  <2> SUFFICES ASSUME StateInv, AllowedDoneIsEvidenced, [Next]_vars
               PROVE  AllowedDoneIsEvidenced'
    OBVIOUS
  <2>1. CASE UNCHANGED vars
    BY <2>1 DEF vars, AllowedDoneIsEvidenced, contract
  <2>2. ASSUME NEW c \in Candidates, HandleDone(c), ~Terminal
        PROVE  AllowedDoneIsEvidenced'
    <3>1. Accept(c) /\ UNCHANGED contract
      BY <2>2, AnswerShape DEF StateInv, Accept, contract
    <3>2. SUFFICES ASSUME status' = "DONE_ALLOWED", NEW k \in OutcomeCriteria(contract)
                   PROVE  Evidenced(contract.semantics[k], observations'[k])
      BY <3>1 DEF AllowedDoneIsEvidenced, Evidenced
    <3>3. Outcome(c) = "PASS"
      BY <2>2, <3>2, AllowedPasses DEF Passes
    <3>4. k \in Criteria
      BY <3>2, SetupsAssumption DEF StateInv, OutcomeCriteria, contract, Criteria
    <3>5. contract.semantics[k] \in Semantics /\ Prefix(c)[k] \in Seq(Observation)
      BY <3>4, SetupFacts, StatesTyped DEF StateInv
    <3>6. Evidenced(contract.semantics[k], Prefix(c)[k])
      BY <3>2, <3>3, <3>4, <3>5, PassIsSatisfied, SatisfiedIsEvidenced
    <3>7. QED
      BY <3>1, <3>6 DEF Accept
  <2>3. QED
    BY <2>1, <2>2 DEF Next, Answered
<1>3. QED
  BY <1>1, <1>2, StateInvariant, PTL DEF Spec

-----------------------------------------------------------------------------
(* The interventions.  Every candidate adds one observation per criterion, *)
(* so that the frames an intervention was issued for are the first ones of *)
(* the record, whatever was added since.                                   *)
SeenInv ==
    /\ \A k \in Criteria : Len(observations[k]) = candidates
    /\ \A i \in 1 .. Len(events) : events[i].candidate <= candidates

\* A criterion is enforced as violated only for a frame that shows it.
LEMMA FailedWasSeen ==
    ASSUME StateInv, SeenInv, NEW c \in Candidates, NEW k \in Failed(c)
    PROVE  /\ k \in Criteria /\ Len(Prefix(c)[k]) = candidates + 1
           /\ \E j \in 1 .. candidates + 1 :
                \/ Violation(Prefix(c)[k][j])
                \/ /\ contract.semantics[k] = "PROCESS_OBLIGATION"
                   /\ j = candidates + 1 /\ Prefix(c)[k][j].status = "VIOLATED"
<1>1. k \in Criteria /\ States(c)[k] = "VIOLATED"
  BY Told DEF Failed
<1>2. /\ Prefix(c)[k] = Append(observations[k], c.news[k]) /\ candidates \in Nat
      /\ observations[k] \in Seq(Observation) /\ c.news[k] \in Observation
      /\ Len(observations[k]) = candidates
  BY <1>1, CandidateFacts DEF StateInv, Prefix, SeenInv
<1>3. /\ Prefix(c)[k] \in Seq(Observation) /\ Len(Prefix(c)[k]) = candidates + 1
      /\ Prefix(c)[k][candidates + 1] = c.news[k]
  BY <1>2
<1>4. contract.semantics[k] \in Semantics
  BY <1>1, SetupFacts DEF StateInv
<1>5. CASE policy.enforceProcess /\ contract.semantics[k] = "PROCESS_OBLIGATION"
  <2>1. c.news[k].status = "VIOLATED"
    BY <1>1, <1>5 DEF States, Latest
  <2>2. candidates + 1 \in 1 .. candidates + 1
    BY <1>2
  <2>3. QED
    BY <1>1, <1>3, <1>5, <2>1, <2>2
<1>6. CASE ~(policy.enforceProcess /\ contract.semantics[k] = "PROCESS_OBLIGATION")
  <2>1. Replayed(c)[k] = "VIOLATED"
    BY <1>1, <1>6 DEF States
  <2>2. AggregateCriterion(contract.semantics[k], Prefix(c)[k]) = "VIOLATED"
    BY <1>1, <2>1 DEF Replayed, Replay, Criteria
  <2>3. \E j \in 1 .. Len(Prefix(c)[k]) : Violation(Prefix(c)[k][j])
    BY <1>3, <1>4, <2>2, ViolatedWasSeen
  <2>4. QED
    BY <1>1, <1>3, <2>3
<1>7. QED
  BY <1>5, <1>6

\* Within its budgets, a candidate is not later than the policy allows.
LEMMA WithinBudget ==
    ASSUME StateInv, NEW c \in Candidates, BudgetFailure(c) = {}, Start(c) \in Moment
    PROVE  /\ c.moment.step <= Start(c).step + policy.maxExtraSteps
           /\ \A d \in policy.deadline : c.moment.time <= Start(c).time + d
<1>1. policy.maxExtraSteps \in Nat /\ \A d \in policy.deadline : d \in Nat
  BY SetupsAssumption DEF StateInv, policy, AcceptedPolicy
<1>2. c.moment \in Moment
  BY CandidateFacts DEF StateInv
<1>3. ~(c.moment.step > Start(c).step + policy.maxExtraSteps)
  BY DEF BudgetFailure
<1>4. ~ \E d \in policy.deadline : c.moment.time > Start(c).time + d
  BY <1>3 DEF BudgetFailure
<1>5. QED
  BY <1>1, <1>2, <1>3, <1>4 DEF Moment

\* What is said of the intervention at position i of the trace.
EvidencedIntervention(i) ==
    LET e == events[i]  n == e.candidate  IN
    /\ e.moment.step <= events[1].moment.step + policy.maxExtraSteps
    /\ \A d \in policy.deadline : e.moment.time <= events[1].moment.time + d
    /\ e.ids # {}
    /\ \A k \in e.ids : \E j \in 1 .. n :
        \/ Violation(observations[k][j])
        \/ /\ contract.semantics[k] = "PROCESS_OBLIGATION"
           /\ j = n /\ observations[k][j].status = "VIOLATED"

\* Recording one more frame per criterion leaves the earlier frames as they were.
LEMMA FramesKept ==
    ASSUME StateInv, SeenInv, NEW c \in Candidates, Accept(c), NEW k \in Criteria
    PROVE  /\ candidates \in Nat /\ Len(observations'[k]) = candidates + 1
           /\ \A j \in 1 .. candidates : observations'[k][j] = observations[k][j]
<1>1. /\ observations[k] \in Seq(Observation) /\ c.news[k] \in Observation
      /\ Len(observations[k]) = candidates /\ candidates \in Nat
  BY CandidateFacts DEF StateInv, SeenInv
<1>2. observations'[k] = Append(observations[k], c.news[k])
  BY DEF Accept, Prefix
<1>3. QED
  BY <1>1, <1>2

\* Every step keeps the counts, and what was said of each intervention.
LEMMA SeenStep ==
    /\ StateInv /\ TraceInv /\ TraceInv' /\ SeenInv /\ InterventionsAreEvidenced /\ [Next]_vars
    => SeenInv' /\ InterventionsAreEvidenced'
<1> SUFFICES ASSUME StateInv, TraceInv, TraceInv', SeenInv, InterventionsAreEvidenced, [Next]_vars
             PROVE  SeenInv' /\ InterventionsAreEvidenced'
  OBVIOUS
<1>1. CASE UNCHANGED vars
  <2>1. UNCHANGED <<observations, candidates, events, policy, contract, Criteria>>
    BY <1>1 DEF vars, policy, contract, Criteria
  <2>2. QED
    BY <2>1 DEF SeenInv, InterventionsAreEvidenced
<1>2. ASSUME NEW c \in Candidates, HandleDone(c), ~Terminal
      PROVE  SeenInv' /\ InterventionsAreEvidenced'
  <2>1. Accept(c) /\ UNCHANGED <<policy, contract, Criteria>>
    BY <1>2, AnswerShape DEF StateInv, Accept, policy, contract, Criteria
  <2>2. PICK told \in Seq(TraceRecord), decision \in Decisions(c) :
           GroupAppended(c, told, decision)
    BY <1>2, AppendsGroup DEF TraceInv
  <2>3. PICK n, m :
          /\ n = Len(events) /\ m = Len(told)
          /\ n \in Nat /\ m \in Nat /\ m >= 1
          /\ events' \in Seq(TraceRecord) /\ Len(events') = n + m + 1
          /\ \A i \in 1 .. n : events'[i] = events[i]
          /\ events'[n + 1] = Opening(c)
          /\ \A i \in n + 2 .. n + m : events'[i] \in Remarks(c)
          /\ events'[n + m + 1] = decision
    <3>1. PICK n, m : n = Len(events) /\ m = Len(told)
      OBVIOUS
    <3>2. events \in Seq(TraceRecord)
      BY DEF TraceInv
    <3>3. GroupAt(c, decision, n, m)
      BY <2>2, <3>1, <3>2, GroupPositions
    <3>4. QED
      BY <3>1, <3>3 DEF GroupAt
  <2>4. /\ candidates \in Nat /\ candidates' = candidates + 1
        /\ \A i \in 1 .. n : events[i].candidate \in Nat
    <3>1. \A i \in 1 .. n : events[i] \in TraceRecord
      BY <2>3 DEF TraceInv
    <3>2. QED
      BY <2>1, <3>1 DEF StateInv, Accept, TraceRecord
  <2>5. SeenInv'
    <3>1. \A k \in Criteria : Len(observations'[k]) = candidates'
      BY <2>1, <2>4, FramesKept
    <3>2. ASSUME NEW i \in 1 .. Len(events')
          PROVE  events'[i].candidate <= candidates'
      <4>1. CASE i \in 1 .. n
        BY <2>3, <2>4, <4>1 DEF SeenInv
      <4>2. CASE i \notin 1 .. n
        <5>1. events'[i].candidate = candidates + 1
          <6>1. CASE i = n + 1
            BY <2>3, <6>1 DEF Opening, Event
          <6>2. CASE i \in n + 2 .. n + m
            BY <2>3, <6>2 DEF Remarks
          <6>3. CASE i = n + m + 1
            BY <2>3, <6>3 DEF Decisions
          <6>4. QED
            BY <2>3, <4>2, <6>1, <6>2, <6>3
        <5>2. QED
          BY <2>4, <5>1
      <4>3. QED
        BY <4>1, <4>2
    <3>3. QED
      BY <2>1, <3>1, <3>2 DEF SeenInv
  <2>6. ASSUME NEW i \in 1 .. Len(events'), events'[i].kind = "INTERVENTION_ISSUED"
        PROVE  EvidencedIntervention(i)'
    <3>1. CASE i \in 1 .. n
      <4>1. events'[i] = events[i] /\ events'[1] = events[1] /\ i \in DOMAIN events
        BY <2>3, <3>1 DEF TraceInv
      <4>2. EvidencedIntervention(i)
        BY <2>6, <4>1 DEF InterventionsAreEvidenced, EvidencedIntervention
      <4>3. ASSUME NEW k \in events[i].ids, NEW j \in 1 .. events[i].candidate
            PROVE  observations'[k][j] = observations[k][j]
        <5>1. events[i] \in TraceRecord
          BY <2>3, <3>1 DEF TraceInv
        <5>2. k \in Criteria /\ events[i].candidate \in Nat
          BY <5>1 DEF TraceRecord
        <5>3. j \in 1 .. candidates
          BY <2>3, <2>4, <3>1, <5>2 DEF SeenInv
        <5>4. QED
          BY <2>1, <5>2, <5>3, FramesKept
      <4>4. QED
        BY <2>1, <4>1, <4>2, <4>3 DEF EvidencedIntervention
    <3>2. CASE i \notin 1 .. n
      <4>1. i = n + m + 1
        <5>1. events'[n + 1].kind # "INTERVENTION_ISSUED"
          BY <2>3 DEF Opening, Event
        <5>2. \A p \in n + 2 .. n + m : events'[p].kind # "INTERVENTION_ISSUED"
          BY <2>3 DEF Remarks, RemarkKinds
        <5>3. QED
          BY <2>3, <2>6, <3>2, <5>1, <5>2
      <4>2. events'[i] = decision /\ decision.kind = "INTERVENTION_ISSUED"
        BY <2>3, <2>6, <4>1
      <4>3. decision = Event("INTERVENTION_ISSUED", c, interventions + 1, Failed(c))
            /\ Failed(c) # {} /\ BudgetFailure(c) = {}
        BY <2>2, <4>2 DEF GroupAppended, Concludes, TerminalKinds
      <4>4. /\ decision.moment = c.moment /\ decision.ids = Failed(c)
            /\ decision.candidate = candidates + 1
        BY <4>3 DEF Event
      <4>5. events'[1].moment = Start(c) /\ Start(c) \in Moment
        <5>1. events' # <<>> /\ events'[1] \in TraceRecord
          BY <2>3
        <5>2. {Start(c)} = {events'[1].moment}
          BY <2>1, <5>1 DEF TraceInv, Accept
        <5>3. QED
          BY <5>1, <5>2 DEF TraceRecord
      <4>6. /\ c.moment.step <= Start(c).step + policy.maxExtraSteps
            /\ \A d \in policy.deadline : c.moment.time <= Start(c).time + d
        BY <4>3, <4>5, WithinBudget
      <4>7. \A k \in Failed(c) : \E j \in 1 .. candidates + 1 :
                \/ Violation(observations'[k][j])
                \/ /\ contract.semantics[k] = "PROCESS_OBLIGATION"
                   /\ j = candidates + 1 /\ observations'[k][j].status = "VIOLATED"
        BY <2>1, FailedWasSeen DEF Accept
      <4>8. QED
        BY <2>1, <4>2, <4>3, <4>4, <4>5, <4>6, <4>7 DEF EvidencedIntervention
    <3>3. QED
      BY <3>1, <3>2
  <2>7. InterventionsAreEvidenced'
    <3>1. DOMAIN events' = 1 .. Len(events')
      BY <2>3
    <3>2. QED
      BY <2>6, <3>1 DEF InterventionsAreEvidenced, EvidencedIntervention
  <2>8. QED
    BY <2>5, <2>7
<1>3. QED
  BY <1>1, <1>2 DEF Next, Answered

(* The agent is sent back only for what a frame showed violated, and only  *)
(* within the step and time budgets.                                       *)
THEOREM InterventionsTheorem == Spec => []InterventionsAreEvidenced
<1>1. Init => SeenInv /\ InterventionsAreEvidenced
  BY DEF Init, SeenInv, InterventionsAreEvidenced
<1>2. QED
  BY <1>1, StateInvariant, TraceInvariant, SeenStep, PTL DEF Spec

-----------------------------------------------------------------------------
(* The trace is the record of the decisions.                               *)
Issued(es) == {i \in DOMAIN es : es[i].kind = "INTERVENTION_ISSUED"}

\* Every step keeps the counts of the trace and of the interceptor equal.
LEMMA DecisionsStep ==
    StateInv /\ TraceInv /\ TraceTellsTheDecisions /\ [Next]_vars => TraceTellsTheDecisions'
<1> SUFFICES ASSUME StateInv, TraceInv, TraceTellsTheDecisions, [Next]_vars
             PROVE  TraceTellsTheDecisions'
  OBVIOUS
<1>1. CASE UNCHANGED vars
  BY <1>1 DEF vars, TraceTellsTheDecisions, Terminal
<1>2. ASSUME NEW c \in Candidates, HandleDone(c), ~Terminal
      PROVE  TraceTellsTheDecisions'
  <2>1. Accept(c)
    BY <1>2, AnswerShape DEF StateInv
  <2>2. PICK told \in Seq(TraceRecord), decision \in Decisions(c) :
           GroupAppended(c, told, decision)
    BY <1>2, AppendsGroup DEF TraceInv
  <2>3. PICK n, m : n = Len(events) /\ m = Len(told)
    OBVIOUS
  <2>4. GroupAt(c, decision, n, m)
    BY <2>2, <2>3, GroupPositions DEF TraceInv
  <2>5. /\ \A i \in n + 1 .. n + m : events'[i].kind \in RemarkKinds \cup {"CANDIDATE_OBSERVED"}
        /\ DOMAIN events = 1 .. n /\ DOMAIN events' = 1 .. n + m + 1
        /\ n \in Nat /\ m \in Nat
    <3>1. events'[n + 1].kind = "CANDIDATE_OBSERVED"
      BY <2>4 DEF GroupAt, Opening, Event
    <3>2. \A i \in n + 2 .. n + m : events'[i].kind \in RemarkKinds
      BY <2>4 DEF GroupAt, Remarks
    <3>3. DOMAIN events = 1 .. n /\ DOMAIN events' = 1 .. n + m + 1 /\ n \in Nat /\ m \in Nat
      BY <2>3, <2>4 DEF GroupAt, TraceInv
    <3>4. QED
      BY <3>1, <3>2, <3>3
  <2>6. ASSUME NEW i \in DOMAIN events'
        PROVE  \/ i \in DOMAIN events /\ events'[i] = events[i]
               \/ i = n + m + 1 /\ i \notin DOMAIN events /\ events'[i] = decision
               \/ /\ i \notin DOMAIN events
                  /\ events'[i].kind \notin TerminalKinds \cup {"INTERVENTION_ISSUED"}
    <3>1. CASE i \in 1 .. n
      BY <2>4, <2>5, <3>1 DEF GroupAt
    <3>2. CASE i = n + m + 1
      BY <2>4, <2>5, <3>2 DEF GroupAt
    <3>3. CASE i \in n + 1 .. n + m
      BY <2>5, <3>3 DEF RemarkKinds, TerminalKinds
    <3>4. QED
      BY <2>5, <3>1, <3>2, <3>3
  <2>7. \A i \in DOMAIN events : i \in DOMAIN events' /\ events'[i] = events[i]
    BY <2>4, <2>5 DEF GroupAt
  <2>8. n + m + 1 \in DOMAIN events' /\ n + m + 1 \notin DOMAIN events
        /\ events'[n + m + 1] = decision
    BY <2>4, <2>5 DEF GroupAt
  <2>9. IsFiniteSet(Issued(events)) /\ Cardinality(Issued(events)) = interventions
    <3>1. IsFiniteSet(1 .. n)
      BY <2>5, FS_Interval
    <3>2. Issued(events) \subseteq 1 .. n
      BY <2>5 DEF Issued
    <3>3. QED
      BY <3>1, <3>2, FS_Subset DEF Issued, TraceTellsTheDecisions
  <2>10. \A i \in DOMAIN events : events[i].kind \notin TerminalKinds
    BY <1>2 DEF TraceTellsTheDecisions
  <2>11. /\ candidates = interventions /\ Len(history) = candidates
         /\ candidates' = candidates + 1 /\ Len(history') = Len(history) + 1
         /\ interventions \in Nat
    BY <1>2, <2>1, EventTyped DEF TraceTellsTheDecisions, Accept, StateInv
  <2>12. CASE /\ decision = Event("INTERVENTION_ISSUED", c, interventions + 1, Failed(c))
              /\ interventions' = interventions + 1 /\ UNCHANGED status
    <3>1. decision.kind = "INTERVENTION_ISSUED"
      BY <2>12 DEF Event
    <3>2. Issued(events)' = Issued(events) \cup {n + m + 1} /\ n + m + 1 \notin Issued(events)
      BY <2>6, <2>7, <2>8, <3>1 DEF Issued
    <3>3. Cardinality(Issued(events)') = interventions'
      BY <2>9, <2>12, <3>2, FS_AddElement
    <3>4. \A i \in DOMAIN events' : events'[i].kind \notin TerminalKinds
      BY <2>6, <2>10, <3>1 DEF TerminalKinds
    <3>5. ~Terminal'
      BY <1>2, <2>12 DEF Terminal
    <3>6. QED
      BY <2>11, <2>12, <3>3, <3>4, <3>5 DEF TraceTellsTheDecisions, Issued
  <2>13. CASE decision.kind \in TerminalKinds /\ status' \in Endings /\ UNCHANGED interventions
    <3>1. Issued(events)' = Issued(events)
      BY <2>6, <2>7, <2>13 DEF Issued, TerminalKinds
    <3>2. Terminal'
      BY <2>13 DEF Terminal, Endings, StopStatuses
    <3>3. QED
      BY <2>8, <2>9, <2>11, <2>13, <3>1, <3>2 DEF TraceTellsTheDecisions, Issued
  <2>14. QED
    BY <2>2, <2>12, <2>13 DEF GroupAppended, Concludes
<1>3. QED
  BY <1>1, <1>2 DEF Next, Answered

(* As many interventions in the trace as were counted, a terminal event    *)
(* exactly when the run is over, and every candidate but the last was sent *)
(* back.                                                                   *)
THEOREM DecisionsTheorem == Spec => []TraceTellsTheDecisions
<1>1. Init => TraceTellsTheDecisions
  <2> SUFFICES ASSUME Init PROVE TraceTellsTheDecisions
    OBVIOUS
  <2>1. {i \in DOMAIN events : events[i].kind = "INTERVENTION_ISSUED"} = {} /\ ~Terminal
    BY DEF Init, Terminal
  <2>2. QED
    BY <2>1, FS_EmptySet DEF Init, TraceTellsTheDecisions
<1>2. QED
  BY <1>1, StateInvariant, TraceInvariant, DecisionsStep, PTL DEF Spec

-----------------------------------------------------------------------------
(* What one more frame may do to a status that was decided.                *)

\* The successes and violations of a record that is one frame longer.
LEMMA OneMoreFrame ==
    ASSUME NEW obs \in Seq(Observation), NEW o \in Observation
    PROVE  LET longer == Append(obs, o) IN
           /\ longer \in Seq(Observation) /\ Len(longer) = Len(obs) + 1 /\ Len(obs) \in Nat
           /\ longer[Len(obs) + 1] = o
           /\ \A i \in 1 .. Len(obs) : longer[i] = obs[i]
           /\ Where(obs, Success) \subseteq Where(longer, Success)
           /\ Where(obs, Violation) \subseteq Where(longer, Violation)
           /\ \A i \in Where(longer, Success) \ Where(obs, Success) :
                 i = Len(obs) + 1 /\ Success(o)
           /\ \A i \in Where(longer, Violation) \ Where(obs, Violation) :
                 i = Len(obs) + 1 /\ Violation(o)
           /\ Where(obs, Success) \cup Where(obs, Violation) \subseteq 1 .. Len(obs)
<1> DEFINE longer == Append(obs, o)
<1>1. /\ longer \in Seq(Observation) /\ Len(longer) = Len(obs) + 1 /\ Len(obs) \in Nat
      /\ longer[Len(obs) + 1] = o
      /\ \A i \in 1 .. Len(obs) : longer[i] = obs[i]
  OBVIOUS
<1> HIDE DEF longer
<1>2. \A i : i \in 1 .. Len(longer) <=> i \in 1 .. Len(obs) \/ i = Len(obs) + 1
  BY <1>1
<1>3. /\ \A i : i \in Where(obs, Success) <=> i \in 1 .. Len(obs) /\ Success(obs[i])
      /\ \A i : i \in Where(obs, Violation) <=> i \in 1 .. Len(obs) /\ Violation(obs[i])
      /\ \A i : i \in Where(longer, Success) <=> i \in 1 .. Len(longer) /\ Success(longer[i])
      /\ \A i : i \in Where(longer, Violation) <=> i \in 1 .. Len(longer) /\ Violation(longer[i])
  BY <1>1, Positions
<1>4. QED
  BY <1>1, <1>2, <1>3 DEF longer

\* What the four aggregations let one more frame do.
Stands(semantics, old, new, shown) ==
    old # new =>
        /\ semantics = "EVENTUAL_STATE" => old # "SATISFIED"
        /\ semantics = "PROCESS_OBLIGATION" => old # "VIOLATED"
        /\ semantics = "LATCHED_EVENT" /\ old = "SATISFIED" => Violation(shown) /\ shown.revokes
        /\ semantics = "PERSISTENT_STATE" /\ old \in {"SATISFIED", "VIOLATED"} =>
               Decisive(shown) /\ new = shown.status

LEMMA FrameStands ==
    ASSUME NEW semantics \in Semantics, NEW obs \in Seq(Observation), NEW o \in Observation
    PROVE  Stands(semantics, AggregateCriterion(semantics, obs),
                  AggregateCriterion(semantics, Append(obs, o)), o)
<1> DEFINE longer == Append(obs, o)
           old == AggregateCriterion(semantics, obs)
           new == AggregateCriterion(semantics, longer)
<1>1. /\ longer \in Seq(Observation) /\ Len(longer) = Len(obs) + 1 /\ Len(obs) \in Nat
      /\ longer[Len(obs) + 1] = o
      /\ \A i \in 1 .. Len(obs) : longer[i] = obs[i]
      /\ Where(obs, Success) \subseteq Where(longer, Success)
      /\ Where(obs, Violation) \subseteq Where(longer, Violation)
      /\ \A i \in Where(longer, Success) \ Where(obs, Success) : i = Len(obs) + 1 /\ Success(o)
      /\ \A i \in Where(longer, Violation) \ Where(obs, Violation) :
            i = Len(obs) + 1 /\ Violation(o)
      /\ Where(obs, Success) \cup Where(obs, Violation) \subseteq 1 .. Len(obs)
  BY OneMoreFrame
<1> HIDE DEF longer
<1>2. UnknownStatus(obs) \notin {"SATISFIED", "VIOLATED"}
      /\ UnknownStatus(longer) \notin {"SATISFIED", "VIOLATED"}
  BY UnknownIsUndecided
<1>3. CASE semantics = "EVENTUAL_STATE"
  <2>1. ASSUME old = "SATISFIED" PROVE new = "SATISFIED"
    BY <1>1, <1>2, <1>3, <2>1 DEF AggregateCriterion, AggregateEventual
  <2>2. QED
    BY <1>3, <2>1 DEF Stands, longer
<1>4. CASE semantics = "PROCESS_OBLIGATION"
  <2>1. ASSUME old = "VIOLATED" PROVE new = "VIOLATED"
    BY <1>1, <1>2, <1>4, <2>1 DEF AggregateCriterion, AggregateProcess
  <2>2. QED
    BY <1>4, <2>1 DEF Stands, longer
<1>5. CASE semantics = "LATCHED_EVENT"
  <2>1. ASSUME old = "SATISFIED", ~(Violation(o) /\ o.revokes) PROVE new = "SATISFIED"
    <3>1. /\ Where(obs, Success) # {}
          /\ \A r \in Where(obs, Violation) :
                obs[r].revokes => \E i \in Where(obs, Success) : ~(i <= r)
      BY <1>2, <1>5, <2>1 DEF AggregateCriterion, AggregateLatched
    <3>2. Where(longer, Success) # {}
      BY <1>1, <3>1
    <3>3. ASSUME NEW r \in Where(longer, Violation), longer[r].revokes
          PROVE  \E i \in Where(longer, Success) : ~(i <= r)
      <4>1. r \in Where(obs, Violation)
        BY <1>1, <2>1, <3>3
      <4>2. obs[r].revokes
        BY <1>1, <3>3, <4>1
      <4>3. QED
        BY <1>1, <3>1, <4>1, <4>2
    <3>4. QED
      BY <1>5, <3>2, <3>3 DEF AggregateCriterion, AggregateLatched
  <2>2. QED
    BY <1>5, <2>1 DEF Stands, longer
<1>6. CASE semantics = "PERSISTENT_STATE"
  <2> DEFINE was == LastOf(Looks(obs))  is == LastOf(Looks(longer))
  <2>1. ASSUME old \in {"SATISFIED", "VIOLATED"}
        PROVE  old = new \/ (Decisive(o) /\ new = o.status)
    <3>1. old = AggregatePersistent(obs) /\ new = AggregatePersistent(longer)
      BY <1>6 DEF AggregateCriterion
    <3>2. /\ Looks(obs) # {} /\ old = obs[was].status
          /\ was \in Looks(obs) /\ \A j \in Looks(obs) : j <= was
      BY <1>2, <2>1, <3>1, LastLook
    <3>3. Looks(obs) \subseteq Looks(longer) /\ Looks(obs) \subseteq 1 .. Len(obs)
      BY <1>1 DEF Looks
    <3>4. /\ new = longer[is].status
          /\ is \in Looks(longer) /\ \A j \in Looks(longer) : j <= is
      BY <1>1, <3>1, <3>2, <3>3, LastLook
    <3> HIDE DEF was, is, old, new
    <3>5. CASE is \in Looks(obs)
      <4>1. is <= was /\ was <= is /\ is \in 1 .. Len(obs) /\ was \in 1 .. Len(obs)
        BY <3>2, <3>3, <3>4, <3>5
      <4>2. is = was
        BY <1>1, <4>1
      <4>3. longer[is] = obs[was]
        BY <1>1, <4>1, <4>2
      <4>4. old = longer[is].status
        BY <3>2, <4>3, Zenon
      <4>5. old = new
        BY <3>4, <4>4, Zenon
      <4>6. QED
        BY <4>5, Zenon
    <3>6. CASE is \notin Looks(obs)
      <4>1. is \notin Where(obs, Success) \cup Where(obs, Violation)
        BY <1>1, <3>4, <3>6 DEF Looks
      <4>2. is = Len(obs) + 1 /\ (Success(o) \/ Violation(o))
        BY <1>1, <3>4, <4>1 DEF Looks
      <4>3. QED
        BY <1>1, <3>4, <4>2 DEF Success, Violation
    <3>7. QED
      BY <3>5, <3>6
  <2>2. QED
    BY <1>6, <2>1 DEF Stands, longer
<1>7. QED
  BY <1>3, <1>4, <1>5, <1>6 DEF Semantics

(* Further frames undo a decided status only as its semantics lets them:   *)
(* an eventual success and a process violation stand; an event is undone   *)
(* by a revocation; a state by a decisive frame that shows it.             *)
THEOREM StatusesStandTheorem == Spec => DecidedStatusesStand
<1>1. ASSUME StateInv, [Next]_vars
      PROVE  [\A k \in Criteria :
                Stands(contract.semantics[k], StatusOf(k, observations[k]),
                       StatusOf(k, observations'[k]), observations'[k][Len(observations'[k])])]_vars
  <2>1. CASE UNCHANGED vars
    BY <2>1
  <2>2. ASSUME NEW c \in Candidates, HandleDone(c), NEW k \in Criteria
        PROVE  Stands(contract.semantics[k], StatusOf(k, observations[k]),
                      StatusOf(k, observations'[k]), observations'[k][Len(observations'[k])])
    <3>1. observations'[k] = Append(observations[k], c.news[k])
      BY <1>1, <2>2, AnswerShape DEF StateInv, Accept, Prefix
    <3>2. /\ observations[k] \in Seq(Observation) /\ c.news[k] \in Observation
          /\ contract.semantics[k] \in Semantics
      BY <1>1, SetupFacts, CandidateFacts DEF StateInv
    <3>3. observations'[k][Len(observations'[k])] = c.news[k]
      BY <3>1, <3>2
    <3>4. QED
      BY <3>1, <3>2, <3>3, FrameStands DEF StatusOf
  <2>3. QED
    BY <1>1, <2>1, <2>2 DEF Next, Answered
<1>2. QED
  BY <1>1, StateInvariant, PTL DEF Spec, DecidedStatusesStand, Stands
=============================================================================

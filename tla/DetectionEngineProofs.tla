------------------------ MODULE DetectionEngineProofs ------------------------
(***************************************************************************)
(* Proofs about DetectionEngine for every assertion, clearing and cooldown *)
(* length: type correctness, the anchored cooldown, that assertions and    *)
(* clearings are earned, and that the engine implements the lifecycle.     *)
(***************************************************************************)
EXTENDS DetectionEngine, TLAPS

\* The streaks never exceed what the history of evaluations shows.
StreakIsWitnessed ==
  /\ streak <= Len(recent)
  /\ \A i \in Len(recent) - streak + 1 .. Len(recent) : recent[i] = lastCandidate

ClearingIsWitnessed == Effective \in Anomalous => clearStreak <= against

\* A cooldown retains the anomaly it follows, which must therefore be known.
AnomalyIsRetained == Effective \in Anomalous => lastAnomalous = Effective

IInv ==
  /\ TypeOK /\ CooldownIsAnchored /\ AnomalyIsRetained
  /\ StreakIsWitnessed /\ ClearingIsWitnessed

-----------------------------------------------------------------------------
(* The evidence.                                                            *)

\* What a derivation of signals can produce: typed values, and a relationship
\* only beside an ingress or bidirectional candidate (derive).
LEMMA SignalsShape ==
  ASSUME NEW s \in Signals
  PROVE  /\ s \in [candidate: Candidates, relation: {"none", "suspected", "high"},
                   ready: BOOLEAN]
         /\ s.relation # "none" => s.candidate \in {"Ingress", "Bidirectional"}
<1>1. PICK i \in HookEvidence, e \in HookEvidence, w \in WindowEvidence : s = Derive(i, e, w)
  BY DEF Signals
<1>2. Candidate(i, e) \in Candidates
  BY DEF Candidate, Candidates
<1>3. Relation(Candidate(i, e), i, w) \in {"none", "suspected", "high"}
  BY DEF Relation
<1>4. EvidenceReady(i, e) \in BOOLEAN
  BY DEF EvidenceReady
<1>5. Relation(Candidate(i, e), i, w) # "none" => Candidate(i, e) \in {"Ingress", "Bidirectional"}
  BY DEF Relation, LoopSuspected
<1>. QED
  BY <1>1, <1>2, <1>3, <1>4, <1>5 DEF Derive

\* The desired anomaly is an anomaly or none, and none iff there is no candidate
\* (strongest_anomaly).
LEMMA DesiredShape ==
  ASSUME NEW s \in Signals
  PROVE  /\ Desired(s) \in Anomalous \cup {"None"}
         /\ Desired(s) = "None" <=> s.candidate = "None"
BY SignalsShape
   DEF Desired, Candidates, Anomalous, L!Anomalous, L!Storms, L!Loops

\* Remembering a candidate shifts the history by one at most.
LEMMA RecentStep ==
  ASSUME NEW c \in Candidates, NEW r \in Seq(Candidates), Len(r) <= AssertTicks,
         NEW q, q = IF Len(r) < AssertTicks THEN Append(r, c) ELSE Append(Tail(r), c)
  PROVE  /\ q \in Seq(Candidates)
         /\ Len(q) = IF Len(r) < AssertTicks THEN Len(r) + 1 ELSE Len(r)
         /\ q[Len(q)] = c
         /\ \A i \in 1 .. Len(q) - 1 : q[i] = IF Len(r) < AssertTicks THEN r[i] ELSE r[i + 1]
<1>1. CASE Len(r) < AssertTicks
  BY <1>1
<1>2. CASE ~(Len(r) < AssertTicks)
  <2>1. Len(r) = AssertTicks /\ Len(r) > 0 /\ r # <<>>
    BY <1>2, TicksAssumption
  <2>2. /\ Tail(r) \in Seq(Candidates) /\ Len(Tail(r)) = Len(r) - 1
        /\ \A i \in 1 .. Len(r) - 1 : Tail(r)[i] = r[i + 1]
    BY <2>1
  <2>. QED
    BY <1>2, <2>1, <2>2
<1>. QED
  BY <1>1, <1>2

\* A later look at the cooldown keeps its type and whether there is one.
LEMMA LaterShape ==
  ASSUME cooldown \in 0 .. NoCooldown, NEW ticks \in Gaps
  PROVE  /\ Later(ticks) \in 0 .. NoCooldown
         /\ Later(ticks) = NoCooldown <=> cooldown = NoCooldown
BY TicksAssumption DEF Later, AtMost, NoCooldown

-----------------------------------------------------------------------------
(* The inductive invariant.                                                 *)

\* A new engine satisfies the invariant (DetectionEngine::new).
LEMMA InitInv == Init => IInv
<1>. SUFFICES ASSUME Init PROVE IInv
  OBVIOUS
<1>1. TypeOK
  BY TicksAssumption
     DEF Init, TypeOK, L!Init, L!States, L!Trustworthy, L!Anomalous, L!Storms, L!Loops, Candidates,
         NoCooldown, WarmingSignals, Anomalous
<1>2. Effective = "WarmingUp"
  BY DEF Init, L!Init, Effective, L!Effective
<1>3. CooldownIsAnchored /\ AnomalyIsRetained /\ ClearingIsWitnessed
  BY <1>2 DEF Init, CooldownIsAnchored, AnomalyIsRetained, ClearingIsWitnessed, Anomalous, L!Anomalous, L!Storms, L!Loops
<1>4. StreakIsWitnessed
  BY DEF Init, StreakIsWitnessed
<1>. QED
  BY <1>1, <1>3, <1>4 DEF IInv

\* The effective state is a trustworthy one.
LEMMA EffectiveShape ==
  ASSUME TypeOK
  PROVE  Effective \in L!Trustworthy
BY DEF TypeOK, Effective, L!Effective, L!States

\* The successors the outcomes of an evaluation need.
LEMMA SuccessorsShape ==
  ASSUME NEW e \in L!Trustworthy
  PROVE  /\ Anomalous \subseteq L!Successors(e)
         /\ e \in {"WarmingUp", "Cooldown"} => "Normal" \in L!Successors(e)
         /\ e \in Anomalous => "Cooldown" \in L!Successors(e)
BY DEF L!Successors, L!Trustworthy, Anomalous, L!Anomalous, L!Storms, L!Loops

\* What the eleven outcomes of an evaluation have in common.
Outcomes(s, ticks) ==
  \/ Sustain(s, ticks) \/ Upgrade(s, ticks)
  \/ Weaken(s, ticks) \/ Demote(s, ticks) \/ CoolDown(s)
  \/ Reassert(s) \/ CompleteCooldown(s, ticks) \/ StayCool(s, ticks)
  \/ Assert(s, ticks) \/ BecomeReady(s, ticks) \/ Idle(s, ticks)

\* Every outcome publishes a typed successor of the effective state, and anchors
\* the cooldown exactly when that is a cooldown (evaluate).
LEMMA OutcomeShape ==
  ASSUME TypeOK, CooldownIsAnchored, AnomalyIsRetained,
         NEW s \in Signals, NEW ticks \in Gaps, Outcomes(s, ticks)
  PROVE  /\ state' \in L!Trustworthy /\ resume' = state'
         /\ state' \in L!Successors(Effective) \cup {Effective}
         /\ lastAnomalous' \in Anomalous \cup {"None"}
         /\ clearStreak' \in 0 .. ClearTicks /\ cooldown' \in 0 .. NoCooldown
         /\ state' = "Cooldown" <=> cooldown' # NoCooldown
         /\ state' = "Cooldown" => lastAnomalous' # "None"
         /\ state' \in Anomalous => lastAnomalous' = state'
<1>. USE TicksAssumption, EffectiveShape, DesiredShape, LaterShape, SuccessorsShape
<1>. USE DEF Settle, Anomalous, L!Anomalous, L!Storms, L!Loops, L!Trustworthy,
             CooldownIsAnchored, AnomalyIsRetained, TypeOK, NoCooldown
<1>1. CASE Sustain(s, ticks)
  BY <1>1 DEF Sustain
<1>2. CASE Upgrade(s, ticks)
  BY <1>2 DEF Upgrade, Stronger
<1>3. CASE Weaken(s, ticks)
  BY <1>3 DEF Weaken, Unsupported
<1>4. CASE Demote(s, ticks)
  BY <1>4 DEF Demote, Unsupported
<1>5. CASE CoolDown(s)
  BY <1>5 DEF CoolDown, Unsupported
<1>6. CASE Reassert(s)
  BY <1>6 DEF Reassert
<1>7. CASE CompleteCooldown(s, ticks)
  BY <1>7 DEF CompleteCooldown
<1>8. CASE StayCool(s, ticks)
  BY <1>8 DEF StayCool
<1>9. CASE Assert(s, ticks)
  BY <1>9 DEF Assert
<1>10. CASE BecomeReady(s, ticks)
  BY <1>10 DEF BecomeReady
<1>11. CASE Idle(s, ticks)
  BY <1>11 DEF Idle
<1>. QED
  BY <1>1, <1>2, <1>3, <1>4, <1>5, <1>6, <1>7, <1>8, <1>9, <1>10, <1>11 DEF Outcomes

\* The streak of an evaluation is witnessed by the history it leaves; a full
\* streak fills that history with the candidate (update_candidate_streak).
LEMMA StreakStep ==
  ASSUME TypeOK, StreakIsWitnessed, NEW s \in Signals, NEW ticks \in Gaps, Evaluate(s, ticks)
  PROVE  /\ recent' \in Seq(Candidates) /\ Len(recent') <= AssertTicks
         /\ streak' \in 0 .. AssertTicks
         /\ StreakIsWitnessed'
         /\ Asserted(s.candidate) => recent' = [i \in 1 .. AssertTicks |-> s.candidate]
<1>1. s.candidate \in Candidates
  BY SignalsShape
<1>2. /\ recent' \in Seq(Candidates)
      /\ Len(recent') = IF Len(recent) < AssertTicks THEN Len(recent) + 1 ELSE Len(recent)
      /\ recent'[Len(recent')] = s.candidate
      /\ \A i \in 1 .. Len(recent') - 1 :
           recent'[i] = IF Len(recent) < AssertTicks THEN recent[i] ELSE recent[i + 1]
  BY <1>1, RecentStep DEF TypeOK, Evaluate, Witness
<1>3. streak' = NextStreak(s.candidate) /\ lastCandidate' = s.candidate
  BY DEF Evaluate
<1>4. streak' \in 0 .. AssertTicks /\ streak' <= Len(recent')
  BY <1>2, <1>3, TicksAssumption DEF NextStreak, AtMost, TypeOK, StreakIsWitnessed
<1>5. ASSUME NEW i \in Len(recent') - streak' + 1 .. Len(recent')
      PROVE  recent'[i] = s.candidate
  <2>1. CASE i = Len(recent')
    BY <2>1, <1>2
  <2>2. CASE i < Len(recent')
    <3>1. streak' > 1 /\ s.candidate = lastCandidate /\ streak' <= streak + 1
      <4>1. Len(recent') \in Nat /\ streak' \in Nat /\ streak \in Nat /\ AssertTicks \in Nat
        BY <1>2, <1>4, TicksAssumption DEF TypeOK
      <4>2. streak' > 1
        BY <2>2, <4>1
      <4>3. s.candidate # "None" /\ s.candidate = lastCandidate
        BY <4>2, <1>3 DEF NextStreak
      <4>4. streak' = AtMost(streak + 1, AssertTicks)
        BY <4>3, <1>3 DEF NextStreak
      <4>. QED
        BY <4>1, <4>2, <4>3, <4>4 DEF AtMost
    <3>2. i \in 1 .. Len(recent') - 1
      BY <2>2, <1>2, <1>4
    <3>3. /\ Len(recent) \in Nat /\ Len(recent') \in Nat /\ streak \in Nat /\ streak' \in Nat
          /\ Len(recent) <= AssertTicks /\ streak <= Len(recent)
      BY <1>2, <1>4, TicksAssumption DEF StreakIsWitnessed, TypeOK
    <3>4. CASE Len(recent) < AssertTicks
      <4>1. i \in Len(recent) - streak + 1 .. Len(recent)
        BY <3>1, <3>2, <3>3, <3>4, <1>2
      <4>. QED
        BY <4>1, <3>1, <3>2, <3>4, <1>2 DEF StreakIsWitnessed
    <3>5. CASE ~(Len(recent) < AssertTicks)
      <4>1. i + 1 \in Len(recent) - streak + 1 .. Len(recent)
        BY <3>1, <3>2, <3>3, <3>5, <1>2
      <4>. QED
        BY <4>1, <3>1, <3>2, <3>5, <1>2 DEF StreakIsWitnessed
    <3>. QED
      BY <3>4, <3>5
  <2>. QED
    BY <2>1, <2>2, <1>2, <1>4
<1>6. ASSUME Asserted(s.candidate)
      PROVE  recent' = [i \in 1 .. AssertTicks |-> s.candidate]
  <2>1. streak' = AssertTicks /\ Len(recent') = AssertTicks
    BY <1>6, <1>2, <1>3, <1>4, TicksAssumption DEF Asserted, TypeOK
  <2>2. \A i \in 1 .. AssertTicks : recent'[i] = s.candidate
    BY <2>1, <1>5, TicksAssumption
  <2>3. recent' = [i \in 1 .. Len(recent') |-> recent'[i]]
    BY <1>2
  <2>. QED
    BY <2>1, <2>2, <2>3
<1>. QED
  BY <1>2, <1>3, <1>4, <1>5, <1>6, TicksAssumption DEF StreakIsWitnessed, TypeOK

\* The clear streak of an evaluation counts evaluations against the anomaly.
LEMMA ClearingStep ==
  ASSUME TypeOK, ClearingIsWitnessed, NEW s \in Signals, NEW ticks \in Gaps, Evaluate(s, ticks)
  PROVE  /\ against' \in 0 .. ClearTicks
         /\ state' \in Anomalous => clearStreak' <= against'
         /\ Effective \in Anomalous /\ state' = "Cooldown" => against' = ClearTicks
<1>1. against' = IF Desired(s) \in {Effective, state'} THEN 0 ELSE AtMost(against + 1, ClearTicks)
  BY DEF Evaluate, Witness
<1>2. against' \in 0 .. ClearTicks
  BY <1>1, TicksAssumption DEF AtMost, TypeOK
<1>3. Desired(s) \in Anomalous \cup {"None"}
  BY DesiredShape
<1>4. Effective \in L!Trustworthy
  BY EffectiveShape
<1>5. Outcomes(s, ticks)
  BY DEF Evaluate, Outcomes
<1>6. state' \in Anomalous => clearStreak' = 0 \/ Weaken(s, ticks)
  BY <1>4, <1>5
     DEF Outcomes, Settle, Sustain, Upgrade, Demote, CoolDown, Reassert, CompleteCooldown, StayCool,
         Assert, BecomeReady, Idle, Anomalous, L!Anomalous, L!Storms, L!Loops
<1>7. Weaken(s, ticks) => clearStreak' <= against'
  BY <1>1, TicksAssumption
     DEF Weaken, Unsupported, Settle, ClearingIsWitnessed, AtMost, TypeOK
<1>8. Effective \in Anomalous /\ state' = "Cooldown" => CoolDown(s)
  BY <1>3, <1>4, <1>5
     DEF Outcomes, Settle, Sustain, Upgrade, Stronger, Weaken, Demote, Reassert, CompleteCooldown,
         StayCool, Assert, BecomeReady, Idle, Anomalous, L!Anomalous, L!Storms, L!Loops
<1>9. CoolDown(s) => against' = ClearTicks
  BY <1>1, <1>4, TicksAssumption
     DEF CoolDown, Unsupported, Settle, ClearingIsWitnessed, AtMost, TypeOK, Anomalous,
         L!Anomalous, L!Storms, L!Loops, L!Trustworthy
<1>. QED
  BY <1>2, <1>6, <1>7, <1>8, <1>9

\* An evaluation preserves the invariant (evaluate).
LEMMA EvaluateInv ==
  ASSUME IInv, NEW s \in Signals, NEW ticks \in Gaps, Evaluate(s, ticks)
  PROVE  IInv'
<1>. USE DEF IInv
<1>1. Outcomes(s, ticks)
  BY DEF Evaluate, Outcomes
<1>2. /\ state' \in L!Trustworthy /\ resume' = state'
      /\ lastAnomalous' \in Anomalous \cup {"None"}
      /\ clearStreak' \in 0 .. ClearTicks /\ cooldown' \in 0 .. NoCooldown
      /\ state' = "Cooldown" <=> cooldown' # NoCooldown
      /\ state' = "Cooldown" => lastAnomalous' # "None"
      /\ state' \in Anomalous => lastAnomalous' = state'
  BY <1>1, OutcomeShape
<1>3. Effective' = state'
  BY <1>2 DEF Effective, L!Effective
<1>4. /\ recent' \in Seq(Candidates) /\ Len(recent') <= AssertTicks
      /\ streak' \in 0 .. AssertTicks /\ StreakIsWitnessed'
  BY StreakStep
<1>5. against' \in 0 .. ClearTicks /\ (state' \in Anomalous => clearStreak' <= against')
  BY ClearingStep
<1>6. /\ lastCandidate' \in Candidates
      /\ signals' \in [candidate: Candidates, relation: {"none", "suspected", "high"},
                       ready: BOOLEAN]
  BY SignalsShape DEF Evaluate
<1>7. quiet' \in 0 .. CooldownTicks /\ parity' \in {0, 1}
  BY TicksAssumption DEF Evaluate, Witness, AtMost, TypeOK
<1>8. TypeOK'
  BY <1>2, <1>4, <1>5, <1>6, <1>7 DEF TypeOK, L!States
<1>9. CooldownIsAnchored' /\ AnomalyIsRetained' /\ ClearingIsWitnessed'
  BY <1>2, <1>3, <1>5 DEF CooldownIsAnchored, AnomalyIsRetained, ClearingIsWitnessed, NoCooldown
<1>. QED
  BY <1>4, <1>8, <1>9

\* So does an unavailable interval, which keeps every streak (unavailable, pause).
LEMMA MarkUnavailableInv ==
  ASSUME IInv, NEW ticks \in Gaps, MarkUnavailable(ticks)
  PROVE  IInv'
<1>. USE DEF IInv
<1>1. Effective \in L!Trustworthy
  BY EffectiveShape
<1>2. Effective' = Effective
  BY DEF MarkUnavailable, Effective, L!Effective
<1>3. /\ Later(ticks) \in 0 .. NoCooldown
      /\ Later(ticks) = NoCooldown <=> cooldown = NoCooldown
  BY LaterShape DEF TypeOK
<1>4. TypeOK'
  BY <1>1, <1>3, TicksAssumption DEF MarkUnavailable, TypeOK, L!States
<1>5. CooldownIsAnchored' /\ AnomalyIsRetained' /\ ClearingIsWitnessed' /\ StreakIsWitnessed'
  BY <1>2, <1>3
     DEF MarkUnavailable, CooldownIsAnchored, AnomalyIsRetained, ClearingIsWitnessed,
         StreakIsWitnessed, NoCooldown
<1>. QED
  BY <1>4, <1>5

\* So does an integrity failure, which forgets them (clear).
LEMMA ClearInv ==
  ASSUME IInv, Clear
  PROVE  IInv'
<1>1. Effective' = "WarmingUp"
  BY DEF Clear, Effective, L!Effective
<1>2. TypeOK'
  BY TicksAssumption
     DEF Clear, IInv, TypeOK, L!States, L!Trustworthy, L!Anomalous, L!Storms, L!Loops, Candidates,
         NoCooldown, WarmingSignals, Anomalous
<1>3. CooldownIsAnchored' /\ AnomalyIsRetained' /\ ClearingIsWitnessed'
  BY <1>1
     DEF Clear, CooldownIsAnchored, AnomalyIsRetained, ClearingIsWitnessed, NoCooldown, Anomalous,
         L!Anomalous, L!Storms, L!Loops
<1>4. StreakIsWitnessed'
  BY DEF Clear, StreakIsWitnessed
<1>. QED
  BY <1>2, <1>3, <1>4 DEF IInv

\* Every call of the engine preserves the invariant.
LEMMA NextInv ==
  ASSUME IInv, [Next]_vars
  PROVE  IInv'
<1>1. ASSUME NEW s \in Signals, NEW ticks \in Gaps, Evaluate(s, ticks)
      PROVE  IInv'
  BY <1>1, EvaluateInv
<1>2. ASSUME NEW ticks \in Gaps, MarkUnavailable(ticks)
      PROVE  IInv'
  BY <1>2, MarkUnavailableInv
<1>3. CASE Clear
  BY <1>3, ClearInv
<1>4. CASE UNCHANGED vars
  <2>1. Effective' = Effective
    BY <1>4 DEF vars, Effective, L!Effective
  <2>. QED
    BY <1>4, <2>1
       DEF vars, engineVars, historyVars, IInv, TypeOK, CooldownIsAnchored, AnomalyIsRetained,
           StreakIsWitnessed, ClearingIsWitnessed
<1>. QED
  BY <1>1, <1>2, <1>3, <1>4 DEF Next, Tick

\* The invariant holds of every behaviour of the engine.
LEMMA Invariance == Spec => []IInv
<1>1. Init => IInv
  BY InitInv
<1>2. IInv /\ [Next]_vars => IInv'
  BY NextInv
<1>. QED
  BY <1>1, <1>2, PTL DEF Spec

-----------------------------------------------------------------------------
(* The theorems.                                                            *)

\* Every variable keeps its type, for all streak lengths: the counters never
\* exceed the bounds the report validation demands (detection.rs).
THEOREM TypeCorrect == Spec => []TypeOK
<1>1. IInv => TypeOK
  BY DEF IInv
<1>. QED
  BY <1>1, Invariance, PTL

\* A cooldown always has a start and a retained anomaly, so cooldown_elapsed and
\* the report validation never fail.
THEOREM CooldownAnchored == Spec => []CooldownIsAnchored
<1>1. IInv => CooldownIsAnchored
  BY DEF IInv
<1>. QED
  BY <1>1, Invariance, PTL

\* An anomaly is first published only on a full streak of one candidate.
THEOREM AssertionEarned == Spec => AssertionIsEarned
<1>1. ASSUME IInv, [Next]_vars
      PROVE  [Effective \notin Anomalous /\ state' \in Anomalous =>
               /\ signals'.candidate # "None"
               /\ recent' = [i \in 1 .. AssertTicks |-> signals'.candidate]]_vars
  <2>. SUFFICES ASSUME Next, Effective \notin Anomalous, state' \in Anomalous
                PROVE  /\ signals'.candidate # "None"
                       /\ recent' = [i \in 1 .. AssertTicks |-> signals'.candidate]
    BY <1>1
  <2>1. PICK s \in Signals, ticks \in Gaps : Evaluate(s, ticks)
    BY DEF Next, Tick, MarkUnavailable, Clear, Anomalous, L!Anomalous, L!Storms, L!Loops
  <2>2. Desired(s) # "None" /\ Asserted(s.candidate)
    BY <2>1, <1>1, EffectiveShape
       DEF IInv, Evaluate, Settle, Sustain, Upgrade, Weaken, Demote, CoolDown, Unsupported,
           Reassert, CompleteCooldown, StayCool, Assert, BecomeReady, Idle, Anomalous,
           L!Anomalous, L!Storms, L!Loops
  <2>3. signals' = s
    BY <2>1 DEF Evaluate
  <2>. QED
    BY <2>1, <2>2, <2>3, <1>1, StreakStep, DesiredShape DEF IInv
<1>. QED
  BY <1>1, Invariance, PTL DEF Spec, AssertionIsEarned

\* An anomaly cools down only after a full streak of evaluations against it.
THEOREM ClearingEarned == Spec => ClearingIsEarned
<1>1. ASSUME IInv, [Next]_vars
      PROVE  [state' = "Cooldown" /\ Effective \in Anomalous => against' = ClearTicks]_vars
  <2>. SUFFICES ASSUME Next, state' = "Cooldown", Effective \in Anomalous
                PROVE  against' = ClearTicks
    BY <1>1
  <2>1. PICK s \in Signals, ticks \in Gaps : Evaluate(s, ticks)
    BY DEF Next, Tick, MarkUnavailable, Clear
  <2>. QED
    BY <2>1, <1>1, ClearingStep DEF IInv
<1>. QED
  BY <1>1, Invariance, PTL DEF Spec, ClearingIsEarned

\* The engine implements the lifecycle its consumers rely on.
THEOREM RefinesLifecycle == Spec => ImplementsLifecycle
<1>1. Init => L!Init
  BY DEF Init
<1>2. ASSUME IInv, [Next]_vars
      PROVE  [L!Next]_(L!lifecycleVars)
  <2>1. ASSUME NEW s \in Signals, NEW ticks \in Gaps, Evaluate(s, ticks)
        PROVE  L!Next
    <3>1. Outcomes(s, ticks)
      BY <2>1 DEF Evaluate, Outcomes
    <3>2. /\ state' \in L!Trustworthy /\ resume' = state'
          /\ state' \in L!Successors(Effective) \cup {Effective}
      BY <3>1, <1>2, OutcomeShape DEF IInv
    <3>. QED
      BY <3>2 DEF L!Next, L!Publish, Effective
  <2>2. ASSUME NEW ticks \in Gaps, MarkUnavailable(ticks)
        PROVE  L!Next
    BY <2>2 DEF MarkUnavailable, L!Next, L!Suspend, Effective
  <2>3. CASE Clear
    BY <2>3 DEF Clear, L!Next, L!Forget
  <2>4. CASE UNCHANGED vars
    BY <2>4 DEF vars, L!lifecycleVars
  <2>. QED
    BY <1>2, <2>1, <2>2, <2>3, <2>4 DEF Next, Tick
<1>. QED
  BY <1>1, <1>2, Invariance, PTL DEF Spec, ImplementsLifecycle, L!Spec

=============================================================================

--------------------------- MODULE DetectionEngine ---------------------------
(***************************************************************************)
(* The passive detection state machine of one interface generation (core   *)
(* detection.rs): the storm candidate and the relationship evidence it     *)
(* derives from the rate windows, the baseline and the fingerprint window, *)
(* and the hysteresis that turns them into a published state.              *)
(*                                                                         *)
(* One action is one call of the engine by the sampling service            *)
(* (observation.rs).  Thresholds are compared in the evidence: a rate is   *)
(* below or at its floor, never a number.  Time is counted in sampler      *)
(* ticks; every call comes some ticks after the previous one.              *)
(***************************************************************************)
EXTENDS Naturals, Sequences

CONSTANTS
  AssertTicks,    \* DETECTION_ASSERT_TICKS
  ClearTicks,     \* DETECTION_CLEAR_TICKS
  CooldownTicks,  \* DETECTION_COOLDOWN_MS in sampler ticks
  Gaps            \* ticks that may pass between two calls

ASSUME TicksAssumption ==
  /\ AssertTicks \in Nat \ {0} /\ ClearTicks \in Nat \ {0} /\ CooldownTicks \in Nat \ {0}
  /\ Gaps \subseteq Nat \ {0}

VARIABLES
  state,          \* DetectionReport::state
  resume,         \* resume_state
  lastCandidate,  \* last_candidate
  streak,         \* candidate_streak
  clearStreak,    \* clear_streak
  cooldown,       \* ticks since cooldown started, saturated; NoCooldown if none
  lastAnomalous,  \* last_anomalous_state, or "None"
  signals,        \* DetectionReport::signals
  recent,         \* history: the latest candidates since an integrity failure
  against,        \* history: evaluations since one supported the anomaly
  quiet,          \* history: ticks of continuously clear, trustworthy evidence
  parity          \* history: of the evaluations, so that every one is a change

engineVars  == <<lastCandidate, streak, clearStreak, cooldown, lastAnomalous, signals>>
historyVars == <<recent, against, quiet, parity>>
vars == <<state, resume, engineVars, historyVars>>

\* The states, is_anomalous, and which state may follow which.
L == INSTANCE DetectionLifecycle
Anomalous == L!Anomalous
Effective == L!Effective

Candidates == {"None", "Ingress", "Egress", "Bidirectional"}
NoCooldown == CooldownTicks + 1

-----------------------------------------------------------------------------
(* DetectionSignals::derive.                                                *)

\* What the ten-second window, the baseline and the one-second window say of
\* one hook: floor iff the BUM rate reaches an adaptive floor, share iff it is
\* at least 800 milli of the total, elevated over the four BUM classes.
HookEvidence ==
  [ten: {"unready", "below", "floor"}, share: BOOLEAN,
   elevated: {"unknown", "no", "yes"}, one: {"unready", "below", "absolute"}]

\* The fingerprint window: fresh iff ready and young enough, repeated iff it
\* meets the three ingress conditions, returning iff it meets the two of
\* amplification.
WindowEvidence == [fresh: BOOLEAN, repeated: BOOLEAN, returning: BOOLEAN]

HookIsCandidate(h) == (h.ten = "floor" /\ h.elevated = "yes") \/ h.one = "absolute"

Candidate(ingress, egress) ==
  CASE HookIsCandidate(ingress) /\ HookIsCandidate(egress) -> "Bidirectional"
    [] HookIsCandidate(ingress) /\ ~HookIsCandidate(egress) -> "Ingress"
    [] ~HookIsCandidate(ingress) /\ HookIsCandidate(egress) -> "Egress"
    [] OTHER -> "None"

LoopSuspected(candidate, ingress, window) ==
  /\ window.fresh
  /\ candidate \in {"Ingress", "Bidirectional"}
  /\ ingress.ten # "unready" /\ ingress.share
  /\ window.repeated

Relation(candidate, ingress, window) ==
  IF ~LoopSuspected(candidate, ingress, window) THEN "none"
  ELSE IF window.returning THEN "high" ELSE "suspected"

\* evidence_ready: both hooks have ten-second rates and a learned baseline.
EvidenceReady(ingress, egress) ==
  \A h \in {ingress, egress} : h.ten # "unready" /\ h.elevated # "unknown"

Derive(ingress, egress, window) ==
  LET candidate == Candidate(ingress, egress)
  IN [candidate |-> candidate,
      relation  |-> Relation(candidate, ingress, window),
      ready     |-> EvidenceReady(ingress, egress)]

\* Everything the derivation can produce.
Signals == {Derive(i, e, w) : i \in HookEvidence, e \in HookEvidence, w \in WindowEvidence}
WarmingSignals == [candidate |-> "None", relation |-> "none", ready |-> FALSE]

-----------------------------------------------------------------------------
(* The state.                                                               *)

TypeOK ==
  /\ state \in L!States /\ resume \in L!Trustworthy
  /\ lastCandidate \in Candidates
  /\ streak \in 0 .. AssertTicks /\ clearStreak \in 0 .. ClearTicks
  /\ cooldown \in 0 .. NoCooldown
  /\ lastAnomalous \in Anomalous \cup {"None"}
  /\ signals \in [candidate: Candidates, relation: {"none", "suspected", "high"},
                  ready: BOOLEAN]
  /\ recent \in Seq(Candidates) /\ Len(recent) <= AssertTicks
  /\ against \in 0 .. ClearTicks /\ quiet \in 0 .. CooldownTicks /\ parity \in {0, 1}

Init ==
  /\ L!Init
  /\ lastCandidate = "None" /\ streak = 0 /\ clearStreak = 0
  /\ cooldown = NoCooldown /\ lastAnomalous = "None"
  /\ signals = WarmingSignals
  /\ recent = <<>> /\ against = 0 /\ quiet = 0 /\ parity = 0

\* strongest_anomaly.
Desired(s) ==
  CASE s.relation = "high" -> "HighConfidence"
    [] s.relation = "suspected" -> "Suspected"
    [] OTHER -> s.candidate

Rank(s) ==
  CASE s = "Egress" -> 1
    [] s = "Ingress" -> 2
    [] s = "Bidirectional" -> 3
    [] s = "Suspected" -> 4
    [] s = "HighConfidence" -> 5
    [] OTHER -> 0

SupportsRelationship(s) == s \in {"Ingress", "Bidirectional"} \cup L!Loops

AtMost(n, bound) == IF n > bound THEN bound ELSE n

\* cooldown_started_at seen ticks later; elapsed times are saturated.
Later(ticks) == IF cooldown = NoCooldown THEN NoCooldown ELSE AtMost(cooldown + ticks, CooldownTicks)

\* Mutant: another candidate continues the streak.
NextStreakAny(candidate) == IF candidate = "None" THEN 0 ELSE AtMost(streak + 1, AssertTicks)

\* update_candidate_streak.
NextStreak(candidate) ==
  CASE candidate = "None" -> 0
    [] candidate # "None" /\ candidate = lastCandidate -> AtMost(streak + 1, AssertTicks)
    [] OTHER -> 1

\* Mutant: one tick too many.
AssertedLate(candidate) == NextStreak(candidate) > AssertTicks

Asserted(candidate) == NextStreak(candidate) >= AssertTicks

-----------------------------------------------------------------------------
(* evaluate.                                                                *)

\* The published state becomes next; cs and cd are the clear streak and the
\* cooldown it leaves.
Settle(next, cs, cd) ==
  /\ state' = next /\ resume' = next
  /\ lastAnomalous' = IF next \in Anomalous THEN next ELSE lastAnomalous
  /\ clearStreak' = cs /\ cooldown' = cd

\* Mutant: the clear streak survives support.
SustainKeepsStreak(s, ticks) ==
  /\ Effective \in Anomalous /\ Desired(s) = Effective
  /\ Settle(Effective, clearStreak, Later(ticks))

\* An anomaly the evidence still supports.
Sustain(s, ticks) ==
  /\ Effective \in Anomalous /\ Desired(s) = Effective
  /\ Settle(Effective, 0, Later(ticks))

\* A relationship upgrades a storm at once, a stronger storm after its streak.
Stronger(s) ==
  /\ Desired(s) # "None" /\ Rank(Desired(s)) > Rank(Effective)
  /\ \/ Desired(s) \in L!Loops /\ SupportsRelationship(Effective)
     \/ Asserted(s.candidate)

Upgrade(s, ticks) ==
  /\ Effective \in Anomalous /\ Stronger(s)
  /\ Settle(Desired(s), 0, Later(ticks))

\* The evidence does not support the anomaly: it is kept until the streak is
\* full, then replaced by what the evidence supports now, or cooled down.
Unsupported(s) == Effective \in Anomalous /\ Desired(s) # Effective /\ ~Stronger(s)

Weaken(s, ticks) ==
  /\ Unsupported(s) /\ clearStreak + 1 < ClearTicks
  /\ Settle(Effective, clearStreak + 1, Later(ticks))

Demote(s, ticks) ==
  /\ Unsupported(s) /\ clearStreak + 1 >= ClearTicks
  /\ Desired(s) # "None"
  /\ Settle(Desired(s), 0, Later(ticks))

\* Mutant: a clear anomaly turns normal at once.
CoolDownToNormal(s) ==
  /\ Unsupported(s) /\ clearStreak + 1 >= ClearTicks
  /\ Desired(s) = "None"
  /\ Settle("Normal", 0, NoCooldown)

CoolDown(s) ==
  /\ Unsupported(s) /\ clearStreak + 1 >= ClearTicks
  /\ Desired(s) = "None"
  /\ Settle("Cooldown", ClearTicks, 0)

\* Cooldown ends in an anomaly that was asserted, or in normal once its time is
\* over and no anomaly is desired.
Reassert(s) ==
  /\ Effective = "Cooldown" /\ Desired(s) # "None" /\ Asserted(s.candidate)
  /\ Settle(Desired(s), 0, NoCooldown)

CompleteCooldown(s, ticks) ==
  /\ Effective = "Cooldown" /\ Desired(s) = "None" /\ Later(ticks) >= CooldownTicks
  /\ Settle("Normal", 0, NoCooldown)

\* Mutant: every evaluation restarts the cooldown.
StayCoolRestarting(s, ticks) ==
  /\ Effective = "Cooldown"
  /\ IF Desired(s) = "None" THEN Later(ticks) < CooldownTicks ELSE ~Asserted(s.candidate)
  /\ Settle("Cooldown", clearStreak, 0)

StayCool(s, ticks) ==
  /\ Effective = "Cooldown"
  /\ IF Desired(s) = "None" THEN Later(ticks) < CooldownTicks ELSE ~Asserted(s.candidate)
  /\ Settle("Cooldown", clearStreak, Later(ticks))

Assert(s, ticks) ==
  /\ Effective \in {"WarmingUp", "Normal"} /\ Desired(s) # "None" /\ Asserted(s.candidate)
  /\ Settle(Desired(s), 0, Later(ticks))

BecomeReady(s, ticks) ==
  /\ Effective = "WarmingUp" /\ s.candidate = "None" /\ s.ready
  /\ Settle("Normal", clearStreak, Later(ticks))

Idle(s, ticks) ==
  /\ Effective \in {"WarmingUp", "Normal"}
  /\ Desired(s) = "None" \/ ~Asserted(s.candidate)
  /\ Effective = "WarmingUp" => s.candidate # "None" \/ ~s.ready
  /\ Settle(Effective, clearStreak, Later(ticks))

\* History of the evaluations.
Witness(s, ticks) ==
  /\ recent' = IF Len(recent) < AssertTicks THEN Append(recent, s.candidate)
               ELSE Append(Tail(recent), s.candidate)
  /\ against' = IF Desired(s) \in {Effective, state'} THEN 0
                ELSE AtMost(against + 1, ClearTicks)
  /\ quiet' = IF s.candidate # "None" THEN 0
              ELSE IF signals.candidate # "None" \/ state = "Unavailable" THEN 0
              ELSE AtMost(quiet + ticks, CooldownTicks)
  /\ parity' = 1 - parity

Evaluate(s, ticks) ==
  /\ \/ Sustain(s, ticks) \/ Upgrade(s, ticks)
     \/ Weaken(s, ticks) \/ Demote(s, ticks) \/ CoolDown(s)
     \/ Reassert(s) \/ CompleteCooldown(s, ticks) \/ StayCool(s, ticks)
     \/ Assert(s, ticks) \/ BecomeReady(s, ticks) \/ Idle(s, ticks)
  /\ lastCandidate' = s.candidate /\ streak' = NextStreak(s.candidate)
  /\ signals' = s
  /\ Witness(s, ticks)

-----------------------------------------------------------------------------
(* unavailable, pause and clear.                                            *)

\* unavailable and pause: a transient failure keeps every streak.
MarkUnavailable(ticks) ==
  /\ state' = "Unavailable" /\ resume' = Effective
  /\ cooldown' = Later(ticks)
  /\ quiet' = 0
  /\ UNCHANGED <<lastCandidate, streak, clearStreak, lastAnomalous, signals, recent, against, parity>>

\* Mutant: the start of the cooldown survives an integrity failure.
ClearKeepsCooldown ==
  /\ state' = "Unavailable" /\ resume' = "WarmingUp"
  /\ lastCandidate' = "None" /\ streak' = 0 /\ clearStreak' = 0
  /\ lastAnomalous' = "None"
  /\ signals' = WarmingSignals
  /\ recent' = <<>> /\ against' = 0 /\ quiet' = 0
  /\ UNCHANGED <<cooldown, parity>>

\* clear: an identity, counter or clock failure, or an evaluation that returned
\* an error, forgets the streaks and the anomaly.
Clear ==
  /\ state' = "Unavailable" /\ resume' = "WarmingUp"
  /\ lastCandidate' = "None" /\ streak' = 0 /\ clearStreak' = 0
  /\ cooldown' = NoCooldown /\ lastAnomalous' = "None"
  /\ signals' = WarmingSignals
  /\ recent' = <<>> /\ against' = 0 /\ quiet' = 0
  /\ UNCHANGED parity

Tick == \E s \in Signals, ticks \in Gaps : Evaluate(s, ticks)

Next == Tick \/ (\E ticks \in Gaps : MarkUnavailable(ticks)) \/ Clear

Spec == Init /\ [][Next]_vars

\* The sampler ticks once a second for as long as the session lives.
FairSpec == Spec /\ WF_vars(Tick)

-----------------------------------------------------------------------------
(* Properties.                                                              *)

\* A cooldown, suspended or not, always knows when it started and which anomaly
\* it retains, so cooldown_elapsed and the report validation at the end of
\* evaluate and publish_unavailable never fail; no other state keeps a start.
CooldownIsAnchored ==
  /\ Effective = "Cooldown" <=> cooldown # NoCooldown
  /\ Effective = "Cooldown" => lastAnomalous # "None"

\* An anomaly is published out of a state that is none only when the same
\* candidate was seen by the last AssertTicks trustworthy evaluations, with no
\* integrity failure between them, however many of them an unavailable interval
\* separates (detection.rs evaluate, update_candidate_streak).
AssertionIsEarned ==
  [][Effective \notin Anomalous /\ state' \in Anomalous =>
       /\ signals'.candidate # "None"
       /\ recent' = [i \in 1 .. AssertTicks |-> signals'.candidate]]_vars

\* An anomaly cools down only after ClearTicks trustworthy evaluations in a row,
\* none of which supported it (detection.rs evaluate, clear_streak).
ClearingIsEarned ==
  [][state' = "Cooldown" /\ Effective \in Anomalous => against' = ClearTicks]_vars

\* The published state follows the documented lifecycle: an anomaly never turns
\* normal without a cooldown, and an unavailable interval resumes where it began
\* (detection.rs evaluate, publish_unavailable, clear).
ImplementsLifecycle == L!Spec

\* When the evidence stays trustworthy, complete and clear, the state settles on
\* normal, whatever anomaly, cooldown or warm-up came before.
QuietRecovers ==
  <>[](state # "Unavailable" /\ signals.candidate = "None" /\ signals.ready)
    => <>[](state = "Normal")

\* When the same candidate stays, an anomaly is published and kept, whatever the
\* hysteresis remembered when it began.
StormIsReported ==
  \A c \in Candidates \ {"None"} :
    <>[](state # "Unavailable" /\ signals.candidate = c) => <>[](state \in Anomalous)

\* Detection design: "Thirty seconds of continuously clear trustworthy evidence
\* completes cooldown and returns to `normal`."
CooldownIsQuiet ==
  [][Effective = "Cooldown" /\ state' = "Normal" => quiet' >= CooldownTicks]_vars

=============================================================================

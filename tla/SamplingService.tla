--------------------------- MODULE SamplingService ---------------------------
(***************************************************************************)
(* The analysis pipeline of one observation session (agent observation.rs):*)
(* every background tick reads the maps, records a rate sample, judges the *)
(* ready ten-second window against the baseline, consumes a fingerprint    *)
(* scan when one is due and calls the detection engine.  It composes       *)
(* RateBaseline, the fingerprint window (core fingerprint_window.rs) and   *)
(* DetectionEngine with the control flow that feeds them, in one time unit.*)
(*                                                                         *)
(* All traffic is broadcast at ingress; egress is silent.  What a scan     *)
(* holds is its outcome: unreadable, invalid, or a window that shows       *)
(* nothing, repetition, or repetition with return (DataPlane models the    *)
(* content).  The wall clock may be set back behind every time that is     *)
(* remembered; the monotonic clock may not.                                *)
(***************************************************************************)
EXTENDS RateBaseline

CONSTANTS
  AssertTicks, ClearTicks, CooldownTicks,  \* of DetectionEngine
  Gaps,            \* time between two ticks
  Loads,           \* packets counted between two samples
  AdaptiveFloor,   \* DETECTION_ADAPTIVE_BUM_PPS
  AbsoluteFloor,   \* DETECTION_ABSOLUTE_BUM_PPS
  AnalysisPeriod,  \* ANALYSIS_PERIOD_NS
  ScanWindow,      \* DETECTION_FINGERPRINT_WINDOW_MS
  ScanFreshness,   \* DETECTION_FINGERPRINT_FRESHNESS_MS
  MaxIdle,         \* bound: the longest time without a sample
  Scans,           \* what a readable, valid scan may show
  Faults           \* the faults a behaviour may contain

ASSUME SamplingAssumption ==
  /\ Gaps \subseteq Nat \ {0} /\ Loads \subseteq Nat
  /\ {AnalysisPeriod, ScanWindow} \subseteq Nat \ {0} /\ ScanFreshness >= ScanWindow
  /\ MaxIdle \in Nat
  /\ Scans \subseteq {"plain", "repeated", "returning"}
  /\ Faults \subseteq {"integrity", "transient", "torn", "scan", "step", "pause"}

VARIABLES
  state, resume, lastCandidate, streak, clearStreak, cooldown, lastAnomalous,
  signals, recent, against, quiet, parity,  \* of DetectionEngine
  samples,    \* RateHistory: the retained samples
  idle,       \* time since the latest sample, or since the history was cleared
  error,      \* last_error_code is set
  paused,     \* sampling_paused
  series,     \* BaselineEngine: the accepted rates
  judgement,  \* the state of its cached report
  source,     \* the cached report's source window: "none", "current" or "old"
  prints,     \* FingerprintWindowHistory: the age of its endpoint or None, and
              \* its cached report's state, age and content
  due,        \* time to next_analysis_at_ns
  ahead,      \* remembered wall times the wall clock was set back behind
  last,       \* history: what the last step did, with the load it counted
  scans,      \* history: valid scans since one failed, at most two
  log         \* history: the samples, one more than is retained

detectionVars == <<state, resume, lastCandidate, streak, clearStreak, cooldown,
                   lastAnomalous, signals, recent, against, quiet, parity>>
vars == <<detectionVars, samples, idle, error, paused, series, judgement, source,
          prints, due, ahead, last, scans, log>>

D == INSTANCE DetectionEngine

None == -1

-----------------------------------------------------------------------------
(* Time.                                                                    *)

AtMost(n, bound) == IF n > bound THEN bound ELSE n
Saturated(age, gap) == IF age = None THEN None ELSE AtMost(age + gap, ScanFreshness + 1)

\* advance_analysis_deadline: by as many periods as bring it past now.
NextDue(gap) ==
  IF gap < due THEN due - gap ELSE AnalysisPeriod - ((gap - due) % AnalysisPeriod)

AnalysisDue(gap) == gap >= due

-----------------------------------------------------------------------------
(* The fingerprint window (FingerprintWindowHistory).                       *)

Prints(endpoint, st, age, shows) ==
  [endpoint |-> endpoint, state |-> st, age |-> age, shows |-> shows]

\* FingerprintWindowHistory::new and clear.
NoPrints == Prints(None, "warming", None, "plain")

\* Mutant: a failed scan keeps the endpoint.
ScanFailsKeepingEndpoint(gap) ==
  Prints(Saturated(prints.endpoint, gap), "unavailable", None, "plain")

\* unavailable and fail: the endpoint is forgotten with the report.
ScanFails(gap) == Prints(None, "unavailable", None, "plain")

\* record_scan of a valid scan: without an endpoint, or with one that is too old,
\* a new pair begins; a scan that is too early leaves the endpoint.
RecordScan(gap, shows) ==
  LET apart == prints.endpoint + gap
  IN IF prints.endpoint = None \/ apart > ScanFreshness THEN Prints(0, "warming", None, "plain")
     ELSE IF apart < ScanWindow THEN Prints(apart, "warming", None, "plain")
     ELSE Prints(0, "ready", 0, shows)

\* Time passes without a scan.
NoScan(gap) ==
  Prints(Saturated(prints.endpoint, gap), prints.state, Saturated(prints.age, gap), prints.shows)

-----------------------------------------------------------------------------
(* What the detection engine is told.                                       *)

\* derive_hook for ingress, from the windows and the baseline of this tick.
IngressEvidence(windows, verdict) ==
  [ten      |-> IF windows[2].state # "ready" THEN "unready"
                ELSE IF Rate(windows[2]) >= AdaptiveFloor THEN "floor" ELSE "below",
   share    |-> windows[2].state = "ready" /\ Rate(windows[2]) > 0,
   elevated |-> CASE verdict = "elevated" -> "yes" [] verdict = "within" -> "no"
                  [] OTHER -> "unknown",
   one      |-> IF windows[1].state # "ready" THEN "unready"
                ELSE IF Rate(windows[1]) >= AbsoluteFloor THEN "absolute" ELSE "below"]

\* The silent egress is learned like the ingress, and never a candidate.
EgressEvidence(windows, verdict) ==
  [ten      |-> IF windows[2].state = "ready" THEN "below" ELSE "unready",
   share    |-> FALSE,
   elevated |-> IF verdict \in {"elevated", "within"} THEN "no" ELSE "unknown",
   one      |-> IF windows[1].state = "ready" THEN "below" ELSE "unready"]

\* The fresh part of the cached fingerprint report p.
LoopEvidence(p) ==
  [fresh     |-> p.state = "ready" /\ p.age <= ScanFreshness,
   repeated  |-> p.shows \in {"repeated", "returning"},
   returning |-> p.shows = "returning"]

DeriveSignals(windows, verdict, p) ==
  D!Derive(IngressEvidence(windows, verdict), EgressEvidence(windows, verdict), LoopEvidence(p))

-----------------------------------------------------------------------------
(* Start, and what a failure forgets.                                       *)

Did(what, load) == [did |-> what, load |-> load]

\* SamplingService::start.
Init ==
  /\ D!Init
  /\ samples = NoSamples /\ log = NoSamples /\ idle = 0 /\ error = FALSE /\ paused = FALSE
  /\ series = <<>> /\ judgement = "learning" /\ source = "none"
  /\ prints = NoPrints /\ scans = 0 /\ due = AnalysisPeriod
  /\ ahead = {} /\ last = Did("started", 0)

\* record_identity_failure and record_rate_failure.
ClearHistory ==
  /\ samples' = NoSamples /\ log' = NoSamples /\ idle' = 0 /\ error' = TRUE

\* BaselineEngine::unavailable: the accepted rates stay.
BaselineUnavailable ==
  /\ judgement' = "unavailable" /\ source' = "none" /\ UNCHANGED series

\* BaselineEngine::clear_integrity.
ClearBaseline == series' = <<>> /\ judgement' = "unavailable" /\ source' = "none"

\* clear_detection_integrity.
ClearDetection == prints' = NoPrints /\ scans' = 0 /\ D!Clear

\* Mutant: an integrity failure leaves the baseline.
ClearAllButBaseline ==
  /\ ClearHistory /\ ClearDetection /\ ahead' = {}
  /\ UNCHANGED <<series, judgement, source>>

\* Every integrity failure, of a tick or of a request (clear_request_integrity).
ClearAll == ClearHistory /\ ClearBaseline /\ ClearDetection /\ ahead' = {}

-----------------------------------------------------------------------------
(* sample_tick.                                                             *)

\* The reader reports another identity, the clock or the sample is unusable, or
\* a counter regressed.
TickRefused(gap) ==
  /\ ~paused /\ "integrity" \in Faults
  /\ due' = NextDue(gap)
  /\ ClearAll
  /\ last' = Did("refused", 0)
  /\ UNCHANGED paused

\* The reader fails without doubt about the identity.
TickUnread(gap) ==
  /\ ~paused /\ "transient" \in Faults /\ idle + gap <= MaxIdle
  /\ due' = NextDue(gap)
  /\ idle' = idle + gap /\ error' = TRUE
  /\ BaselineUnavailable /\ D!MarkUnavailable(gap)
  /\ prints' = NoScan(gap)
  /\ last' = Did("unread", 0)
  /\ UNCHANGED <<samples, log, paused, ahead, scans>>

\* record_success.
RecordSample(gap, load) ==
  /\ samples' = Insert(samples, idle + gap, load)
  /\ log' = LET all == Append(Aged(log, idle + gap, load), [ago |-> 0, delta |-> 0])
            IN IF Len(all) > HistoryCapacity + 1 THEN Tail(all) ELSE all
  /\ idle' = 0 /\ error' = FALSE

\* The remembered wall times, which a step of the clock leaves ahead of it: the
\* end of the window the baseline judged last, the endpoint and the report of the
\* fingerprints, and the last trustworthy evaluation.
Remembered ==
  (IF series = <<>> THEN {} ELSE {"baseline"}) \cup
  (IF prints.endpoint = None THEN {} ELSE {"endpoint"}) \cup
  (IF prints.state = "ready" THEN {"report"} ELSE {}) \cup
  (IF recent = <<>> THEN {} ELSE {"trusted"})

TenIsReady(windows) == windows[2].state = "ready"

\* evaluate_ready_window refuses a window that ends before the one judged last.
BaselineFails(windows, past) ==
  /\ TenIsReady(windows) /\ "baseline" \in past
  /\ ClearBaseline /\ ClearDetection
  /\ ahead' = {}

\* evaluate_ready_window; a window that is not ready leaves the cached report.
JudgeWindow(windows, past) ==
  IF TenIsReady(windows)
  THEN \E rate \in {Rate(windows[2])} :
         /\ "baseline" \notin past
         /\ series' = Learned(series, rate)
         /\ judgement' = Judged(series, rate)
         /\ source' = "current"
  ELSE /\ source' = IF source = "none" THEN "none" ELSE "old"
       /\ UNCHANGED <<series, judgement>>

\* record_analysis_fingerprints fails, and this tick's evaluation is skipped.
AnalysisFails(gap, past) ==
  /\ AnalysisDue(gap)
  /\ "scan" \in Faults \/ "endpoint" \in past
  /\ prints' = ScanFails(gap) /\ scans' = 0
  /\ D!MarkUnavailable(gap)
  /\ ahead' = past \ {"endpoint", "report"}

\* The fingerprints at the end of a tick whose scan, if any is due, is valid.
Scanned(gap, shows) == IF AnalysisDue(gap) THEN RecordScan(gap, shows) ELSE NoScan(gap)

\* The remembered times that are still ahead once p is the fingerprint state.
StillAhead(windows, past, p) ==
  past \ ((IF TenIsReady(windows) THEN {"baseline"} ELSE {}) \cup
          (IF p.endpoint \in {None, 0} THEN {"endpoint"} ELSE {}) \cup
          (IF p.age \in {None, 0} THEN {"report"} ELSE {}))

\* derive or evaluate finds a baseline report of an earlier window, or a time
\* ahead of the wall clock.
Contradicts(windows, past, p) ==
  source' = "old" \/ {"report", "trusted"} \cap StillAhead(windows, past, p) # {}

\* derive finds BUM rates above the total rate: packets arrived while the counters
\* of one sample were read.
Tears(windows) == "torn" \in Faults /\ windows[1].state = "ready"

\* evaluate_detection, with p the fingerprint state of the tick.
EvidenceFails(windows, past, p) ==
  /\ Contradicts(windows, past, p) \/ Tears(windows)
  /\ ClearDetection
  /\ ahead' = StillAhead(windows, past, p) \cap {"baseline"}

EvidenceHolds(windows, gap, past, p) ==
  /\ ~Contradicts(windows, past, p)
  /\ \E s \in {DeriveSignals(windows, judgement', p)} : D!Evaluate(s, gap)
  /\ prints' = p
  /\ scans' = IF AnalysisDue(gap) THEN AtMost(scans + 1, 2) ELSE scans
  /\ ahead' = StillAhead(windows, past, p)

\* A tick that reads the maps; past is the set of times ahead of its wall clock.
TickRead(gap, load, past, shows) ==
  \E windows \in {CalculateWindows(Insert(samples, idle + gap, load), FALSE, 0)},
     p \in {Scanned(gap, shows)} :
    /\ ~paused
    /\ due' = NextDue(gap)
    /\ RecordSample(gap, load)
    /\ \/ BaselineFails(windows, past) /\ last' = Did("refused", load)
       \/ /\ JudgeWindow(windows, past)
          /\ \/ AnalysisFails(gap, past) /\ last' = Did("unscanned", load)
             \/ /\ AnalysisDue(gap) => "endpoint" \notin past
                /\ \/ /\ EvidenceFails(windows, past, p)
                      /\ last' = Did(IF source' = "old" THEN "contradicted" ELSE "refused", load)
                   \/ EvidenceHolds(windows, gap, past, p) /\ last' = Did("evaluated", load)
    /\ UNCHANGED paused

\* A tick, the wall clock having been set back before it or not.
TickReads ==
  \E gap \in Gaps, load \in Loads :
    \E past \in {ahead} \cup (IF "step" \in Faults THEN {Remembered} ELSE {}),
       shows \in (IF AnalysisDue(gap) THEN Scans ELSE {"plain"}) :
      TickRead(gap, load, past, shows)

-----------------------------------------------------------------------------
(* Requests, and the end of the session.                                    *)

\* current_snapshot for a request finds another identity or an invalid sample.
\* A request that succeeds, or fails in another way, changes nothing.
RequestRefused ==
  /\ "integrity" \in Faults
  /\ ClearAll
  /\ last' = Did("refused", 0)
  /\ UNCHANGED <<due, paused>>

\* pause, before the daemon detaches.  No tick follows: either clear ends the
\* session, or the detach failed and only requests come.
Pause ==
  /\ ~paused /\ "pause" \in Faults
  /\ paused' = TRUE
  /\ ClearHistory /\ BaselineUnavailable
  /\ prints' = ScanFails(0) /\ scans' = 0
  /\ D!MarkUnavailable(0)
  /\ ahead' = ahead \ {"endpoint", "report"}
  /\ last' = Did("paused", 0)
  /\ UNCHANGED due

Tick == TickReads \/ \E gap \in Gaps : TickRefused(gap) \/ TickUnread(gap)

Next == Tick \/ RequestRefused \/ Pause

Spec == Init /\ [][Next]_vars

-----------------------------------------------------------------------------
(* Properties.                                                              *)

\* The windows computed from the bounded ring are those of an unbounded one: the
\* sample a window starts from is never the one that was evicted (rate.rs insert,
\* calculate_window; the ring holds RATE_HISTORY_CAPACITY samples).
RingLosesNothing ==
  CalculateWindows(samples, paused, idle) = CalculateWindows(log, paused, idle)

\* An evaluation is refused, and detection forgets its streaks, only because a read
\* tore or the wall clock was set back: the cached baseline and fingerprint reports
\* never contradict the windows of the same tick, whatever failed before
\* (observation.rs evaluate_detection, detection.rs validate_source_endpoints).
EvidenceNeverContradicts == last.did # "contradicted"

\* Detection turns to a loop only on two valid scans with no failed one, and no
\* forgotten evidence, between them (fingerprint_window.rs fail, unavailable,
\* clear; observation.rs record_analysis_fingerprints).
LoopNeedsTwoScans ==
  [][state' \in D!L!Loops /\ D!Effective \notin D!L!Loops => scans' = 2]_vars

=============================================================================

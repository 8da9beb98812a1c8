---------------------------- MODULE RateBaseline ----------------------------
(***************************************************************************)
(* The two pure analysis components of an observation session: the bounded *)
(* history of cumulative samples with its three rate windows (core         *)
(* rate.rs), and the learned baseline of one subject with its verdict on   *)
(* the current rate (core baseline.rs).                                    *)
(*                                                                         *)
(* A retained sample is what the latest one says of it: the time that has  *)
(* passed since (ago) and the packets counted since (delta).  Packets      *)
(* stand for packets and bytes, which the code treats alike, and the       *)
(* subject for the sixteen it treats alike.                                *)
(***************************************************************************)
EXTENDS Naturals, Sequences, SequencesExt

CONSTANTS
  Windows,           \* RATE_WINDOW_MS, three lengths in time units
  HistoryCapacity,   \* RATE_HISTORY_CAPACITY
  StaleAfter,        \* RATE_STALE_AFTER_NS
  Second,            \* time units in a second
  BaselineCapacity,  \* BASELINE_CAPACITY
  MinimumSamples,    \* BASELINE_MINIMUM_SAMPLES
  NoiseFloor         \* BASELINE_PACKET_NOISE_FLOOR_PPS

ASSUME AnalysisAssumption ==
  /\ DOMAIN Windows = 1 .. 3 /\ \A w \in 1 .. 3 : Windows[w] \in Nat \ {0}
  /\ {HistoryCapacity, Second, BaselineCapacity, MinimumSamples} \subseteq Nat \ {0}
  /\ MinimumSamples <= BaselineCapacity
  /\ StaleAfter \in Nat /\ NoiseFloor \in Nat

-----------------------------------------------------------------------------
(* RateHistory.                                                             *)

\* RateHistory::new and clear_at: nothing is retained.
NoSamples == <<>>

\* The retained samples, oldest first, once another was captured gap later with
\* packets more on its counters.
Aged(samples, gap, packets) ==
  [i \in DOMAIN samples |-> [ago |-> samples[i].ago + gap, delta |-> samples[i].delta + packets]]

\* Mutant: the ring is one sample too short.
InsertShort(samples, gap, packets) ==
  LET all == Append(Aged(samples, gap, packets), [ago |-> 0, delta |-> 0])
  IN IF Len(all) >= HistoryCapacity THEN Tail(all) ELSE all

\* insert of a sample whose clock and counters did not regress.
Insert(samples, gap, packets) ==
  LET all == Append(Aged(samples, gap, packets), [ago |-> 0, delta |-> 0])
  IN IF Len(all) > HistoryCapacity THEN Tail(all) ELSE all

\* is_stale: idle is the time since the latest sample, or since the history was
\* last cleared.
IsStale(paused, idle) == paused \/ idle > StaleAfter

Warming == [state |-> "warming", elapsed |-> 0, packets |-> 0]
Stale   == [state |-> "stale", elapsed |-> 0, packets |-> 0]

\* calculate_window: from the most recent sample that is old enough.
CalculateWindow(samples, length) ==
  LET old == {i \in DOMAIN samples : samples[i].ago >= length}
      start == samples[CHOOSE i \in old : \A j \in old : j <= i]
  IN IF old = {} THEN Warming
     ELSE [state |-> "ready", elapsed |-> start.ago, packets |-> start.delta]

\* calculate_windows.
CalculateWindows(samples, paused, idle) ==
  LET Window(w) == IF IsStale(paused, idle) THEN Stale ELSE CalculateWindow(samples, Windows[w])
  IN <<Window(1), Window(2), Window(3)>>

\* calculate_rate, rounded down.
Rate(window) == (window.packets * Second) \div window.elapsed

-----------------------------------------------------------------------------
(* BaselineSeries.                                                          *)

\* BaselineSeries::accept.
Accept(series, rate) ==
  Append(IF Len(series) = BaselineCapacity THEN Tail(series) ELSE series, rate)

\* upper_median: the value in the middle of the sorted ones, the upper of two.
UpperMedian(values) ==
  LET middle == Len(values) \div 2
      Count(P(_)) == Cardinality({i \in DOMAIN values : P(values[i])})
  IN CHOOSE v \in Range(values) : /\ Count(LAMBDA x : x < v) <= middle
                                  /\ Count(LAMBDA x : x <= v) > middle

\* abs_diff.
Distance(a, b) == IF a < b THEN b - a ELSE a - b

\* median_absolute_deviation.  TLC evaluates the distances once because of the
\* concatenation.
Deviation(values) ==
  LET median == UpperMedian(values)
  IN UpperMedian(<<>> \o [i \in DOMAIN values |-> Distance(values[i], median)])

\* evaluate_metric.
Threshold(series) ==
  LET median == UpperMedian(series)
      bounds == {median + 6 * Deviation(series), 4 * median, NoiseFloor}
  IN CHOOSE t \in bounds : \A b \in bounds : b <= t

\* BaselineSeries::evaluate.
Verdict(series, rate) ==
  IF Len(series) < MinimumSamples THEN "learning"
  ELSE IF rate > Threshold(series) THEN "elevated" ELSE "within"

\* What evaluate_ready_window leaves of a series and says of a rate: an elevated
\* rate is not learned, and the sample that completes the minimum is judged.
Learned(series, rate) ==
  IF Verdict(series, rate) = "elevated" THEN series ELSE Accept(series, rate)

Judged(series, rate) ==
  IF Verdict(series, rate) = "learning" THEN Verdict(Learned(series, rate), rate)
  ELSE Verdict(series, rate)

=============================================================================

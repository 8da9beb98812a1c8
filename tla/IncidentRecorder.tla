--------------------------- MODULE IncidentRecorder ---------------------------
(***************************************************************************)
(* How detection transitions become incident revisions: the incident part  *)
(* of the sampling service (agent observation.rs) and the incident         *)
(* recorder (agent incident.rs), driven by the operations of the daemon's  *)
(* control (daemon.rs).                                                    *)
(*                                                                         *)
(* The detection engine is the one DetectionLifecycle promises.  A         *)
(* transition's sequence number is its position: the recorder has taken    *)
(* every transition before `unseen`, unless the bounded history of the     *)
(* engine has already evicted one it had not taken.                        *)
(***************************************************************************)
EXTENDS Naturals, Sequences, SequencesExt

CONSTANTS
  MaxRevisions,  \* EVIDENCE_MAX_REVISIONS_PER_EVENT
  Capacity,      \* DETECTION_TRANSITION_CAPACITY
  MaxEvents,     \* bound: event identifiers that can be drawn
  Times          \* wall-clock times, which may go backwards

ASSUME RecorderAssumption ==
  /\ MaxRevisions \in Nat \ {0} /\ Capacity \in Nat \ {0} /\ MaxEvents \in Nat
  /\ Times \subseteq Nat /\ Times # {}

VARIABLES
  state, resume,  \* see DetectionLifecycle
  live,           \* "none": no session, "sampling", or "paused" by a detach
  unseen,         \* retained transitions the recorder has not taken
  gap,            \* TRUE iff an untaken transition was evicted
  snapshot,       \* TRUE iff latest_incident_snapshot is some
  active,         \* IncidentRecorder::active
  issued,         \* event identifiers drawn so far
  log,            \* history: the write jobs of each event, in order
  missed,         \* history: the last transition taken is an anomaly without an incident
  unclosed        \* history: events whose generation ended before they opened

detection == <<state, resume>>
recorder  == <<unseen, gap, active, issued>>
history   == <<log, missed, unclosed>>
vars == <<detection, live, recorder, snapshot, history>>

L == INSTANCE DetectionLifecycle

Events == 1 .. MaxEvents
NoIncident == [event |-> 0, revision |-> 0, opened |-> 0, last |-> "Normal"]
Transitions == [to: L!States, at: Times]
Jobs == [revision: 1 .. MaxRevisions, closing: BOOLEAN]

TypeOK ==
  /\ state \in L!States /\ resume \in L!Trustworthy
  /\ live \in {"none", "sampling", "paused"}
  /\ unseen \in Seq(Transitions) /\ Len(unseen) <= Capacity
  /\ gap \in BOOLEAN /\ snapshot \in BOOLEAN
  /\ active \in [event: 0 .. MaxEvents, revision: 0 .. MaxRevisions, opened: Times \cup {0},
                 last: L!States]
  /\ issued \in 0 .. MaxEvents
  /\ log \in [Events -> Seq(Jobs)]
  /\ missed \in BOOLEAN /\ unclosed \subseteq Events

Init ==
  /\ L!Init
  /\ live = "none" /\ unseen = <<>> /\ gap = FALSE /\ snapshot = FALSE
  /\ active = NoIncident /\ issued = 0
  /\ log = [e \in Events |-> <<>>]
  /\ missed = FALSE /\ unclosed = {}

-----------------------------------------------------------------------------
(* IncidentRecorder.                                                        *)

\* What the recorder has done so far in one pass over the unseen transitions.
Pass(seen) ==
  [active |-> active, issued |-> issued, jobs |-> <<>>, taken |-> 0, stopped |-> FALSE,
   missed |-> missed, snapshot |-> seen]

Job(incident, closing) ==
  [event |-> incident.event, revision |-> incident.revision, closing |-> closing]

Stop(pass) == [pass EXCEPT !.stopped = TRUE]

\* Mutant: an acknowledged transition does not reach the incident.
AcknowledgeUnrecorded(pass, t) ==
  [pass EXCEPT
     !.missed = t.to \in L!Anomalous /\ pass.active = NoIncident,
     !.taken = @ + 1]

\* acknowledge_without_output.
Acknowledge(pass, t) ==
  [pass EXCEPT
     !.active = IF @ = NoIncident THEN @ ELSE [@ EXCEPT !.last = t.to],
     !.missed = t.to \in L!Anomalous /\ pass.active = NoIncident,
     !.taken = @ + 1]

\* Mutant: a transition without an identifier is taken.
OpenTaking(pass, t, ids) ==
  LET incident == [event |-> pass.issued + 1, revision |-> 1, opened |-> t.at, last |-> t.to]
  IN IF ids /\ pass.issued < MaxEvents
       THEN [pass EXCEPT !.active = incident, !.issued = @ + 1, !.taken = @ + 1,
                         !.jobs = Append(@, Job(incident, FALSE)), !.missed = FALSE]
       ELSE [pass EXCEPT !.taken = @ + 1]

\* record, no active incident and an anomaly; the identifier may be unavailable.
Open(pass, t, ids) ==
  LET incident == [event |-> pass.issued + 1, revision |-> 1, opened |-> t.at, last |-> t.to]
  IN IF ids /\ pass.issued < MaxEvents
       THEN [pass EXCEPT !.active = incident, !.issued = @ + 1, !.taken = @ + 1,
                         !.jobs = Append(@, Job(incident, FALSE)), !.missed = FALSE]
       ELSE Stop(pass)

\* Mutant: the closing revision leaves the incident active.
ReviseKeepsActive(pass, t) ==
  LET next == [pass.active EXCEPT !.revision = @ + 1, !.last = t.to]
  IN IF pass.active.revision >= MaxRevisions \/ t.at < pass.active.opened
       THEN Stop(pass)
       ELSE [pass EXCEPT !.active = next,
                         !.jobs = Append(@, Job(next, t.to = "Normal")), !.taken = @ + 1]

\* record, an active incident: the revision limit and the validation of the
\* revision, which must not precede its opening, leave the transition untaken.
Revise(pass, t) ==
  LET next == [pass.active EXCEPT !.revision = @ + 1, !.last = t.to]
      closing == t.to = "Normal"
  IN IF pass.active.revision >= MaxRevisions \/ t.at < pass.active.opened
       THEN Stop(pass)
       ELSE [pass EXCEPT !.active = IF closing THEN NoIncident ELSE next,
                         !.jobs = Append(@, Job(next, closing)), !.taken = @ + 1]

Record(pass, t, ids) ==
  CASE pass.stopped -> pass
    [] ~pass.stopped /\ ~pass.snapshot -> Acknowledge(pass, t)
    [] ~pass.stopped /\ pass.snapshot /\ pass.active = NoIncident ->
         IF t.to \in L!Anomalous THEN Open(pass, t, ids)
                                ELSE [pass EXCEPT !.taken = @ + 1, !.missed = FALSE]
    [] OTHER -> IF t.to = "WarmingUp" THEN Acknowledge(pass, t) ELSE Revise(pass, t)

\* The jobs of one pass are submitted before the control mutex is released.
Emit(jobs) ==
  log' = [e \in Events |->
            log[e] \o [i \in DOMAIN SelectSeq(jobs, LAMBDA j : j.event = e) |->
              LET j == SelectSeq(jobs, LAMBDA k : k.event = e)[i]
              IN [revision |-> j.revision, closing |-> j.closing]]]

-----------------------------------------------------------------------------
(* The engine's bounded history and the passes over it.                     *)

\* record_transition, seen from the recorder: the retained untaken transitions
\* after the engine's step, and whether one of them was evicted.
Retained(at) ==
  LET all == IF state' = state THEN unseen ELSE Append(unseen, [to |-> state', at |-> at])
  IN IF Len(all) > Capacity THEN Tail(all) ELSE all

Evicted == state' # state /\ Len(unseen) = Capacity

\* capture_incident_transitions, with the snapshot the tick left.  A gap in the
\* sequence stops the pass at its first transition, unless there is no snapshot:
\* then the error of the acknowledgement is ignored.
Capture(at, ids) ==
  LET seq  == Retained(at)
      pass == IF gap \/ Evicted
                THEN Stop(Pass(snapshot'))
                ELSE FoldLeft(LAMBDA p, t : Record(p, t, ids), Pass(snapshot'), seq)
  IN /\ unseen' = SubSeq(seq, pass.taken + 1, Len(seq))
     /\ gap' = (gap \/ Evicted)
     /\ active' = pass.active /\ issued' = pass.issued
     /\ Emit(pass.jobs) /\ missed' = pass.missed

\* acknowledge_request_transitions: a gap stops it at once.
AcknowledgeAll(at) ==
  LET seq  == Retained(at)
      pass == FoldLeft(Acknowledge, Pass(snapshot), seq)
  IN /\ gap' = (gap \/ Evicted)
     /\ IF gap'
          THEN unseen' = seq /\ UNCHANGED <<active, missed>>
          ELSE unseen' = <<>> /\ active' = pass.active /\ missed' = pass.missed
     /\ UNCHANGED <<issued, log>>

-----------------------------------------------------------------------------
(* The operations of the control.                                           *)

\* attach: start and start_incident_generation.
Attach ==
  /\ live = "none"
  /\ live' = "sampling"
  /\ state' = "WarmingUp" /\ resume' = "WarmingUp"
  /\ unseen' = <<>> /\ gap' = FALSE /\ active' = NoIncident /\ snapshot' = FALSE
  /\ missed' = FALSE
  /\ UNCHANGED <<issued, log, unclosed>>

\* sample_tick with trustworthy evidence; the snapshot is cached after the
\* evaluation, also when that failed and cleared the engine.
Sample(at, ids) ==
  /\ live = "sampling"
  /\ (\E s \in L!Trustworthy : L!Publish(s)) \/ L!Forget
  /\ snapshot' \in {snapshot, TRUE}
  /\ Capture(at, ids)
  /\ UNCHANGED <<live, unclosed>>

\* sample_tick with a failed read or scan, or one rejected before the read.
SampleFails(at, ids) ==
  /\ live = "sampling"
  /\ L!Suspend \/ L!Forget \/ UNCHANGED detection
  /\ UNCHANGED <<live, snapshot, unclosed>>
  /\ Capture(at, ids)

\* observe and status: the read may find an integrity failure.
Request(at) ==
  /\ live # "none"
  /\ L!Forget \/ UNCHANGED detection
  /\ AcknowledgeAll(at)
  /\ UNCHANGED <<live, snapshot, unclosed>>

\* detach, up to the driver call: the sampler pauses.
Pause(at, ids) ==
  /\ live # "none"
  /\ live' = "paused"
  /\ L!Suspend
  /\ UNCHANGED <<snapshot, unclosed>>
  /\ Capture(at, ids)

\* Mutant: one revision too few for the closing one.
GenerationEndedOffByOne(at) ==
  /\ live = "paused"
  /\ LET next == [active EXCEPT !.revision = @ + 1]
         closes == /\ snapshot /\ active # NoIncident
                   /\ active.revision + 1 < MaxRevisions /\ at >= active.opened
     IN /\ IF closes THEN Emit(<<Job(next, TRUE)>>) ELSE UNCHANGED log
        /\ unclosed' = IF active # NoIncident /\ at < active.opened
                         THEN unclosed \cup {active.event} ELSE unclosed
  /\ live' = "none"
  /\ state' = "WarmingUp" /\ resume' = "WarmingUp"
  /\ unseen' = <<>> /\ gap' = FALSE /\ active' = NoIncident /\ snapshot' = FALSE
  /\ missed' = FALSE
  /\ UNCHANGED issued

\* detach, after the driver call succeeded: generation_ended, then clear.
GenerationEnded(at) ==
  /\ live = "paused"
  /\ LET next == [active EXCEPT !.revision = @ + 1]
         closes == /\ snapshot /\ active # NoIncident
                   /\ active.revision < MaxRevisions /\ at >= active.opened
     IN /\ IF closes THEN Emit(<<Job(next, TRUE)>>) ELSE UNCHANGED log
        /\ unclosed' = IF active # NoIncident /\ at < active.opened
                         THEN unclosed \cup {active.event} ELSE unclosed
  /\ live' = "none"
  /\ state' = "WarmingUp" /\ resume' = "WarmingUp"
  /\ unseen' = <<>> /\ gap' = FALSE /\ active' = NoIncident /\ snapshot' = FALSE
  /\ missed' = FALSE
  /\ UNCHANGED issued

Next ==
  \/ Attach
  \/ \E at \in Times :
       \/ \E ids \in BOOLEAN : Sample(at, ids) \/ SampleFails(at, ids) \/ Pause(at, ids)
       \/ Request(at) \/ GenerationEnded(at)

Spec == Init /\ [][Next]_vars

-----------------------------------------------------------------------------
(* Properties.                                                              *)

\* The revisions of an event count from one without a gap or a repetition, and
\* a closing revision is the last one, across retries, acknowledgements and
\* generations: what EvidenceStore needs to accept every one of them
\* (incident.rs record, generation_ended).
TimelineIsContiguous ==
  \A e \in Events : \A i \in DOMAIN log[e] :
    /\ log[e][i].revision = i
    /\ log[e][i].closing => i = Len(log[e])

\* An event that was opened is closed by the time its generation has ended,
\* unless it has used up its revisions or the wall clock then precedes its
\* opening (incident.rs generation_ended, observation.rs generation_ended).
EndedEventsAreClosed ==
  live = "none" =>
    \A e \in Events :
      log[e] = <<>> \/ Last(log[e]).closing \/ Len(log[e]) = MaxRevisions \/ e \in unclosed

\* Once every transition is taken, an active incident reports the state the
\* engine publishes, which its closing revision repeats (incident.rs last_state).
IncidentFollowsDetection ==
  live # "none" /\ unseen = <<>> /\ active # NoIncident => active.last = state

\* While an anomaly is published there is an active incident, or the transition
\* still waits for a retry, or it was acknowledged without output, by a request
\* or for want of a snapshot (observation.rs capture_incident_transitions).
AnomalyIsRecorded ==
  live # "none" /\ state \in L!Anomalous => active # NoIncident \/ unseen # <<>> \/ missed

=============================================================================

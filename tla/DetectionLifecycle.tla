-------------------------- MODULE DetectionLifecycle --------------------------
(***************************************************************************)
(* The published detection state of one interface generation, as its       *)
(* consumers may rely on it (core detection.rs, DetectionState): which     *)
(* state may follow which, and what an unavailable interval resumes to.    *)
(* DetectionEngine implements this specification; IncidentRecorder is      *)
(* written against it.                                                     *)
(***************************************************************************)

VARIABLES
  state,   \* DetectionReport::state
  resume   \* the state an unavailable interval resumes to

lifecycleVars == <<state, resume>>

Storms == {"Ingress", "Egress", "Bidirectional"}
Loops  == {"Suspected", "HighConfidence"}

\* DetectionState::is_anomalous.
Anomalous == Storms \cup Loops
Trustworthy == {"WarmingUp", "Normal", "Cooldown"} \cup Anomalous
States == Trustworthy \cup {"Unavailable"}

\* The state the next trustworthy evaluation starts from.
Effective == IF state = "Unavailable" THEN resume ELSE state

\* The states that may follow s without an integrity failure: an anomaly ends
\* in cooldown, and only cooldown and warming up lead to normal.
Successors(s) ==
  CASE s = "WarmingUp"  -> {"Normal"} \cup Anomalous
    [] s = "Normal"     -> Anomalous
    [] s = "Cooldown"   -> {"Normal"} \cup Anomalous
    [] s \in Anomalous  -> {"Cooldown"} \cup Anomalous
    [] OTHER            -> {}

Init == state = "WarmingUp" /\ resume = "WarmingUp"

\* A trustworthy evaluation publishes the effective state or a successor.
Publish(s) ==
  /\ s \in Successors(Effective) \cup {Effective}
  /\ state' = s /\ resume' = s

\* No trustworthy evidence: the state is kept for later.
Suspend == state' = "Unavailable" /\ resume' = Effective

\* An integrity failure forgets it.
Forget == state' = "Unavailable" /\ resume' = "WarmingUp"

Next == (\E s \in Trustworthy : Publish(s)) \/ Suspend \/ Forget

Spec == Init /\ [][Next]_lifecycleVars

=============================================================================

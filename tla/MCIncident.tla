----------------------------- MODULE MCIncident ------------------------------
(* TLC instances of the incident recorder.                                  *)
EXTENDS IncidentRecorder
=============================================================================

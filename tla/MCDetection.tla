----------------------------- MODULE MCDetection -----------------------------
(* TLC instances of the detection state machine.                            *)
EXTENDS DetectionEngine
=============================================================================

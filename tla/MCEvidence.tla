----------------------------- MODULE MCEvidence ------------------------------
(* TLC instances of the evidence store and its worker.                      *)
EXTENDS EvidenceStore
=============================================================================

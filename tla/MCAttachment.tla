---------------------------- MODULE MCAttachment ----------------------------
(* Small instances of AttachmentTransaction for TLC.                        *)
EXTENDS AttachmentTransaction, TLC

RunIdSymmetry == Permutations(RunIds)

=============================================================================

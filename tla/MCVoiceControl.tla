---------------------------- MODULE MCVoiceControl ----------------------------
(* Small instances of the voice control for TLC. *)
EXTENDS VoiceControl

CONSTANTS l1, l2, c1, report, notes
=============================================================================

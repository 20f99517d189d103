---------------------------- MODULE MCOldSpeaker ----------------------------
(* Model checking of OldSpeaker.                                           *)
EXTENDS OldSpeaker
=============================================================================

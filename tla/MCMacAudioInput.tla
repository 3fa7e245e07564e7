------------------------- MODULE MCMacAudioInput -------------------------
(* MacAudioInput for TLC. *)
EXTENDS MacAudioInput
=============================================================================

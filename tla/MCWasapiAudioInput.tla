----------------------- MODULE MCWasapiAudioInput -----------------------
(* WasapiAudioInput for TLC. *)
EXTENDS WasapiAudioInput
=============================================================================

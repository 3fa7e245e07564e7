------------------------- MODULE MCWasapiLifetime -------------------------
(* WasapiLifetime for TLC. *)
EXTENDS WasapiLifetime

\* Two endpoints whose names differ in the high byte, one with another name.
MCEndpoints == <<65, 321, 66>>
=============================================================================

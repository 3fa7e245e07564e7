------------------- MODULE MCCircularBufferRefinement -------------------
(* CircularBufferRefinement for TLC. *)
EXTENDS CircularBufferRefinement

CONSTANT MaxSpan   \* the longest span pushed

MCSpans == UNION {[1..n -> Values] : n \in 0..MaxSpan}
=============================================================================

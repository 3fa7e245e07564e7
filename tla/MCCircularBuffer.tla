------------------------ MODULE MCCircularBuffer ------------------------
(* CircularBuffer for TLC: the spans pushed in an instance. *)
EXTENDS CircularBuffer

CONSTANT MaxSpan   \* the longest span pushed

MCSpans == UNION {[1..n -> Values] : n \in 0..MaxSpan}
=============================================================================

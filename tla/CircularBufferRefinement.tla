-------------------- MODULE CircularBufferRefinement --------------------
(***************************************************************************)
(* CircularBuffer implements LossyFifo.  The loops over a span and over a  *)
(* batch take effect when their thread releases mutex_; the history        *)
(* variable committed holds the elements in the ring when it was last free.*)
(***************************************************************************)
EXTENDS CircularBuffer

VARIABLE committed

HInit == Init /\ committed = <<>>
HNext == Next /\ committed' = IF mutex_' = NoThread THEN Contents' ELSE committed
HSpec == HInit /\ [][HNext]_<<vars, committed>>

Fifo == INSTANCE LossyFifo WITH
          queue <- committed, active <- active_, capacity <- sz - 1

\* Every step of the ring is a step of the queue or leaves it alone: the
\* index arithmetic, the eviction inside a push, the batches and the four
\* ways to come back empty-handed amount to a bounded FIFO (lines 124-374).
ImplementsLossyFifo == Fifo!Spec
=============================================================================

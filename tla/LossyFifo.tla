---------------------------- MODULE LossyFifo ----------------------------
(***************************************************************************)
(* What CircularBuffer<T> promises its callers: a queue of at most         *)
(* capacity elements where every call takes effect at once, a push always  *)
(* succeeds and drops the oldest elements when there is no room, a pop     *)
(* takes the oldest ones, and only a call with a timeout comes back        *)
(* without an element while the queue is active.                           *)
(***************************************************************************)
EXTENDS Integers, Sequences

CONSTANTS Values, Spans, Maxes, Capacities

VARIABLES queue, active, capacity,
          event   \* the last completed call and what it returned

vars == <<queue, active, capacity, event>>

TakeCalls == [op : {"pop"}, timed : BOOLEAN, max : {1}]
               \cup [op : {"popBatch"}, timed : BOOLEAN, max : Maxes]
PeekCalls == [op : {"peek"}, timed : {TRUE}, max : {1}]
Calls     == TakeCalls \cup PeekCalls

Init ==
  /\ queue = <<>>
  /\ active = TRUE
  /\ capacity \in Capacities
  /\ event = [op |-> "none"]

\* The newest elements of s, as many as there is room for.
Newest(s) == IF Len(s) <= capacity THEN s
             ELSE SubSeq(s, Len(s) - capacity + 1, Len(s))

Fewer(m, n) == IF m < n THEN m ELSE n

\* After Stop a push is ignored; the elements still queued are out of reach.
Push(s) ==
  /\ queue' = IF active THEN Newest(queue \o s) ELSE queue
  /\ event' = [op |-> "push", elements |-> s]
  /\ UNCHANGED <<active, capacity>>

\* A batch pop may leave its out vector longer than what it took, though
\* never longer than max.
Returns(c, s, padding) ==
  event' = [op |-> c.op, timed |-> c.timed, max |-> c.max,
            out |-> s, padding |-> padding]

Take(c) ==
  LET n == Fewer(c.max, Len(queue))
  IN  /\ active /\ queue # <<>>
      /\ queue' = SubSeq(queue, n + 1, Len(queue))
      /\ \E padding \in 0..(c.max - n) : Returns(c, SubSeq(queue, 1, n), padding)
      /\ UNCHANGED <<active, capacity>>

Look(c) ==
  /\ active /\ queue # <<>>
  /\ Returns(c, <<Head(queue)>>, 0)
  /\ UNCHANGED <<queue, active, capacity>>

EmptyHanded(c) ==
  /\ c.timed \/ ~active
  /\ Returns(c, <<>>, 0)
  /\ UNCHANGED <<queue, active, capacity>>

Stop ==
  /\ active' = FALSE
  /\ event' = [op |-> "stop"]
  /\ UNCHANGED <<queue, capacity>>

PeekNow ==
  /\ event' = [op |-> "peekNow",
               out |-> IF active /\ queue # <<>> THEN <<Head(queue)>> ELSE <<>>]
  /\ UNCHANGED <<queue, active, capacity>>

\* A stopped queue says that it is empty and that it is not full.  That an
\* active one says truly whether it is full is no promise of this module:
\* see IsFullTellsTruth in CircularBuffer.
Ask ==
  /\ \/ event' = [op |-> "isEmpty", answer |-> ~active \/ queue = <<>>]
     \/ event' = [op |-> "isFull",  answer |-> FALSE]
     \/ active /\ event' = [op |-> "isFull", answer |-> TRUE]
     \/ event' = [op |-> "isActive", answer |-> active]
  /\ UNCHANGED <<queue, active, capacity>>

Next ==
  \/ \E v \in Values : Push(<<v>>)
  \/ \E s \in Spans : Push(s)
  \/ \E c \in TakeCalls : Take(c)
  \/ \E c \in PeekCalls : Look(c)
  \/ \E c \in Calls : EmptyHanded(c)
  \/ Stop \/ PeekNow \/ Ask

Spec == Init /\ [][Next]_vars
=============================================================================

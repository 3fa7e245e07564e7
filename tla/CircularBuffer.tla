------------------------- MODULE CircularBuffer -------------------------
(***************************************************************************)
(* The monitor CircularBuffer<T> of src/common/CircularBuffer.h: a ring of *)
(* sz = capacity + 1 slots that several threads push to, pop from and peek *)
(* into under one mutex and one condition variable.  A push into a full    *)
(* ring drops the oldest element; a pop or a timed peek of an empty ring   *)
(* waits, with or without a timeout, until an element comes or stop().     *)
(*                                                                         *)
(* A critical section without a loop is one action, guarded by a free      *)
(* mutex_.  The two loops, over a pushed span and over a batch pop, run    *)
(* one iteration per action while their thread holds mutex_.               *)
(***************************************************************************)
EXTENDS Integers, Sequences

CONSTANTS
  Producers,    \* threads that call push
  Consumers,    \* threads that call pop and peek (may overlap Producers)
  Values,       \* elements of type T
  Spans,        \* sequences of Values handed to push(span)
  Maxes,        \* values of max_elements handed to the batch pops
  Capacities,   \* constructor arguments
  Default,      \* T{}, what resize fills the slots with
  MovedFrom,    \* what std::move leaves in a slot when T's move is no copy
  MoveEmpties,  \* does moving from a T change it?
  NoThread,     \* mutex_ is free
  Spurious,     \* may a sleeper wake although nobody notified it?
  RecordEvents  \* does event follow the calls that complete?

Threads == Producers \cup Consumers
Slots   == Values \cup {Default, MovedFrom}

ASSUME CapacitiesAssumption == Capacities \subseteq Nat
ASSUME MaxesAssumption      == Maxes \subseteq Nat
ASSUME SpansAssumption      == Spans \subseteq Seq(Values)
ASSUME NoThreadAssumption   == NoThread \notin Threads
ASSUME FlagsAssumption      == {MoveEmpties, Spurious, RecordEvents} \subseteq BOOLEAN

\* A call that may block: pop(), pop(delay), the batch pops, peek(delay).
Calls == [op : {"pop"},      timed : BOOLEAN, max : {1}]
           \cup [op : {"popBatch"}, timed : BOOLEAN, max : Maxes]
           \cup [op : {"peek"},     timed : {TRUE},  max : {1}]
NoCall == [op |-> "none", timed |-> FALSE, max |-> 0]

VARIABLES
  active_, mutex_, buffer_, startIndex_, endIndex_,
  sz,         \* buffer_.capacity(), fixed by the constructor
  pc,         \* pc[t]: where thread t is
  call,       \* call[t]: the blocking call thread t is in
  elements,   \* the span being pushed,        | locals of the thread
  stored,     \* how much of it is stored,     | that holds mutex_
  out,        \* and what a batch pop took     |
  event       \* the last completed call and what it returned: no state of
              \* the code, what a caller sees of it

ring   == <<buffer_, startIndex_, endIndex_>>
locals == <<elements, stored, out>>
vars   == <<active_, mutex_, ring, sz, pc, call, locals, event>>

-----------------------------------------------------------------------------
Free      == mutex_ = NoThread
IsDrained == startIndex_ = endIndex_
\* Mutant: the index is not wrapped.
AdvanceUnwrapped(index) == index + 1

Advance(index) == (index + 1) % sz

\* The number of elements in the ring, and the elements, oldest first.
Count == IF endIndex_ >= startIndex_ THEN endIndex_ - startIndex_
                                     ELSE endIndex_ - startIndex_ + sz
SlotOf(k) == IF startIndex_ + k < sz THEN startIndex_ + k
                                     ELSE startIndex_ + k - sz
Contents == [k \in 1..Count |-> buffer_[SlotOf(k - 1)]]

\* Mutant: a full ring keeps its start index.
StoreNoEviction(element) ==
  /\ buffer_' = [buffer_ EXCEPT ![endIndex_] = element]
  /\ endIndex_' = Advance(endIndex_)
  /\ UNCHANGED startIndex_

\* One element into the ring; when it fills the spare slot the oldest goes.
Store(element) ==
  /\ buffer_'     = [buffer_ EXCEPT ![endIndex_] = element]
  /\ endIndex_'   = Advance(endIndex_)
  /\ startIndex_' = IF Advance(endIndex_) = startIndex_
                    THEN Advance(startIndex_) ELSE startIndex_

\* std::move out of the front slot.
MoveFront == buffer_' = IF MoveEmpties
                        THEN [buffer_ EXCEPT ![startIndex_] = MovedFrom]
                        ELSE buffer_

\* The front element leaves the ring.
TakeFront ==
  /\ MoveFront
  /\ startIndex_' = Advance(startIndex_)
  /\ UNCHANGED endIndex_

\* Mutant: notify_one wakes one sleeper, whichever.
NotifyOne(p) ==
  \/ \E t \in Threads : p[t] = "waiting" /\ pc' = [p EXCEPT ![t] = "woken"]
  \/ (\A t \in Threads : p[t] # "waiting") /\ pc' = p

\* cv_.notify_all(), the other threads being where p says.
NotifyAll(p) ==
  pc' = [t \in Threads |-> IF p[t] = "waiting" THEN "woken" ELSE p[t]]

Completes(e) == event' = IF RecordEvents THEN e ELSE event

-----------------------------------------------------------------------------
Init ==
  /\ active_ = TRUE
  /\ mutex_ = NoThread
  /\ sz \in {c + 1 : c \in Capacities}
  /\ buffer_ = [k \in 0..(sz - 1) |-> Default]
  /\ startIndex_ = 0 /\ endIndex_ = 0
  /\ pc = [t \in Threads |-> "idle"]
  /\ call = [t \in Threads |-> NoCall]
  /\ elements = <<>> /\ stored = 0 /\ out = <<>>
  /\ event = [op |-> "none"]

\* Entering a critical section from outside the class.
Lock(t) == pc[t] = "idle" /\ Free

-----------------------------------------------------------------------------
(* push *)

Push(t, element) ==
  /\ Lock(t) /\ active_
  /\ Store(element)
  /\ NotifyAll(pc)
  /\ Completes([op |-> "push", elements |-> <<element>>])
  /\ UNCHANGED <<active_, mutex_, sz, call, locals>>

\* Either push after stop() returns at once.
PushStopped(t, span) ==
  /\ Lock(t) /\ ~active_
  /\ Completes([op |-> "push", elements |-> span])
  /\ UNCHANGED <<active_, mutex_, ring, sz, pc, call, locals>>

PushSpan(t, span) ==
  /\ Lock(t) /\ active_
  /\ mutex_' = t
  /\ pc' = [pc EXCEPT ![t] = "pushing"]
  /\ elements' = span /\ stored' = 0
  /\ UNCHANGED <<active_, ring, sz, call, out, event>>

PushSpanStep(t) ==
  /\ pc[t] = "pushing"
  /\ stored < Len(elements)
  /\ Store(elements[stored + 1])
  /\ stored' = stored + 1
  /\ UNCHANGED <<active_, mutex_, sz, pc, call, elements, out, event>>

PushSpanReturn(t) ==
  /\ pc[t] = "pushing"
  /\ stored = Len(elements)
  /\ NotifyAll([pc EXCEPT ![t] = "idle"])
  /\ mutex_' = NoThread
  /\ Completes([op |-> "push", elements |-> elements])
  /\ elements' = <<>> /\ stored' = 0
  /\ UNCHANGED <<active_, ring, sz, call, out>>

-----------------------------------------------------------------------------
(* The blocking calls.  pop() and pop(delay) take one element, the batch    *)
(* pops take up to max and peek(delay) takes none; what they do before that *)
(* is the same: they look at active_, then at the ring, when they enter and *)
(* again each time they wake.                                               *)

\* Thread t leaves call c with the elements o; a batch pop has sized its
\* out vector to o plus padding default elements.
Return(t, c, o, padding) ==
  /\ pc' = [pc EXCEPT ![t] = "idle"]
  /\ call' = [call EXCEPT ![t] = NoCall]
  /\ Completes([op |-> c.op, timed |-> c.timed, max |-> c.max,
               out |-> o, padding |-> padding])

\* cv_.wait or cv_.wait_for: releases mutex_ and sleeps.
Block(t, c) ==
  /\ pc' = [pc EXCEPT ![t] = "waiting"]
  /\ call' = [call EXCEPT ![t] = c]
  /\ UNCHANGED <<ring, mutex_, event>>

ReturnStopped(t, c) ==
  /\ ~active_
  /\ Return(t, c, <<>>, 0)
  /\ UNCHANGED <<ring, mutex_>>

WaitForElement(t, c) == active_ /\ IsDrained /\ Block(t, c)

TakeOne(t, c) ==
  /\ active_ /\ ~IsDrained
  /\ c.op = "pop"
  /\ TakeFront
  /\ Return(t, c, <<buffer_[startIndex_]>>, 0)
  /\ UNCHANGED mutex_

PeekFront(t, c) ==
  /\ active_ /\ ~IsDrained
  /\ c.op = "peek"
  /\ MoveFront
  /\ Return(t, c, <<buffer_[startIndex_]>>, 0)
  /\ UNCHANGED <<startIndex_, endIndex_, mutex_>>

TakeBatch(t, c) ==
  /\ active_ /\ ~IsDrained
  /\ c.op = "popBatch"
  /\ mutex_' = t
  /\ pc' = [pc EXCEPT ![t] = "popping"]
  /\ call' = [call EXCEPT ![t] = c]
  /\ UNCHANGED <<ring, event>>

Attempt(t, c) ==
  /\ \/ ReturnStopped(t, c)
     \/ WaitForElement(t, c)
     \/ TakeOne(t, c)
     \/ PeekFront(t, c)
     \/ TakeBatch(t, c)
  /\ UNCHANGED <<active_, sz, locals>>

Enter(t, c) == Lock(t) /\ Attempt(t, c)

\* Back from the wait, mutex_ taken again, with no timeout reported.
Resume(t) == pc[t] = "woken" /\ Free /\ Attempt(t, call[t])

\* wait_for reported timeout: no second look at the ring or at active_.
ReturnExpired(t) ==
  /\ pc[t] = "expired" /\ Free
  /\ Return(t, call[t], <<>>, 0)
  /\ UNCHANGED <<active_, mutex_, ring, sz, locals>>

\* out_buffer has room for min(sz, max) elements, taken or not.
OutSize(c) == IF sz < c.max THEN sz ELSE c.max

\* Mutant: the loop does not break when the ring runs empty.
TakeBatchStepUnbroken(t) ==
  /\ pc[t] = "popping"
  /\ Len(out) < call[t].max
  /\ out' = Append(out, buffer_[startIndex_])
  /\ TakeFront
  /\ UNCHANGED <<active_, mutex_, sz, pc, call, elements, stored, event>>

TakeBatchStep(t) ==
  /\ pc[t] = "popping"
  /\ Len(out) < call[t].max /\ ~IsDrained
  /\ out' = Append(out, buffer_[startIndex_])
  /\ TakeFront
  /\ UNCHANGED <<active_, mutex_, sz, pc, call, elements, stored, event>>

TakeBatchReturn(t) ==
  /\ pc[t] = "popping"
  /\ Len(out) = call[t].max \/ IsDrained
  /\ Return(t, call[t], out, OutSize(call[t]) - Len(out))
  /\ mutex_' = NoThread
  /\ out' = <<>>
  /\ UNCHANGED <<active_, ring, sz, elements, stored>>

\* The condition variable may wake a thread that nobody notified.
SpuriousWake(t) ==
  /\ Spurious
  /\ pc[t] = "waiting"
  /\ pc' = [pc EXCEPT ![t] = "woken"]
  /\ UNCHANGED <<active_, mutex_, ring, sz, call, locals, event>>

\* The deadline passes while t sleeps, or after it was notified and before
\* it has mutex_ again: wait_for compares the clock last.
Expire(t, from) ==
  /\ pc[t] = from /\ call[t].timed
  /\ pc' = [pc EXCEPT ![t] = "expired"]
  /\ UNCHANGED <<active_, mutex_, ring, sz, call, locals, event>>

-----------------------------------------------------------------------------
(* stop and the calls that only look *)

\* Mutant: stop() sets active_ without taking mutex_.
StopUnlocked(t) ==
  /\ pc[t] = "idle"
  /\ active_' = FALSE
  /\ NotifyAll(pc)
  /\ Completes([op |-> "stop"])
  /\ UNCHANGED <<mutex_, ring, sz, call, locals>>

\* Mutant: stop() wakes nobody.
StopSilent(t) ==
  /\ Lock(t)
  /\ active_' = FALSE
  /\ Completes([op |-> "stop"])
  /\ UNCHANGED <<mutex_, ring, sz, pc, call, locals>>

Stop(t) ==
  /\ Lock(t)
  /\ active_' = FALSE
  /\ NotifyAll(pc)
  /\ Completes([op |-> "stop"])
  /\ UNCHANGED <<mutex_, ring, sz, call, locals>>

\* peek() without a delay copies the front element.
Peek(t) ==
  /\ Lock(t)
  /\ Completes([op |-> "peekNow",
               out |-> IF active_ /\ ~IsDrained
                       THEN <<buffer_[startIndex_]>> ELSE <<>>])
  /\ UNCHANGED <<active_, mutex_, ring, sz, pc, call, locals>>

IsEmpty(t) ==
  /\ Lock(t)
  /\ Completes([op |-> "isEmpty", answer |-> ~active_ \/ IsDrained])
  /\ UNCHANGED <<active_, mutex_, ring, sz, pc, call, locals>>

\* As written: the end index is looked for after the start index.
LooksFull == active_ /\ endIndex_ = Advance(startIndex_)

IsFull(t) ==
  /\ Lock(t)
  /\ Completes([op |-> "isFull", answer |-> LooksFull])
  /\ UNCHANGED <<active_, mutex_, ring, sz, pc, call, locals>>

\* isActive takes no lock: it may run while another thread holds mutex_.
IsActive(t) ==
  /\ pc[t] = "idle"
  /\ Completes([op |-> "isActive", answer |-> active_])
  /\ UNCHANGED <<active_, mutex_, ring, sz, pc, call, locals>>

-----------------------------------------------------------------------------
Produce(t) ==
  \/ \E v \in Values : Push(t, v) \/ PushStopped(t, <<v>>)
  \/ \E s \in Spans : PushSpan(t, s) \/ PushStopped(t, s)
  \/ PushSpanStep(t)
  \/ PushSpanReturn(t)

Consume(t) ==
  \/ \E c \in Calls : Enter(t, c)
  \/ Resume(t)
  \/ ReturnExpired(t)
  \/ TakeBatchStep(t)
  \/ TakeBatchReturn(t)
  \/ SpuriousWake(t)
  \/ \E from \in {"waiting", "woken"} : Expire(t, from)

Observe(t) ==
  Stop(t) \/ Peek(t) \/ IsEmpty(t) \/ IsFull(t) \/ IsActive(t)

Next == \/ \E t \in Producers : Produce(t)
        \/ \E t \in Consumers : Consume(t)
        \/ \E t \in Threads : Observe(t)

Spec == Init /\ [][Next]_vars

(***************************************************************************)
(* A thread inside a critical section leaves it; a thread that wants       *)
(* mutex_ back gets it if mutex_ is free time and again (a fair mutex); a  *)
(* sleep that lasts reaches its deadline.  Nothing makes a thread call     *)
(* anything, and nobody wakes without a reason.                            *)
(***************************************************************************)
Fairness ==
  /\ \A t \in Producers : WF_vars(PushSpanStep(t)) /\ WF_vars(PushSpanReturn(t))
  /\ \A t \in Consumers :
       /\ WF_vars(TakeBatchStep(t)) /\ WF_vars(TakeBatchReturn(t))
       /\ SF_vars(Resume(t)) /\ SF_vars(ReturnExpired(t))
       /\ WF_vars(Expire(t, "waiting"))

FairSpec == Spec /\ Fairness

-----------------------------------------------------------------------------
(* Correctness *)

\* Types; in particular both indexes stay inside the vector, so that no
\* buffer_.at() throws.
TypeOK ==
  /\ active_ \in BOOLEAN
  /\ mutex_ \in Threads \cup {NoThread}
  /\ sz \in {c + 1 : c \in Capacities}
  /\ buffer_ \in [0..(sz - 1) -> Slots]
  /\ startIndex_ \in 0..(sz - 1)
  /\ endIndex_ \in 0..(sz - 1)
  /\ pc \in [Threads -> {"idle", "pushing", "popping",
                         "waiting", "woken", "expired"}]
  /\ call \in [Threads -> Calls \cup {NoCall}]
  /\ elements \in Seq(Values) /\ stored \in 0..Len(elements)
  /\ out \in Seq(Slots)

\* While no push is under way, nobody sleeps if there is an element to take
\* or the buffer is stopped: push and stop wake every sleeper, and a call
\* that wakes for nothing looks again before it sleeps (the while loops of
\* lines 200, 223, 251, 284 and 317).
NoLostWakeup ==
  Free /\ (~active_ \/ ~IsDrained) => \A t \in Threads : pc[t] # "waiting"

\* A batch pop never writes past the out vector it sized at line 260 or 328,
\* although its loop is bounded by max_elements alone.
BatchFitsOut ==
  \A t \in Threads : pc[t] = "popping" => Len(out) <= OutSize(call[t])

\* What a consumer is handed was pushed: never a slot that resize filled or
\* that an earlier pop moved out of.
NoPhantomElement ==
  "out" \in DOMAIN event => \A k \in DOMAIN event.out : event.out[k] \in Values

\* Whoever holds mutex_ is inside one of the two loops, and stop() cannot
\* come between its iterations.
HolderInv ==
  /\ \A t \in Threads : mutex_ = t <=> pc[t] \in {"pushing", "popping"}
  /\ ~Free => active_
  /\ (\A t \in Threads : pc[t] # "popping") => out = <<>>

\* NoLostWakeup while a batch pop is under way too.
SleepInv ==
  (\A t \in Threads : pc[t] # "pushing") /\ (~active_ \/ ~IsDrained)
    => \A t \in Threads : pc[t] # "waiting"

\* What a batch pop took and what is left never add up to a full vector.
BatchInv ==
  \A t \in Threads : pc[t] = "popping" =>
    /\ Len(out) <= call[t].max
    /\ Len(out) + Count < sz

\* The inductive invariant behind NoLostWakeup and BatchFitsOut: every loop
\* iteration of the class keeps it (lines 160-167, 262-268, 330-336).
IInv == TypeOK /\ HolderInv /\ SleepInv /\ BatchInv

\* stop() frees every thread that is blocked, with or without a timeout.
StopReleases ==
  \A t \in Threads : ~active_ ~> pc[t] = "idle"

\* A thread blocked in a pop is served as long as elements stay in the
\* ring: they are not left there while it sleeps.
WaiterIsServed ==
  \A t \in Consumers :
    (active_ /\ ~IsDrained /\ pc[t] \in {"waiting", "woken"})
       ~> (IsDrained \/ pc[t] \in {"idle", "expired"})

-----------------------------------------------------------------------------
(* What the repository says of the class and the code does not do *)

\* isFull() says whether the next push would drop an element.
IsFullTellsTruth == LooksFull <=> active_ /\ Count = sz - 1
=============================================================================

---------------------- MODULE CircularBufferProofs ----------------------
(***************************************************************************)
(* Proofs about CircularBuffer, for every set of threads, every element    *)
(* type, every capacity and every span and batch size.                     *)
(***************************************************************************)
EXTENDS CircularBuffer, TLAPS

\* The indexes wrap around inside the vector.
LEMMA AdvanceFacts ==
  ASSUME sz \in Nat \ {0}, NEW index \in 0..(sz - 1)
  PROVE  /\ Advance(index) \in 0..(sz - 1)
         /\ Advance(index) = IF index + 1 = sz THEN 0 ELSE index + 1
<1>1. CASE index + 1 = sz
  BY <1>1 DEF Advance
<1>2. CASE index + 1 < sz
  BY <1>2 DEF Advance
<1> QED BY <1>1, <1>2

LEMMA SizePositive ==
  ASSUME TypeOK PROVE sz \in Nat \ {0}
BY CapacitiesAssumption DEF TypeOK

LEMMA StoreType ==
  ASSUME TypeOK, NEW element \in Slots, Store(element), sz' = sz
  PROVE  /\ buffer_' \in [0..(sz' - 1) -> Slots]
         /\ startIndex_' \in 0..(sz' - 1)
         /\ endIndex_' \in 0..(sz' - 1)
<1>1. sz \in Nat \ {0}
  BY SizePositive
<1>2. /\ Advance(startIndex_) \in 0..(sz - 1)
      /\ Advance(endIndex_) \in 0..(sz - 1)
  BY <1>1, AdvanceFacts DEF TypeOK
<1> QED BY <1>2 DEF Store, TypeOK

LEMMA TakeFrontType ==
  ASSUME TypeOK, TakeFront, sz' = sz
  PROVE  /\ buffer_' \in [0..(sz' - 1) -> Slots]
         /\ startIndex_' \in 0..(sz' - 1)
         /\ endIndex_' \in 0..(sz' - 1)
<1>1. Advance(startIndex_) \in 0..(sz - 1)
  BY SizePositive, AdvanceFacts DEF TypeOK
<1> QED BY <1>1 DEF TakeFront, MoveFront, TypeOK, Slots

\* The five outcomes of a blocking call's look at the ring.
LEMMA AttemptType ==
  ASSUME TypeOK, NEW t \in Threads, NEW c \in Calls \cup {NoCall}, Attempt(t, c), Free
  PROVE  TypeOK'
<1> USE DEF TypeOK, Free, locals, ring, Attempt
<1>1. CASE ReturnStopped(t, c)
  BY <1>1 DEF ReturnStopped, Return
<1>2. CASE WaitForElement(t, c)
  BY <1>2 DEF WaitForElement, Block
<1>3. CASE TakeOne(t, c)
  <2>1. /\ buffer_' \in [0..(sz' - 1) -> Slots]
        /\ startIndex_' \in 0..(sz' - 1)
        /\ endIndex_' \in 0..(sz' - 1)
    BY <1>3, TakeFrontType DEF TakeOne
  <2> QED BY <1>3, <2>1 DEF TakeOne, Return
<1>4. CASE PeekFront(t, c)
  BY <1>4 DEF PeekFront, MoveFront, Return, Slots
<1>5. CASE TakeBatch(t, c)
  BY <1>5 DEF TakeBatch
<1> QED BY <1>1, <1>2, <1>3, <1>4, <1>5

LEMMA TypeInvariant == TypeOK /\ [Next]_vars => TypeOK'
<1> SUFFICES ASSUME TypeOK, [Next]_vars PROVE TypeOK'
  OBVIOUS
<1> USE DEF TypeOK
<1>1. ASSUME NEW t \in Producers, NEW v \in Values, Push(t, v) PROVE TypeOK'
  <2>1. /\ buffer_' \in [0..(sz' - 1) -> Slots]
        /\ startIndex_' \in 0..(sz' - 1)
        /\ endIndex_' \in 0..(sz' - 1)
    BY <1>1, StoreType DEF Push, Slots
  <2> QED BY <1>1, <2>1 DEF Push, NotifyAll, locals
<1>2. ASSUME NEW t \in Producers, NEW s \in Seq(Values), PushStopped(t, s)
      PROVE  TypeOK'
  BY <1>2 DEF PushStopped, locals, ring
<1>3. ASSUME NEW t \in Producers, NEW s \in Spans, PushSpan(t, s) PROVE TypeOK'
  BY <1>3, SpansAssumption DEF PushSpan, Threads, ring
<1>4. ASSUME NEW t \in Producers, PushSpanStep(t) PROVE TypeOK'
  <2>1. elements[stored + 1] \in Slots /\ stored + 1 \in 0..Len(elements)
    BY <1>4 DEF PushSpanStep, Slots
  <2>2. /\ buffer_' \in [0..(sz' - 1) -> Slots]
        /\ startIndex_' \in 0..(sz' - 1)
        /\ endIndex_' \in 0..(sz' - 1)
    BY <1>4, <2>1, StoreType DEF PushSpanStep
  <2> QED BY <1>4, <2>1, <2>2 DEF PushSpanStep
<1>5. ASSUME NEW t \in Producers, PushSpanReturn(t) PROVE TypeOK'
  BY <1>5 DEF PushSpanReturn, NotifyAll, Threads, ring
<1>6. ASSUME NEW t \in Consumers, NEW c \in Calls, Enter(t, c) PROVE TypeOK'
  BY <1>6, AttemptType DEF Enter, Lock, Threads
<1>7. ASSUME NEW t \in Consumers, Resume(t) PROVE TypeOK'
  <2>1. t \in Threads /\ call[t] \in Calls \cup {NoCall}
    BY DEF Threads
  <2> QED BY <1>7, <2>1, AttemptType DEF Resume
<1>8. ASSUME NEW t \in Consumers, ReturnExpired(t) PROVE TypeOK'
  BY <1>8 DEF ReturnExpired, Return, Threads, ring, locals
<1>9. ASSUME NEW t \in Consumers, TakeBatchStep(t) PROVE TypeOK'
  <2>1. /\ buffer_' \in [0..(sz' - 1) -> Slots]
        /\ startIndex_' \in 0..(sz' - 1)
        /\ endIndex_' \in 0..(sz' - 1)
    BY <1>9, TakeFrontType DEF TakeBatchStep
  <2>2. out' \in Seq(Slots)
    BY <1>9 DEF TakeBatchStep
  <2> QED BY <1>9, <2>1, <2>2 DEF TakeBatchStep
<1>10. ASSUME NEW t \in Consumers, TakeBatchReturn(t) PROVE TypeOK'
  BY <1>10 DEF TakeBatchReturn, Return, Threads, ring
<1>11. ASSUME NEW t \in Consumers, SpuriousWake(t) PROVE TypeOK'
  BY <1>11 DEF SpuriousWake, Threads, ring, locals
<1>12. ASSUME NEW t \in Consumers, NEW from \in {"waiting", "woken"}, Expire(t, from)
       PROVE  TypeOK'
  BY <1>12 DEF Expire, Threads, ring, locals
<1>13. ASSUME NEW t \in Threads, Stop(t) PROVE TypeOK'
  BY <1>13 DEF Stop, NotifyAll, ring, locals
<1>14. ASSUME NEW t \in Threads, Peek(t) \/ IsEmpty(t) \/ IsFull(t) \/ IsActive(t)
       PROVE  TypeOK'
  BY <1>14 DEF Peek, IsEmpty, IsFull, IsActive, ring, locals
<1>15. CASE UNCHANGED vars
  BY <1>15 DEF vars, ring, locals
<1>16. \A v \in Values : <<v>> \in Seq(Values)
  OBVIOUS
<1>17. Spans \subseteq Seq(Values)
  BY SpansAssumption
<1> QED
  BY <1>1, <1>2, <1>3, <1>4, <1>5, <1>6, <1>7, <1>8, <1>9, <1>10, <1>11, <1>12,
     <1>13, <1>14, <1>15, <1>16, <1>17
     DEF Next, Produce, Consume, Observe

LEMMA InitType == Init => TypeOK
BY CapacitiesAssumption DEF Init, TypeOK, Slots

\* Every variable keeps its type; startIndex_ and endIndex_ never leave the
\* vector, so that buffer_.at() never throws (lines 136, 161, 186, 210, 231,
\* 263, 294 and 331).
THEOREM TypeCorrect == Spec => []TypeOK
BY InitType, TypeInvariant, PTL DEF Spec

-----------------------------------------------------------------------------
(* Mutual exclusion *)

\* A thread at its first step outside the class finds nobody in a loop.
LEMMA FreeFacts ==
  ASSUME HolderInv, Free
  PROVE  /\ \A t \in Threads : pc[t] \notin {"pushing", "popping"}
         /\ out = <<>>
BY NoThreadAssumption DEF HolderInv, Free

\* Two threads are never inside the loops at once.
LEMMA LoopFacts ==
  ASSUME HolderInv, NEW t \in Threads, pc[t] \in {"pushing", "popping"}
  PROVE  /\ mutex_ = t /\ ~Free /\ active_
         /\ \A u \in Threads \ {t} : pc[u] \notin {"pushing", "popping"}
BY NoThreadAssumption DEF HolderInv, Free

LEMMA AttemptHolder ==
  ASSUME TypeOK, HolderInv, NEW t \in Threads, NEW c, Attempt(t, c), Free
  PROVE  HolderInv'
<1>1. /\ \A u \in Threads : pc[u] \notin {"pushing", "popping"}
      /\ out = <<>>
  BY FreeFacts
<1> USE <1>1, NoThreadAssumption DEF TypeOK, HolderInv, Free, Attempt, locals
<1>2. CASE ReturnStopped(t, c)
  BY <1>2 DEF ReturnStopped, Return
<1>3. CASE WaitForElement(t, c)
  BY <1>3 DEF WaitForElement, Block
<1>4. CASE TakeOne(t, c)
  BY <1>4 DEF TakeOne, Return
<1>5. CASE PeekFront(t, c)
  BY <1>5 DEF PeekFront, Return
<1>6. CASE TakeBatch(t, c)
  BY <1>6 DEF TakeBatch
<1> QED BY <1>2, <1>3, <1>4, <1>5, <1>6

LEMMA HolderInvariant == TypeOK /\ HolderInv /\ [Next]_vars => HolderInv'
<1> SUFFICES ASSUME TypeOK, HolderInv, [Next]_vars PROVE HolderInv'
  OBVIOUS
<1> USE NoThreadAssumption DEF TypeOK, HolderInv, Free, Threads
<1>1. ASSUME NEW t \in Producers, NEW v \in Values, Push(t, v) PROVE HolderInv'
  BY <1>1 DEF Push, NotifyAll, locals, Lock
<1>2. ASSUME NEW t \in Producers, NEW s \in Seq(Values), PushStopped(t, s)
      PROVE  HolderInv'
  BY <1>2 DEF PushStopped, locals
<1>3. ASSUME NEW t \in Producers, NEW s \in Spans, PushSpan(t, s) PROVE HolderInv'
  BY <1>3, FreeFacts DEF PushSpan, Lock
<1>4. ASSUME NEW t \in Producers, PushSpanStep(t) PROVE HolderInv'
  BY <1>4 DEF PushSpanStep
<1>5. ASSUME NEW t \in Producers, PushSpanReturn(t) PROVE HolderInv'
  BY <1>5, LoopFacts DEF PushSpanReturn, NotifyAll
<1>6. ASSUME NEW t \in Consumers, NEW c \in Calls, Enter(t, c) PROVE HolderInv'
  BY <1>6, AttemptHolder DEF Enter, Lock
<1>7. ASSUME NEW t \in Consumers, Resume(t) PROVE HolderInv'
  BY <1>7, AttemptHolder DEF Resume
<1>8. ASSUME NEW t \in Consumers, ReturnExpired(t) PROVE HolderInv'
  BY <1>8, FreeFacts DEF ReturnExpired, Return, locals
<1>9. ASSUME NEW t \in Consumers, TakeBatchStep(t) PROVE HolderInv'
  BY <1>9 DEF TakeBatchStep
<1>10. ASSUME NEW t \in Consumers, TakeBatchReturn(t) PROVE HolderInv'
  BY <1>10, LoopFacts DEF TakeBatchReturn, Return
<1>11. ASSUME NEW t \in Consumers, SpuriousWake(t) PROVE HolderInv'
  BY <1>11 DEF SpuriousWake, locals
<1>12. ASSUME NEW t \in Consumers, NEW from \in {"waiting", "woken"}, Expire(t, from)
       PROVE  HolderInv'
  BY <1>12 DEF Expire, locals
<1>13. ASSUME NEW t \in Threads, Stop(t) PROVE HolderInv'
  BY <1>13 DEF Stop, NotifyAll, locals, Lock
<1>14. ASSUME NEW t \in Threads, Peek(t) \/ IsEmpty(t) \/ IsFull(t) \/ IsActive(t)
       PROVE  HolderInv'
  BY <1>14 DEF Peek, IsEmpty, IsFull, IsActive, locals
<1>15. CASE UNCHANGED vars
  BY <1>15 DEF vars, locals
<1>16. \A v \in Values : <<v>> \in Seq(Values)
  OBVIOUS
<1>17. Spans \subseteq Seq(Values)
  BY SpansAssumption
<1> QED
  BY <1>1, <1>2, <1>3, <1>4, <1>5, <1>6, <1>7, <1>8, <1>9, <1>10, <1>11, <1>12,
     <1>13, <1>14, <1>15, <1>16, <1>17
     DEF Next, Produce, Consume, Observe

-----------------------------------------------------------------------------
(* Nobody sleeps beside an element *)

\* A look at the ring puts a thread to sleep only when there is nothing in it.
LEMMA AttemptSleep ==
  ASSUME TypeOK, HolderInv, SleepInv, NEW t \in Threads, NEW c, Attempt(t, c), Free
  PROVE  SleepInv'
<1>1. \A u \in Threads : pc[u] \notin {"pushing", "popping"}
  BY FreeFacts
<1> USE <1>1 DEF TypeOK, SleepInv, Attempt, IsDrained, ring
<1>2. CASE ReturnStopped(t, c)
  BY <1>2 DEF ReturnStopped, Return
<1>3. CASE WaitForElement(t, c)
  BY <1>3 DEF WaitForElement, Block
<1>4. CASE TakeOne(t, c)
  BY <1>4 DEF TakeOne, Return
<1>5. CASE PeekFront(t, c)
  BY <1>5 DEF PeekFront, Return
<1>6. CASE TakeBatch(t, c)
  BY <1>6 DEF TakeBatch
<1> QED BY <1>2, <1>3, <1>4, <1>5, <1>6

LEMMA SleepInvariant ==
  TypeOK /\ HolderInv /\ SleepInv /\ [Next]_vars => SleepInv'
<1> SUFFICES ASSUME TypeOK, HolderInv, SleepInv, [Next]_vars PROVE SleepInv'
  OBVIOUS
<1> USE DEF TypeOK, SleepInv, IsDrained, Threads, ring
<1>1. ASSUME NEW t \in Producers, NEW v \in Values, Push(t, v) PROVE SleepInv'
  BY <1>1 DEF Push, NotifyAll
<1>2. ASSUME NEW t \in Producers, NEW s \in Seq(Values), PushStopped(t, s)
      PROVE  SleepInv'
  BY <1>2 DEF PushStopped
<1>3. ASSUME NEW t \in Producers, NEW s \in Spans, PushSpan(t, s) PROVE SleepInv'
  <2>1. pc'[t] = "pushing"
    BY <1>3 DEF PushSpan
  <2> QED BY <2>1
<1>4. ASSUME NEW t \in Producers, PushSpanStep(t) PROVE SleepInv'
  <2>1. pc'[t] = "pushing"
    BY <1>4 DEF PushSpanStep
  <2> QED BY <2>1
<1>5. ASSUME NEW t \in Producers, PushSpanReturn(t) PROVE SleepInv'
  BY <1>5 DEF PushSpanReturn, NotifyAll
<1>6. ASSUME NEW t \in Consumers, NEW c \in Calls, Enter(t, c) PROVE SleepInv'
  BY <1>6, AttemptSleep DEF Enter, Lock
<1>7. ASSUME NEW t \in Consumers, Resume(t) PROVE SleepInv'
  BY <1>7, AttemptSleep DEF Resume
<1>8. ASSUME NEW t \in Consumers, ReturnExpired(t) PROVE SleepInv'
  BY <1>8 DEF ReturnExpired, Return
<1>9. ASSUME NEW t \in Consumers, TakeBatchStep(t) PROVE SleepInv'
  <2>1. \A u \in Threads : pc[u] # "pushing"
    BY <1>9, LoopFacts DEF TakeBatchStep
  <2> QED BY <1>9, <2>1 DEF TakeBatchStep
<1>10. ASSUME NEW t \in Consumers, TakeBatchReturn(t) PROVE SleepInv'
  <2>1. \A u \in Threads : pc[u] # "pushing"
    BY <1>10, LoopFacts DEF TakeBatchReturn
  <2> QED BY <1>10, <2>1 DEF TakeBatchReturn, Return
<1>11. ASSUME NEW t \in Consumers, SpuriousWake(t) PROVE SleepInv'
  BY <1>11 DEF SpuriousWake
<1>12. ASSUME NEW t \in Consumers, NEW from \in {"waiting", "woken"}, Expire(t, from)
       PROVE  SleepInv'
  BY <1>12 DEF Expire
<1>13. ASSUME NEW t \in Threads, Stop(t) PROVE SleepInv'
  BY <1>13 DEF Stop, NotifyAll
<1>14. ASSUME NEW t \in Threads, Peek(t) \/ IsEmpty(t) \/ IsFull(t) \/ IsActive(t)
       PROVE  SleepInv'
  BY <1>14 DEF Peek, IsEmpty, IsFull, IsActive
<1>15. CASE UNCHANGED vars
  BY <1>15 DEF vars
<1>16. \A v \in Values : <<v>> \in Seq(Values)
  OBVIOUS
<1>17. Spans \subseteq Seq(Values)
  BY SpansAssumption
<1> QED
  BY <1>1, <1>2, <1>3, <1>4, <1>5, <1>6, <1>7, <1>8, <1>9, <1>10, <1>11, <1>12,
     <1>13, <1>14, <1>15, <1>16, <1>17
     DEF Next, Produce, Consume, Observe

-----------------------------------------------------------------------------
(* A batch fits its vector *)

\* Taking the front element leaves one fewer.
LEMMA TakeFrontCount ==
  ASSUME TypeOK, TakeFront, ~IsDrained, sz' = sz
  PROVE  Count' = Count - 1
<1>1. Advance(startIndex_) = IF startIndex_ + 1 = sz THEN 0 ELSE startIndex_ + 1
  BY SizePositive, AdvanceFacts DEF TypeOK
<1> QED BY <1>1, SizePositive DEF TakeFront, Count, IsDrained, TypeOK

LEMMA CountBound ==
  ASSUME TypeOK PROVE Count \in 0..(sz - 1)
BY SizePositive DEF TypeOK, Count

LEMMA CallMax ==
  ASSUME NEW c \in Calls \cup {NoCall} PROVE c.max \in Nat
<1>1. CASE c \in [op : {"popBatch"}, timed : BOOLEAN, max : Maxes]
  BY <1>1, MaxesAssumption
<1>2. CASE c = NoCall
  BY <1>2 DEF NoCall
<1>3. CASE c \in [op : {"pop"}, timed : BOOLEAN, max : {1}]
  BY <1>3
<1>4. CASE c \in [op : {"peek"}, timed : {TRUE}, max : {1}]
  BY <1>4
<1> QED BY <1>1, <1>2, <1>3, <1>4 DEF Calls

LEMMA BatchInvariant ==
  TypeOK /\ HolderInv /\ BatchInv /\ [Next]_vars => BatchInv'
<1> SUFFICES ASSUME TypeOK, HolderInv, BatchInv, [Next]_vars,
                    NEW u \in Threads, pc'[u] = "popping"
             PROVE  /\ Len(out') <= call'[u].max
                    /\ Len(out') + Count' < sz'
  BY DEF BatchInv
<1>1. CASE pc[u] = "popping" /\ UNCHANGED <<ring, sz, out>> /\ call'[u] = call[u]
  BY <1>1 DEF BatchInv, Count, ring
<1>2. CASE pc[u] = "popping" /\ \E t \in Consumers : TakeBatchStep(t)
  <2>1. PICK t \in Consumers : TakeBatchStep(t)
    BY <1>2
  <2>2. t = u
    BY <1>2, <2>1, LoopFacts DEF TakeBatchStep, Threads
  <2>3. Count' = Count - 1 /\ Count \in Nat /\ Len(out) \in Nat /\ sz \in Nat
    BY <2>1, TakeFrontCount, CountBound, SizePositive DEF TakeBatchStep, TypeOK
  <2>4. Len(out') = Len(out) + 1
    BY <2>1 DEF TakeBatchStep, TypeOK
  <2>5. call[u].max \in Nat
    BY CallMax DEF TypeOK
  <2>6. Len(out) < call[u].max /\ Len(out) + Count < sz
    BY <1>2, <2>1, <2>2 DEF BatchInv, TakeBatchStep
  <2>7. call' = call /\ sz' = sz
    BY <2>1 DEF TakeBatchStep
  <2> QED BY <2>3, <2>4, <2>5, <2>6, <2>7
<1>3. CASE /\ Free /\ UNCHANGED <<ring, sz, out>>
           /\ call'[u] \in Calls \cup {NoCall}
  <2>1. out' = <<>> /\ Len(out') = 0
    BY <1>3, FreeFacts
  <2>2. Count' = Count /\ sz' = sz
    BY <1>3 DEF Count, ring
  <2>3. call'[u].max \in Nat
    BY <1>3, CallMax
  <2> QED BY <2>1, <2>2, <2>3, CountBound, SizePositive
<1>4. CASE pc[u] # "popping"
  <2>1. ASSUME NEW t \in Consumers, NEW c \in Calls \cup {NoCall},
               Attempt(t, c), Free
        PROVE  UNCHANGED <<ring, sz, out>> /\ call'[u] \in Calls \cup {NoCall}
    BY <1>4, <2>1 DEF Attempt, ReturnStopped, WaitForElement, TakeOne, PeekFront,
                      TakeBatch, Return, Block, locals, ring, TypeOK, Threads
  <2>2. ASSUME NEW t \in Consumers, NEW c \in Calls, Enter(t, c)
        PROVE  Free /\ UNCHANGED <<ring, sz, out>> /\ call'[u] \in Calls \cup {NoCall}
    BY <2>1, <2>2 DEF Enter, Lock
  <2>3. ASSUME NEW t \in Consumers, Resume(t)
        PROVE  Free /\ UNCHANGED <<ring, sz, out>> /\ call'[u] \in Calls \cup {NoCall}
    BY <2>1, <2>3 DEF Resume, TypeOK, Threads
  <2>4. \/ \E t \in Consumers : Resume(t) \/ \E c \in Calls : Enter(t, c)
        \/ pc'[u] # "popping"
    BY <1>4 DEF Next, Produce, Consume, Observe, vars, TypeOK, Threads, NotifyAll,
                Push, PushStopped, PushSpan, PushSpanStep, PushSpanReturn,
                ReturnExpired, Return, TakeBatchStep, TakeBatchReturn,
                SpuriousWake, Expire, Stop, Peek, IsEmpty, IsFull, IsActive
  <2> QED BY <1>3, <2>2, <2>3, <2>4
<1>5. CASE pc[u] = "popping"
  <2>1. ~Free /\ \A t \in Threads : pc[t] \in {"pushing", "popping"} => t = u
    BY <1>5, LoopFacts
  <2>2. ASSUME NEW t \in Producers, Produce(t)
        PROVE  UNCHANGED <<ring, sz, out>> /\ call'[u] = call[u]
    BY <1>5, <2>1, <2>2 DEF Produce, Push, PushStopped, PushSpan, PushSpanStep,
                            PushSpanReturn, Lock, locals, Threads
  <2>3. ASSUME NEW t \in Consumers, Consume(t), ~TakeBatchStep(t)
        PROVE  UNCHANGED <<ring, sz, out>> /\ call'[u] = call[u]
    <3>1. ASSUME TakeBatchReturn(t) PROVE FALSE
      <4>1. t = u
        BY <2>1, <3>1 DEF TakeBatchReturn, Threads
      <4> QED BY <3>1, <4>1 DEF TakeBatchReturn, Return, TypeOK
    <3>2. ASSUME Resume(t) \/ ReturnExpired(t) \/ \E c \in Calls : Enter(t, c)
          PROVE  FALSE
      BY <2>1, <3>2 DEF Resume, ReturnExpired, Enter, Lock
    <3>3. CASE SpuriousWake(t) \/ \E from \in {"waiting", "woken"} : Expire(t, from)
      BY <3>3 DEF SpuriousWake, Expire, locals
    <3> QED BY <2>3, <3>1, <3>2, <3>3 DEF Consume
  <2>4. ASSUME NEW t \in Threads, Observe(t)
        PROVE  UNCHANGED <<ring, sz, out>> /\ call'[u] = call[u]
    BY <2>1, <2>4 DEF Observe, Stop, Peek, IsEmpty, IsFull, IsActive, Lock, locals
  <2>5. ASSUME UNCHANGED vars
        PROVE  UNCHANGED <<ring, sz, out>> /\ call'[u] = call[u]
    BY <2>5 DEF vars, locals
  <2>6. \/ \E t \in Consumers : TakeBatchStep(t)
        \/ UNCHANGED <<ring, sz, out>> /\ call'[u] = call[u]
    BY <2>2, <2>3, <2>4, <2>5 DEF Next, vars, locals
  <2> QED BY <1>1, <1>2, <1>5, <2>6
<1> QED BY <1>4, <1>5

-----------------------------------------------------------------------------
(* The theorems *)

LEMMA InitIInv == Init => IInv
<1> SUFFICES ASSUME Init PROVE IInv
  OBVIOUS
<1>1. TypeOK
  BY InitType
<1>2. HolderInv
  BY NoThreadAssumption DEF Init, HolderInv, Free
<1>3. SleepInv /\ BatchInv
  BY DEF Init, SleepInv, BatchInv
<1> QED BY <1>1, <1>2, <1>3 DEF IInv

LEMMA InductiveInvariant == IInv /\ [Next]_vars => IInv'
BY TypeInvariant, HolderInvariant, SleepInvariant, BatchInvariant DEF IInv

\* The inductive invariant holds in every reachable state.
THEOREM Inductive == Spec => []IInv
BY InitIInv, InductiveInvariant, PTL DEF Spec

\* However many threads push, pop, peek and stop, none sleeps while there is
\* an element to take or the buffer is stopped (lines 143, 169, 387: notify_all).
THEOREM NoSleeperLeft == Spec => []NoLostWakeup
<1>1. IInv => NoLostWakeup
  BY FreeFacts DEF IInv, SleepInv, NoLostWakeup
<1> QED BY <1>1, Inductive, PTL

\* The loop of a batch pop, bounded by max_elements and by the ring running
\* empty, stays inside the vector that line 260 or 328 sized to min(sz, max).
THEOREM BatchStaysInside == Spec => []BatchFitsOut
<1>1. IInv => BatchFitsOut
  <2> SUFFICES ASSUME IInv, NEW t \in Threads, pc[t] = "popping"
               PROVE  Len(out) <= OutSize(call[t])
    BY DEF BatchFitsOut
  <2>1. Len(out) <= call[t].max /\ Len(out) + Count < sz
    BY DEF IInv, BatchInv
  <2>2. Len(out) \in Nat /\ Count \in Nat /\ sz \in Nat
    BY CountBound, SizePositive DEF IInv, TypeOK
  <2> QED BY <2>1, <2>2 DEF OutSize
<1> QED BY <1>1, Inductive, PTL
=============================================================================

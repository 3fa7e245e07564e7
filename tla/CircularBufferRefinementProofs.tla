----------------- MODULE CircularBufferRefinementProofs -----------------
(***************************************************************************)
(* CircularBuffer implements LossyFifo: the proof, for every set of        *)
(* threads, element type, capacity, span and batch size.  What the ring    *)
(* holds is compared with what the queue holds element by element, so the  *)
(* first part is about sequences and the wrapped slots that Contents reads.*)
(***************************************************************************)
EXTENDS CircularBufferRefinement, CircularBufferProofs

-----------------------------------------------------------------------------
(* Sequences *)

\* Sequences with the same elements are equal.
LEMMA SameElements ==
  ASSUME NEW S, NEW s \in Seq(S), NEW t \in Seq(S), Len(s) = Len(t),
         \A k \in 1..Len(s) : s[k] = t[k]
  PROVE  s = t
OBVIOUS

\* What is left of s when its first d elements are dropped.
LEMMA Dropped ==
  ASSUME NEW S, NEW s \in Seq(S), NEW d \in 0..Len(s)
  PROVE  /\ SubSeq(s, d + 1, Len(s)) \in Seq(S)
         /\ Len(SubSeq(s, d + 1, Len(s))) = Len(s) - d
OBVIOUS

LEMMA Appended ==
  ASSUME NEW S, NEW s \in Seq(S), NEW e \in S
  PROVE  Append(s, e) \in Seq(S) /\ Len(Append(s, e)) = Len(s) + 1
OBVIOUS

LEMMA DropThenAppend ==
  ASSUME NEW S, NEW s \in Seq(S), NEW e \in S, NEW d \in 0..Len(s)
  PROVE  Append(SubSeq(s, d + 1, Len(s)), e)
           = SubSeq(Append(s, e), d + 1, Len(s) + 1)
OBVIOUS

LEMMA DropOneMore ==
  ASSUME NEW S, NEW s \in Seq(S), NEW d \in 0..(Len(s) - 1)
  PROVE  SubSeq(SubSeq(s, d + 1, Len(s)), 2, Len(s) - d)
           = SubSeq(s, d + 2, Len(s))
OBVIOUS

\* Dropping the oldest elements before another one comes or after it: the
\* same ones are left.
LEMMA NewestAppend ==
  ASSUME NEW S, NEW s \in Seq(S), NEW e \in S, sz \in Nat \ {0}
  PROVE  Fifo!Newest(Append(Fifo!Newest(s), e)) = Fifo!Newest(Append(s, e))
<1>1. CASE Len(s) <= sz - 1
  BY <1>1 DEF Fifo!Newest
<1>2. CASE ~(Len(s) <= sz - 1)
  <2>1. PICK d \in Nat : d = Len(s) - (sz - 1)
    BY <1>2
  <2>2. PICK all \in Seq(S) : all = Append(s, e)
    BY Appended
  <2>3. Len(s) \in Nat /\ Len(all) = Len(s) + 1 /\ d \in 1..Len(s)
    BY <1>2, <2>1, <2>2, Appended
  <2>4. Fifo!Newest(s) = SubSeq(s, d + 1, Len(s))
    BY <1>2, <2>1 DEF Fifo!Newest
  <2>5. d \in 0..Len(all) /\ d \in 0..(Len(all) - 1) /\ d \in 0..Len(s)
    BY <2>3
  <2>6. /\ SubSeq(all, d + 1, Len(all)) \in Seq(S)
        /\ Len(SubSeq(all, d + 1, Len(all))) = Len(all) - d
    BY <2>5, Dropped
  <2>7. PICK new \in Seq(S) : new = SubSeq(all, d + 1, Len(all))
    BY <2>6
  <2>8. Append(Fifo!Newest(s), e) = new
    BY <2>2, <2>3, <2>4, <2>5, <2>7, DropThenAppend
  <2>9. Len(new) = sz
    BY <2>1, <2>3, <2>6, <2>7
  <2>10. Fifo!Newest(new) = SubSeq(new, 2, Len(all) - d)
    BY <2>1, <2>3, <2>9 DEF Fifo!Newest
  <2>11. SubSeq(new, 2, Len(all) - d) = SubSeq(all, d + 2, Len(all))
    BY <2>5, <2>7, DropOneMore
  <2>12. Fifo!Newest(all) = SubSeq(all, d + 2, Len(all))
    BY <2>1, <2>3 DEF Fifo!Newest
  <2> QED BY <2>2, <2>8, <2>10, <2>11, <2>12
<1> QED BY <1>1, <1>2

LEMMA ConcatLast ==
  ASSUME NEW S, NEW s \in Seq(S), NEW e \in S
  PROVE  Append(s, e) = s \o <<e>>
OBVIOUS

LEMMA HeadAndTail ==
  ASSUME NEW S, NEW s \in Seq(S), s # <<>>
  PROVE  /\ Tail(s) = SubSeq(s, 2, Len(s))
         /\ <<Head(s)>> = SubSeq(s, 1, 1)
         /\ Len(s) \in Nat /\ Len(s) >= 1
OBVIOUS

LEMMA ConcatParts ==
  ASSUME NEW S, NEW s \in Seq(S), NEW t \in Seq(S)
  PROVE  /\ SubSeq(s \o t, 1, Len(s)) = s
         /\ SubSeq(s \o t, Len(s) + 1, Len(s \o t)) = t
OBVIOUS

\* One more element of the span is stored.
LEMMA ConcatNext ==
  ASSUME NEW S, NEW s \in Seq(S), NEW t \in Seq(S), NEW n \in Nat, n < Len(t)
  PROVE  s \o SubSeq(t, 1, n + 1) = Append(s \o SubSeq(t, 1, n), t[n + 1])
OBVIOUS

\* One more element moves from the ring to the out vector.
LEMMA ConcatShift ==
  ASSUME NEW S, NEW s \in Seq(S), NEW t \in Seq(S), t # <<>>
  PROVE  Append(s, Head(t)) \o Tail(t) = s \o t
OBVIOUS

-----------------------------------------------------------------------------
(* The ring *)

\* Contents is a sequence of slots inside the vector, the spare slot not
\* among them.
ContentsSound ==
  /\ Contents \in Seq(Slots)
  /\ Len(Contents) = Count
  /\ \A k \in 1..Count : /\ Contents[k] = buffer_[SlotOf(k - 1)]
                         /\ SlotOf(k - 1) \in 0..(sz - 1)
                         /\ SlotOf(k - 1) # endIndex_

LEMMA ContentsFacts == TypeOK => ContentsSound
<1> SUFFICES ASSUME TypeOK PROVE ContentsSound
  OBVIOUS
<1>1. Count \in 0..(sz - 1) /\ sz \in Nat \ {0}
  BY CountBound, SizePositive
<1>2. ASSUME NEW k \in 1..Count
      PROVE  SlotOf(k - 1) \in 0..(sz - 1) /\ SlotOf(k - 1) # endIndex_
  BY <1>1 DEF SlotOf, Count, TypeOK
<1>3. \A k \in 1..Count : buffer_[SlotOf(k - 1)] \in Slots
  BY <1>2 DEF TypeOK
<1>4. Contents \in Seq(Slots) /\ Len(Contents) = Count
  BY <1>1, <1>3 DEF Contents
<1>5. \A k \in 1..Count : Contents[k] = buffer_[SlotOf(k - 1)]
  BY DEF Contents
<1> QED BY <1>2, <1>4, <1>5 DEF ContentsSound

LEMMA ContentsFactsNext == TypeOK' => ContentsSound'
BY ContentsFacts, PTL

\* The ring is drained when it holds nothing; else its front slot holds the
\* oldest element.
LEMMA FrontFacts ==
  ASSUME TypeOK
  PROVE  /\ IsDrained <=> Contents = <<>>
         /\ ~IsDrained => Head(Contents) = buffer_[startIndex_]
<1>1. sz \in Nat \ {0} /\ Count \in Nat
  BY CountBound, SizePositive
<1>2. IsDrained <=> Count = 0
  BY <1>1 DEF IsDrained, Count, TypeOK
<1>3. ~IsDrained => SlotOf(0) = startIndex_
  BY <1>1 DEF SlotOf, TypeOK
<1>4. ~IsDrained => Contents[1] = buffer_[startIndex_]
  <2> SUFFICES ASSUME ~IsDrained PROVE Contents[1] = buffer_[startIndex_]
    OBVIOUS
  <2>1. 1 \in 1..Count /\ 1 - 1 = 0
    BY <1>1, <1>2
  <2> QED BY <1>3, <2>1, ContentsFacts DEF ContentsSound
<1> QED BY <1>1, <1>2, <1>4, ContentsFacts DEF ContentsSound

\* One element into the ring: appended, the oldest dropped if there is no
\* room for it (lines 136-141 and 161-166).
LEMMA StoreContents ==
  ASSUME TypeOK, TypeOK', NEW element \in Slots, Store(element), sz' = sz
  PROVE  Contents' = Fifo!Newest(Append(Contents, element))
<1>1. Count \in 0..(sz - 1) /\ sz \in Nat \ {0}
  BY CountBound, SizePositive
<1>2. ContentsSound /\ ContentsSound'
  BY ContentsFacts, ContentsFactsNext
<1>3. /\ Append(Contents, element) \in Seq(Slots)
      /\ Len(Append(Contents, element)) = Count + 1
      /\ \A k \in 1..Count : Append(Contents, element)[k] = Contents[k]
      /\ Append(Contents, element)[Count + 1] = element
  BY <1>1, <1>2 DEF ContentsSound
<1>4. \A i \in {startIndex_, endIndex_} :
        Advance(i) = IF i + 1 = sz THEN 0 ELSE i + 1
  BY <1>1, AdvanceFacts DEF TypeOK
<1>5. endIndex_ = SlotOf(Count)
  BY <1>1 DEF SlotOf, Count, TypeOK
<1>6. startIndex_ \in 0..(sz - 1) /\ endIndex_ \in 0..(sz - 1)
  BY DEF TypeOK
<1>7. CASE Advance(endIndex_) # startIndex_
  <2>1. Count' = Count + 1 /\ Count < sz - 1
    <3>1. startIndex_' = startIndex_ /\ endIndex_' = Advance(endIndex_)
      BY <1>7 DEF Store
    <3> QED BY <1>1, <1>4, <1>7, <1>6, <3>1 DEF Count
  <2>2. Fifo!Newest(Append(Contents, element)) = Append(Contents, element)
    BY <1>1, <1>3, <2>1 DEF Fifo!Newest
  <2>3. ASSUME NEW k \in 1..(Count + 1)
        PROVE  Contents'[k] = Append(Contents, element)[k]
    <3>1. SlotOf(k - 1)' = SlotOf(k - 1)
      BY <1>7 DEF Store, SlotOf
    <3>2. Contents'[k] = buffer_'[SlotOf(k - 1)]
      BY <1>1, <1>2, <2>1, <3>1 DEF ContentsSound
    <3>3. CASE k = Count + 1
      BY <1>1, <1>3, <1>5, <3>2, <3>3 DEF Store, TypeOK
    <3>4. CASE k \in 1..Count
      BY <1>2, <1>3, <3>2, <3>4 DEF Store, TypeOK, ContentsSound
    <3>5. k = Count + 1 \/ k \in 1..Count
      BY <1>1
    <3> QED BY <3>3, <3>4, <3>5
  <2>4. Contents' \in Seq(Slots) /\ Len(Contents') = Count + 1
    BY <1>2, <2>1 DEF ContentsSound
  <2> QED BY <1>3, <2>2, <2>3, <2>4, SameElements
<1>8. CASE Advance(endIndex_) = startIndex_
  <2>1. Count' = sz - 1 /\ Count = sz - 1
    BY <1>1, <1>4, <1>8 DEF Store, Count, TypeOK
  <2>2. Fifo!Newest(Append(Contents, element))
          = SubSeq(Append(Contents, element), 2, sz)
    BY <1>1, <1>3, <2>1 DEF Fifo!Newest
  <2>3. /\ SubSeq(Append(Contents, element), 2, sz) \in Seq(Slots)
        /\ Len(SubSeq(Append(Contents, element), 2, sz)) = sz - 1
        /\ \A k \in 1..(sz - 1) : SubSeq(Append(Contents, element), 2, sz)[k]
                                    = Append(Contents, element)[k + 1]
    BY <1>1, <1>3, <2>1
  <2>4. ASSUME NEW k \in 1..(sz - 1)
        PROVE  Contents'[k] = Append(Contents, element)[k + 1]
    <3>1. SlotOf(k - 1)' = SlotOf(k)
      <4>1. startIndex_' = Advance(startIndex_)
        BY <1>8 DEF Store
      <4> QED BY <1>1, <1>4, <1>6, <4>1 DEF SlotOf
    <3>2. Contents'[k] = buffer_'[SlotOf(k)]
      BY <1>2, <2>1, <3>1 DEF ContentsSound
    <3>3. CASE k = sz - 1
      BY <1>1, <1>3, <1>5, <2>1, <3>2, <3>3 DEF Store, TypeOK
    <3>4. CASE k + 1 \in 1..Count
      <4>1. Contents[k + 1] = buffer_[SlotOf(k)] /\ SlotOf(k) # endIndex_
        <5>1. (k + 1) - 1 = k
          OBVIOUS
        <5> QED BY <1>2, <3>4, <5>1 DEF ContentsSound
      <4>2. SlotOf(k) \in 0..(sz - 1)
        BY <1>1 DEF SlotOf, TypeOK
      <4> QED BY <1>3, <3>2, <3>4, <4>1, <4>2 DEF Store, TypeOK
    <3>5. k = sz - 1 \/ k + 1 \in 1..Count
      BY <1>1, <2>1
    <3> QED BY <3>3, <3>4, <3>5
  <2>5. Contents' \in Seq(Slots) /\ Len(Contents') = sz - 1
    BY <1>2, <2>1 DEF ContentsSound
  <2>6. Contents' = SubSeq(Append(Contents, element), 2, sz)
    BY <2>3, <2>4, <2>5, SameElements
  <2> QED BY <2>2, <2>6
<1> QED BY <1>7, <1>8

\* The front element leaves: what is left is the rest, whether or not the
\* move changed the slot it left (lines 186-187, 231-232, 263-264, 294-295
\* and 331-332).
LEMMA TakeFrontContents ==
  ASSUME TypeOK, TypeOK', TakeFront, ~IsDrained, sz' = sz
  PROVE  Contents' = Tail(Contents)
<1>1. Count \in 0..(sz - 1) /\ sz \in Nat \ {0}
  BY CountBound, SizePositive
<1>2. ContentsSound /\ ContentsSound'
  BY ContentsFacts, ContentsFactsNext
<1>3. Count' = Count - 1 /\ Count # 0
  <2>1. Count' = Count - 1
    BY TakeFrontCount
  <2>2. Count # 0
    BY FrontFacts, <1>2 DEF ContentsSound
  <2> QED BY <2>1, <2>2
<1>4. Advance(startIndex_) = IF startIndex_ + 1 = sz THEN 0 ELSE startIndex_ + 1
  BY <1>1, AdvanceFacts DEF TypeOK
<1>5. /\ Tail(Contents) \in Seq(Slots) /\ Len(Tail(Contents)) = Count - 1
      /\ \A k \in 1..(Count - 1) : Tail(Contents)[k] = Contents[k + 1]
  BY <1>1, <1>2, <1>3 DEF ContentsSound
<1>6. ASSUME NEW k \in 1..(Count - 1) PROVE Contents'[k] = Contents[k + 1]
  <2>1. SlotOf(k - 1)' = SlotOf(k) /\ SlotOf(k) # startIndex_
    BY <1>1, <1>4 DEF TakeFront, SlotOf, TypeOK
  <2>2. Contents'[k] = buffer_'[SlotOf(k)]
    BY <1>2, <1>3, <2>1 DEF ContentsSound
  <2>3. k + 1 \in 1..Count /\ (k + 1) - 1 = k
    BY <1>1
  <2>4. Contents[k + 1] = buffer_[SlotOf(k)] /\ SlotOf(k) \in 0..(sz - 1)
    BY <1>2, <2>3 DEF ContentsSound
  <2> QED BY <2>1, <2>2, <2>4 DEF TakeFront, MoveFront, TypeOK
<1>7. Contents' \in Seq(Slots) /\ Len(Contents') = Count - 1
  BY <1>2, <1>3 DEF ContentsSound
<1> QED BY <1>5, <1>6, <1>7, SameElements

-----------------------------------------------------------------------------
(* The invariant of the refinement *)

\* What a thread inside a call remembers of it.
CallInv ==
  \A t \in Threads :
    /\ pc[t] \in {"waiting", "woken", "expired", "popping"} => call[t] \in Calls
    /\ pc[t] = "expired" => call[t].timed
    /\ pc[t] = "popping" => call[t].op = "popBatch"
    /\ pc[t] = "pushing" => elements \in Spans

\* How far the ring and the locals of a loop are from the queue: nothing
\* while mutex_ is free, the part of the span that is stored, or the part of
\* the queue that is in the out vector.
LoopInv ==
  /\ committed \in Seq(Slots)
  /\ Free => committed = Contents
  /\ \A t \in Threads :
       /\ pc[t] = "pushing" =>
            Contents = Fifo!Newest(committed \o SubSeq(elements, 1, stored))
       /\ pc[t] = "popping" => committed # <<>> /\ committed = out \o Contents

\* The inductive invariant of the refinement.
RInv == IInv /\ CallInv /\ LoopInv

\* peek(delay) moves its result out of the front slot and leaves the slot in
\* the ring (line 210).  This step is none of those, or the element survives
\* its move.
PeekKeeps ==
  \A t \in Consumers, c \in Calls : PeekFront(t, c) => UNCHANGED buffer_

\* With types of which a move is a copy no step is one.
LEMMA CopiesKeep == ~MoveEmpties => PeekKeeps
BY DEF PeekKeeps, PeekFront, MoveFront

LEMMA CallInvariant ==
  TypeOK /\ HolderInv /\ CallInv /\ [Next]_vars => CallInv'
<1> SUFFICES ASSUME TypeOK, HolderInv, CallInv, [Next]_vars PROVE CallInv'
  OBVIOUS
<1> USE DEF TypeOK, CallInv, Threads, locals
<1>1. ASSUME NEW t \in Producers, NEW v \in Values, Push(t, v) PROVE CallInv'
  BY <1>1 DEF Push, NotifyAll, Lock
<1>2. ASSUME NEW t \in Producers, NEW s, PushStopped(t, s) PROVE CallInv'
  BY <1>2 DEF PushStopped
<1>3. ASSUME NEW t \in Producers, NEW s \in Spans, PushSpan(t, s) PROVE CallInv'
  BY <1>3, FreeFacts DEF PushSpan, Lock
<1>4. ASSUME NEW t \in Producers, PushSpanStep(t) PROVE CallInv'
  BY <1>4 DEF PushSpanStep
<1>5. ASSUME NEW t \in Producers, PushSpanReturn(t) PROVE CallInv'
  BY <1>5, LoopFacts DEF PushSpanReturn, NotifyAll
<1>6. ASSUME NEW t \in Consumers, NEW c \in Calls, Attempt(t, c), Free
      PROVE  CallInv'
  BY <1>6, FreeFacts DEF Attempt, ReturnStopped, WaitForElement, TakeOne,
                         PeekFront, TakeBatch, Return, Block
<1>7. ASSUME NEW t \in Consumers, Resume(t) PROVE CallInv'
  BY <1>6, <1>7 DEF Resume
<1>8. ASSUME NEW t \in Consumers, ReturnExpired(t) PROVE CallInv'
  BY <1>8 DEF ReturnExpired, Return
<1>9. ASSUME NEW t \in Consumers, TakeBatchStep(t) PROVE CallInv'
  BY <1>9 DEF TakeBatchStep
<1>10. ASSUME NEW t \in Consumers, TakeBatchReturn(t) PROVE CallInv'
  BY <1>10 DEF TakeBatchReturn, Return
<1>11. ASSUME NEW t \in Consumers, SpuriousWake(t) PROVE CallInv'
  BY <1>11 DEF SpuriousWake
<1>12. ASSUME NEW t \in Consumers, NEW from \in {"waiting", "woken"}, Expire(t, from)
       PROVE  CallInv'
  BY <1>12 DEF Expire
<1>13. ASSUME NEW t \in Threads, Stop(t) PROVE CallInv'
  BY <1>13 DEF Stop, NotifyAll
<1>14. ASSUME NEW t \in Threads, Peek(t) \/ IsEmpty(t) \/ IsFull(t) \/ IsActive(t)
       PROVE  CallInv'
  BY <1>14 DEF Peek, IsEmpty, IsFull, IsActive
<1>15. CASE UNCHANGED vars
  BY <1>15 DEF vars
<1> QED
  BY <1>1, <1>2, <1>3, <1>4, <1>5, <1>6, <1>7, <1>8, <1>9, <1>10, <1>11, <1>12,
     <1>13, <1>14, <1>15
     DEF Next, Produce, Consume, Observe, Enter, Lock

-----------------------------------------------------------------------------
(* Each step of the ring is a step of the queue *)

\* The history variable follows the ring whenever a step leaves mutex_ free.
Commits == committed' = IF mutex_' = NoThread THEN Contents' ELSE committed

Simulated == LoopInv' /\ [Fifo!Next]_(Fifo!vars)

LEMMA Recorded ==
  ASSUME RecordEvents, NEW e, Completes(e) PROVE event' = e
BY DEF Completes

LEMMA SameContents ==
  ASSUME UNCHANGED ring, UNCHANGED sz PROVE Contents' = Contents
BY DEF Contents, Count, SlotOf, ring

\* Nobody is in a loop after a step that leaves mutex_ free.
LEMMA LoopInvFree ==
  ASSUME IInv', mutex_' = NoThread, Commits PROVE LoopInv'
<1>1. Contents' \in Seq(Slots)
  BY ContentsFactsNext DEF IInv, ContentsSound
<1>2. \A t \in Threads : pc'[t] \notin {"pushing", "popping"}
  BY NoThreadAssumption DEF IInv, HolderInv
<1> QED BY <1>1, <1>2 DEF LoopInv, Commits

\* A step beside the ring, while a loop is under way or not.
LEMMA LoopInvBeside ==
  ASSUME IInv', LoopInv, Commits, UNCHANGED <<mutex_, ring, sz, locals>>,
         \A t \in Threads :
           pc'[t] \in {"pushing", "popping"} => pc'[t] = pc[t]
  PROVE  LoopInv' /\ committed' = committed
<1>1. Contents' = Contents
  BY SameContents
<1>2. CASE mutex_' = NoThread
  <2>1. LoopInv'
    BY <1>2, LoopInvFree
  <2>2. committed = Contents /\ committed' = Contents'
    BY <1>2 DEF LoopInv, Free, Commits
  <2> QED BY <1>1, <2>1, <2>2
<1>3. CASE mutex_' # NoThread
  <2>1. committed' = committed
    BY <1>3 DEF Commits
  <2> QED BY <1>1, <1>3, <2>1 DEF LoopInv, Free, locals, Fifo!Newest
<1> QED BY <1>2, <1>3

\* push(element): the queue takes the element and keeps the newest ones.
LEMMA PushStep ==
  ASSUME RecordEvents, RInv, IInv', Commits,
         NEW t \in Producers, NEW v \in Values, Push(t, v)
  PROVE  Simulated
<1>1. mutex_' = NoThread /\ Free
  BY DEF Push, Lock, Free
<1>2. committed = Contents /\ committed' = Contents'
  BY <1>1 DEF RInv, LoopInv, Commits
<1>3. TypeOK /\ TypeOK' /\ v \in Slots /\ sz \in Nat \ {0}
  BY SizePositive DEF RInv, IInv, Slots
<1>4. Contents' = Fifo!Newest(Append(Contents, v))
  BY <1>3, StoreContents DEF Push
<1>5. Append(Contents, v) = Contents \o <<v>>
  <2>1. Contents \in Seq(Slots)
    BY <1>3, ContentsFacts DEF ContentsSound
  <2> QED BY <1>3, <2>1, ConcatLast
<1>6. Fifo!Push(<<v>>)
  BY <1>2, <1>4, <1>5, Recorded DEF Fifo!Push, Push
<1> QED BY <1>1, <1>6, LoopInvFree DEF Simulated, Fifo!Next

\* Either push after stop() leaves the queue alone.
LEMMA PushStoppedStep ==
  ASSUME RecordEvents, RInv, IInv', Commits, NEW t \in Producers, NEW s,
         s \in Spans \/ \E v \in Values : s = <<v>>, PushStopped(t, s)
  PROVE  Simulated
<1>1. mutex_' = NoThread
  BY DEF PushStopped, Lock, Free
<1>2. LoopInv' /\ committed' = committed
  BY LoopInvBeside DEF PushStopped, RInv
<1>3. Fifo!Push(s)
  BY <1>2, Recorded DEF Fifo!Push, PushStopped
<1> QED BY <1>2, <1>3 DEF Simulated, Fifo!Next

\* push(span) begins: nothing of the span is stored yet.
LEMMA PushSpanBegins ==
  ASSUME RInv, IInv', Commits, NEW t \in Producers, NEW s \in Spans, PushSpan(t, s)
  PROVE  Simulated
<1>1. t \in Threads /\ mutex_' = t /\ t # NoThread
  BY NoThreadAssumption DEF PushSpan, Threads
<1>2. committed' = committed /\ committed = Contents
  BY <1>1 DEF Commits, RInv, LoopInv, PushSpan, Lock
<1>3. Contents' = Contents
  BY SameContents DEF PushSpan
<1>4. Contents \in Seq(Slots) /\ Len(Contents) <= sz - 1 /\ sz' = sz
  BY ContentsFacts, CountBound, SizePositive
     DEF RInv, IInv, ContentsSound, PushSpan
<1>5. elements' = s /\ stored' = 0 /\ s \in Seq(Values)
  BY SpansAssumption DEF PushSpan
<1>6. Contents \o SubSeq(s, 1, 0) = Contents
  BY <1>4, <1>5
<1>7. Contents = Fifo!Newest(Contents)
  BY <1>4 DEF Fifo!Newest
<1>8. \A u \in Threads : pc'[u] # "popping" /\ (pc'[u] = "pushing" => u = t)
  BY <1>1, NoThreadAssumption, FreeFacts DEF RInv, IInv, TypeOK, PushSpan, Lock
<1>9. Fifo!Newest(committed \o SubSeq(elements, 1, stored))'
        = Fifo!Newest(Contents)
  BY <1>2, <1>4, <1>5, <1>6 DEF Fifo!Newest
<1>10. LoopInv'
  BY <1>1, <1>2, <1>3, <1>4, <1>7, <1>8, <1>9 DEF LoopInv, Free
<1> QED BY <1>2, <1>4, <1>10 DEF Simulated, PushSpan, Fifo!vars

\* One iteration of its loop.
LEMMA PushSpanAdvances ==
  ASSUME RInv, IInv', Commits, NEW t \in Producers, PushSpanStep(t)
  PROVE  Simulated
<1>1. t \in Threads /\ mutex_ = t /\ mutex_' = t /\ t # NoThread
  BY NoThreadAssumption DEF PushSpanStep, Threads, RInv, IInv, HolderInv
<1>2. committed' = committed /\ sz' = sz /\ committed \in Seq(Slots)
  BY <1>1 DEF Commits, PushSpanStep, RInv, LoopInv
<1>3. Contents = Fifo!Newest(committed \o SubSeq(elements, 1, stored))
  BY <1>1 DEF RInv, LoopInv, PushSpanStep
<1>4. TypeOK /\ TypeOK' /\ sz \in Nat \ {0}
  BY SizePositive DEF RInv, IInv
<1>5. /\ elements \in Seq(Slots) /\ stored \in Nat /\ stored < Len(elements)
      /\ elements' = elements /\ stored' = stored + 1
  BY <1>4 DEF TypeOK, PushSpanStep, Slots
<1>6. elements[stored + 1] \in Slots
  BY <1>5
<1> DEFINE before == committed \o SubSeq(elements, 1, stored)
           after  == committed \o SubSeq(elements, 1, stored + 1)
<1>7. before \in Seq(Slots) /\ after = Append(before, elements[stored + 1])
  BY <1>2, <1>5, ConcatNext
<1>8. Contents' = Fifo!Newest(Append(Contents, elements[stored + 1]))
  BY <1>2, <1>4, <1>6, StoreContents DEF PushSpanStep
<1>9. Contents' = Fifo!Newest(after)
  BY <1>3, <1>4, <1>6, <1>7, <1>8, NewestAppend
<1>10. Fifo!Newest(committed \o SubSeq(elements, 1, stored))' = Fifo!Newest(after)
  BY <1>2, <1>5 DEF Fifo!Newest
<1>11. \A u \in Threads : pc'[u] # "popping"
  BY <1>1, LoopFacts DEF PushSpanStep, RInv, IInv
<1>12. LoopInv'
  BY <1>1, <1>2, <1>9, <1>10, <1>11 DEF LoopInv, Free
<1> QED BY <1>2, <1>12 DEF Simulated, PushSpanStep, Fifo!vars

\* push(span) returns: the queue takes the whole span at once.
LEMMA PushSpanEnds ==
  ASSUME RecordEvents, RInv, IInv', Commits, NEW t \in Producers, PushSpanReturn(t)
  PROVE  Simulated
<1>1. t \in Threads /\ mutex_' = NoThread /\ active_ /\ pc[t] = "pushing"
  BY LoopFacts DEF PushSpanReturn, Threads, RInv, IInv
<1>2. committed' = Contents /\ committed \in Seq(Slots)
  BY <1>1, SameContents DEF Commits, PushSpanReturn, RInv, LoopInv
<1>3. elements \in Seq(Values) /\ stored = Len(elements) /\ elements \in Spans
  BY <1>1 DEF RInv, IInv, TypeOK, CallInv, PushSpanReturn
<1>4. SubSeq(elements, 1, stored) = elements
  BY <1>3
<1>5. Contents = Fifo!Newest(committed \o elements)
  BY <1>1, <1>4 DEF RInv, LoopInv
<1>6. Fifo!Push(elements)
  BY <1>1, <1>2, <1>5, Recorded DEF Fifo!Push, PushSpanReturn
<1> QED BY <1>1, <1>3, <1>6, LoopInvFree DEF Simulated, Fifo!Next

\* A blocking call comes back without an element: active_ is looked at, or a
\* deadline has passed.
LEMMA EmptyHandedStep ==
  ASSUME RecordEvents, RInv, IInv', Commits, NEW t \in Threads, NEW c \in Calls,
         Free, Return(t, c, <<>>, 0), c.timed \/ ~active_,
         UNCHANGED <<active_, mutex_, ring, sz, locals>>
  PROVE  Simulated
<1>1. \A u \in Threads : pc'[u] \in {"pushing", "popping"} => pc'[u] = pc[u]
  BY DEF Return, RInv, IInv, TypeOK
<1>2. LoopInv' /\ committed' = committed
  BY <1>1, LoopInvBeside DEF RInv
<1>3. Fifo!EmptyHanded(c)
  BY <1>2, Recorded DEF Fifo!EmptyHanded, Fifo!Returns, Return
<1>4. c \in Fifo!Calls
  BY DEF Calls, Fifo!Calls, Fifo!TakeCalls, Fifo!PeekCalls
<1> QED BY <1>2, <1>3, <1>4 DEF Simulated, Fifo!Next

LEMMA FewerThanOne ==
  ASSUME NEW n \in Nat, n >= 1 PROVE Fifo!Fewer(1, n) = 1
BY DEF Fifo!Fewer

\* pop() and pop(delay) take the oldest element.
LEMMA TakeOneStep ==
  ASSUME RecordEvents, RInv, IInv', Commits, NEW t \in Threads, NEW c \in Calls,
         Free, TakeOne(t, c), UNCHANGED <<active_, sz, locals>>
  PROVE  Simulated
<1>1. mutex_' = NoThread /\ committed = Contents /\ committed' = Contents'
  BY DEF TakeOne, Free, Commits, RInv, LoopInv
<1>2. TypeOK /\ TypeOK'
  BY DEF RInv, IInv
<1>3. /\ Contents' = Tail(Contents) /\ Contents # <<>>
      /\ Head(Contents) = buffer_[startIndex_]
  BY <1>2, TakeFrontContents, FrontFacts DEF TakeOne
<1>4. Contents \in Seq(Slots)
  BY <1>2, ContentsFacts DEF ContentsSound
<1>5. /\ Tail(Contents) = SubSeq(Contents, 2, Len(Contents))
      /\ <<Head(Contents)>> = SubSeq(Contents, 1, 1)
      /\ Len(Contents) \in Nat /\ Len(Contents) >= 1
  BY <1>3, <1>4, HeadAndTail
<1>6. c.max = 1 /\ c \in Fifo!TakeCalls
  BY DEF TakeOne, Calls, Fifo!TakeCalls
<1>7. Fifo!Fewer(c.max, Len(committed)) = 1 /\ 0 \in 0..(c.max - 1)
  <2>1. Fifo!Fewer(1, Len(Contents)) = 1
    BY <1>5, FewerThanOne
  <2>2. c.max - 1 = 0
    BY <1>6
  <2> QED BY <1>1, <1>6, <2>1, <2>2
<1>8. Fifo!Returns(c, SubSeq(committed, 1, 1), 0)
  BY <1>1, <1>3, <1>5, Recorded DEF Fifo!Returns, TakeOne, Return
<1>9. Fifo!Take(c)
  BY <1>1, <1>3, <1>5, <1>7, <1>8 DEF Fifo!Take, TakeOne
<1> QED BY <1>1, <1>6, <1>9, LoopInvFree DEF Simulated, Fifo!Next

\* peek(delay) hands out the oldest element and leaves it, when moving from
\* an element does not change it.
LEMMA PeekFrontStep ==
  ASSUME RecordEvents, PeekKeeps, RInv, IInv', Commits,
         NEW t \in Consumers, NEW c \in Calls,
         Free, PeekFront(t, c), UNCHANGED <<active_, sz, locals>>
  PROVE  Simulated
<1>1. UNCHANGED ring /\ mutex_' = mutex_
  BY DEF PeekFront, PeekKeeps, ring
<1>2. \A u \in Threads : pc'[u] \in {"pushing", "popping"} => pc'[u] = pc[u]
  BY DEF PeekFront, Return, RInv, IInv, TypeOK
<1>3. LoopInv' /\ committed' = committed /\ committed = Contents
  BY <1>1, <1>2, LoopInvBeside DEF RInv, LoopInv
<1>4. Contents # <<>> /\ Head(Contents) = buffer_[startIndex_]
  BY FrontFacts DEF PeekFront, RInv, IInv
<1>5. c \in Fifo!PeekCalls
  BY DEF PeekFront, Calls, Fifo!PeekCalls
<1>6. Fifo!Look(c)
  BY <1>3, <1>4, Recorded DEF Fifo!Look, Fifo!Returns, PeekFront, Return
<1> QED BY <1>3, <1>5, <1>6 DEF Simulated, Fifo!Next

\* A batch pop begins: the out vector is still empty.
LEMMA TakeBatchBegins ==
  ASSUME RInv, IInv', Commits, NEW t \in Threads, NEW c \in Calls,
         Free, TakeBatch(t, c), UNCHANGED <<active_, sz, locals>>
  PROVE  Simulated
<1>1. mutex_' = t /\ t # NoThread
  BY NoThreadAssumption DEF TakeBatch
<1>2. committed' = committed /\ committed = Contents
  BY <1>1 DEF Commits, RInv, LoopInv
<1>3. Contents' = Contents /\ Contents \in Seq(Slots) /\ Contents # <<>>
  BY SameContents, ContentsFacts, FrontFacts
     DEF TakeBatch, RInv, IInv, ContentsSound
<1>4. out' = <<>>
  BY FreeFacts DEF RInv, IInv, locals
<1>5. <<>> \o Contents = Contents
  BY <1>3
<1>6. \A u \in Threads : pc'[u] # "pushing"
  BY FreeFacts DEF RInv, IInv, TypeOK, TakeBatch
<1>7. LoopInv'
  BY <1>1, <1>2, <1>3, <1>4, <1>5, <1>6 DEF LoopInv, Free
<1> QED BY <1>2, <1>7 DEF Simulated, TakeBatch, Fifo!vars

\* The call goes to sleep.
LEMMA WaitStep ==
  ASSUME RInv, IInv', Commits, NEW t \in Threads, NEW c \in Calls,
         WaitForElement(t, c), UNCHANGED <<active_, sz, locals>>
  PROVE  Simulated
<1>1. UNCHANGED <<ring, mutex_, event>>
  BY DEF WaitForElement, Block
<1>2. \A u \in Threads : pc'[u] \in {"pushing", "popping"} => pc'[u] = pc[u]
  BY DEF WaitForElement, Block, RInv, IInv, TypeOK
<1>3. LoopInv' /\ committed' = committed
  BY <1>1, <1>2, LoopInvBeside DEF RInv
<1> QED BY <1>1, <1>3 DEF Simulated, Fifo!vars

\* The five outcomes of a blocking call's look at the ring.
LEMMA AttemptStep ==
  ASSUME RecordEvents, PeekKeeps, RInv, IInv', Commits,
         NEW t \in Consumers, NEW c \in Calls, Free, Attempt(t, c)
  PROVE  Simulated
<1> t \in Threads
  BY DEF Threads
<1>1. CASE ReturnStopped(t, c)
  BY <1>1, EmptyHandedStep DEF Attempt, ReturnStopped
<1>2. CASE WaitForElement(t, c)
  BY <1>2, WaitStep DEF Attempt
<1>3. CASE TakeOne(t, c)
  BY <1>3, TakeOneStep DEF Attempt
<1>4. CASE PeekFront(t, c)
  BY <1>4, PeekFrontStep DEF Attempt
<1>5. CASE TakeBatch(t, c)
  BY <1>5, TakeBatchBegins DEF Attempt
<1> QED BY <1>1, <1>2, <1>3, <1>4, <1>5 DEF Attempt

\* One iteration of a batch pop: an element moves to the out vector.
LEMMA TakeBatchAdvances ==
  ASSUME RInv, IInv', Commits, NEW t \in Consumers, TakeBatchStep(t)
  PROVE  Simulated
<1>1. t \in Threads /\ mutex_ = t /\ mutex_' = t /\ t # NoThread
  BY NoThreadAssumption DEF TakeBatchStep, Threads, RInv, IInv, HolderInv
<1>2. committed' = committed /\ committed # <<>> /\ committed = out \o Contents
  BY <1>1 DEF Commits, TakeBatchStep, RInv, LoopInv
<1>3. TypeOK /\ TypeOK' /\ sz' = sz
  BY DEF RInv, IInv, TakeBatchStep
<1>4. /\ Contents' = Tail(Contents) /\ Contents # <<>>
      /\ out' = Append(out, Head(Contents))
  BY <1>3, TakeFrontContents, FrontFacts DEF TakeBatchStep
<1>5. Contents \in Seq(Slots) /\ out \in Seq(Slots)
  BY <1>3, ContentsFacts DEF ContentsSound, TypeOK
<1>6. out' \o Contents' = out \o Contents
  BY <1>4, <1>5, ConcatShift
<1>7. \A u \in Threads : pc'[u] # "pushing"
  BY <1>1, LoopFacts DEF TakeBatchStep, RInv, IInv
<1>8. LoopInv'
  BY <1>1, <1>2, <1>6, <1>7 DEF LoopInv, Free, RInv
<1> QED BY <1>2, <1>3, <1>8 DEF Simulated, TakeBatchStep, Fifo!vars

\* A batch pop returns: the queue gives up as many elements as it asked for,
\* or all it has, and the out vector may be longer than that.
LEMMA TakeBatchEnds ==
  ASSUME RecordEvents, RInv, IInv', Commits, NEW t \in Consumers, TakeBatchReturn(t)
  PROVE  Simulated
<1>1. t \in Threads /\ mutex_' = NoThread /\ active_ /\ pc[t] = "popping"
  BY LoopFacts DEF TakeBatchReturn, Threads, RInv, IInv
<1>2. committed' = Contents /\ committed # <<>> /\ committed = out \o Contents
  BY <1>1, SameContents DEF Commits, TakeBatchReturn, RInv, LoopInv
<1>3. Contents \in Seq(Slots) /\ out \in Seq(Slots)
  BY ContentsFacts DEF RInv, IInv, ContentsSound, TypeOK
<1>4. call[t] \in Calls /\ call[t].op = "popBatch" /\ call[t].max \in Nat
  BY <1>1, CallMax DEF RInv, CallInv
<1>5. call[t] \in Fifo!TakeCalls
  BY <1>4 DEF Calls, Fifo!TakeCalls
<1>6. Len(out) \in Nat /\ Len(Contents) \in Nat /\ sz \in Nat
  BY <1>3, SizePositive DEF RInv, IInv
<1>7. Len(out) <= call[t].max /\ Len(out) < sz
  BY <1>1, <1>6, CountBound DEF RInv, IInv, BatchInv
<1>8. Len(out) = call[t].max \/ Len(Contents) = 0
  BY FrontFacts DEF TakeBatchReturn, RInv, IInv
<1>9. Len(committed) = Len(out) + Len(Contents)
  BY <1>2, <1>3
<1>10. Fifo!Fewer(call[t].max, Len(committed)) = Len(out)
  BY <1>4, <1>6, <1>7, <1>8, <1>9 DEF Fifo!Fewer
<1>11. /\ SubSeq(committed, 1, Len(out)) = out
       /\ SubSeq(committed, Len(out) + 1, Len(committed)) = Contents
  BY <1>2, <1>3, ConcatParts
<1>12. OutSize(call[t]) - Len(out) \in 0..(call[t].max - Len(out))
  BY <1>4, <1>6, <1>7 DEF OutSize
<1>13. Fifo!Returns(call[t], out, OutSize(call[t]) - Len(out))
  BY Recorded DEF Fifo!Returns, TakeBatchReturn, Return
<1>14. Fifo!Take(call[t])
  BY <1>1, <1>2, <1>10, <1>11, <1>12, <1>13 DEF Fifo!Take, TakeBatchReturn
<1> QED BY <1>1, <1>5, <1>14, LoopInvFree DEF Simulated, Fifo!Next

\* The calls that only look, and stop().
LEMMA ObserveStep ==
  ASSUME RecordEvents, RInv, IInv', Commits, NEW t \in Threads, Observe(t)
  PROVE  Simulated
<1>1. UNCHANGED <<mutex_, ring, sz, locals>>
  BY DEF Observe, Stop, Peek, IsEmpty, IsFull, IsActive
<1>2. \A u \in Threads : pc'[u] \in {"pushing", "popping"} => pc'[u] = pc[u]
  BY DEF Observe, Stop, Peek, IsEmpty, IsFull, IsActive, NotifyAll,
         RInv, IInv, TypeOK
<1>3. LoopInv' /\ committed' = committed /\ sz' = sz
  BY <1>1, <1>2, LoopInvBeside DEF RInv
<1>4. CASE Stop(t)
  <2>1. Fifo!Stop
    BY <1>3, <1>4, Recorded DEF Fifo!Stop, Stop
  <2> QED BY <1>3, <2>1 DEF Simulated, Fifo!Next
<1>5. ASSUME Free
      PROVE  /\ IsDrained <=> committed = <<>>
             /\ ~IsDrained => Head(committed) = buffer_[startIndex_]
  BY <1>5, FrontFacts DEF RInv, IInv, LoopInv
<1>6. CASE Peek(t)
  <2>1. Fifo!PeekNow
    BY <1>3, <1>5, <1>6, Recorded DEF Fifo!PeekNow, Peek, Lock
  <2> QED BY <1>3, <2>1 DEF Simulated, Fifo!Next
<1>7. CASE IsEmpty(t)
  <2>1. Fifo!Ask
    BY <1>3, <1>5, <1>7, Recorded DEF Fifo!Ask, IsEmpty, Lock
  <2> QED BY <1>3, <2>1 DEF Simulated, Fifo!Next
<1>8. CASE IsFull(t)
  <2>1. event' = [op |-> "isFull", answer |-> LooksFull]
    BY <1>8, Recorded DEF IsFull
  <2>2. LooksFull = FALSE \/ (active_ /\ LooksFull = TRUE)
    BY DEF LooksFull
  <2>3. Fifo!Ask
    BY <1>3, <1>8, <2>1, <2>2 DEF Fifo!Ask, IsFull
  <2> QED BY <1>3, <2>3 DEF Simulated, Fifo!Next
<1>9. CASE IsActive(t)
  <2>1. Fifo!Ask
    BY <1>3, <1>9, Recorded DEF Fifo!Ask, IsActive
  <2> QED BY <1>3, <2>1 DEF Simulated, Fifo!Next
<1> QED BY <1>4, <1>6, <1>7, <1>8, <1>9 DEF Observe

\* Every step of the ring.
LEMMA StepSimulation ==
  ASSUME RecordEvents, PeekKeeps, RInv, IInv', Next, Commits
  PROVE  Simulated
<1>1. Producers \subseteq Threads /\ Consumers \subseteq Threads
  BY DEF Threads
<1>2. ASSUME NEW t \in Producers, Produce(t) PROVE Simulated
  <2>1. ASSUME NEW v \in Values, Push(t, v) PROVE Simulated
    BY <2>1, PushStep
  <2>2. ASSUME NEW v \in Values, PushStopped(t, <<v>>) PROVE Simulated
    BY <2>2, PushStoppedStep
  <2>3. ASSUME NEW s \in Spans, PushSpan(t, s) PROVE Simulated
    BY <2>3, PushSpanBegins
  <2>4. ASSUME NEW s \in Spans, PushStopped(t, s) PROVE Simulated
    BY <2>4, PushStoppedStep
  <2>5. CASE PushSpanStep(t)
    BY <2>5, PushSpanAdvances
  <2>6. CASE PushSpanReturn(t)
    BY <2>6, PushSpanEnds
  <2> QED BY <1>2, <2>1, <2>2, <2>3, <2>4, <2>5, <2>6 DEF Produce
<1>3. ASSUME NEW t \in Consumers, Consume(t) PROVE Simulated
  <2>1. ASSUME NEW c \in Calls, Enter(t, c) PROVE Simulated
    BY <1>1, <2>1, AttemptStep DEF Enter, Lock
  <2>2. CASE Resume(t)
    <3>1. call[t] \in Calls
      BY <1>1, <2>2 DEF Resume, RInv, CallInv
    <3> QED BY <1>1, <2>2, <3>1, AttemptStep DEF Resume
  <2>3. CASE ReturnExpired(t)
    <3>1. call[t] \in Calls /\ call[t].timed
      BY <1>1, <2>3 DEF ReturnExpired, RInv, CallInv
    <3> QED BY <1>1, <2>3, <3>1, EmptyHandedStep DEF ReturnExpired
  <2>4. CASE TakeBatchStep(t)
    BY <2>4, TakeBatchAdvances
  <2>5. CASE TakeBatchReturn(t)
    BY <2>5, TakeBatchEnds
  <2>6. CASE SpuriousWake(t) \/ \E from \in {"waiting", "woken"} : Expire(t, from)
    <3>1. UNCHANGED <<active_, mutex_, ring, sz, locals, event>>
      BY <2>6 DEF SpuriousWake, Expire
    <3>2. \A u \in Threads : pc'[u] \in {"pushing", "popping"} => pc'[u] = pc[u]
      BY <2>6 DEF SpuriousWake, Expire, RInv, IInv, TypeOK
    <3>3. LoopInv' /\ committed' = committed
      BY <3>1, <3>2, LoopInvBeside DEF RInv
    <3> QED BY <3>1, <3>3 DEF Simulated, Fifo!vars
  <2> QED BY <1>3, <2>1, <2>2, <2>3, <2>4, <2>5, <2>6 DEF Consume
<1>4. ASSUME NEW t \in Threads, Observe(t) PROVE Simulated
  BY <1>4, ObserveStep
<1> QED BY <1>2, <1>3, <1>4 DEF Next

\* A step in which nothing happens.
LEMMA StutterSimulation ==
  ASSUME RInv, UNCHANGED <<vars, committed>> PROVE Simulated
<1>1. UNCHANGED <<active_, mutex_, ring, sz, pc, locals, event, committed>>
  BY DEF vars
<1>2. Contents' = Contents
  BY <1>1, SameContents
<1>3. LoopInv'
  BY <1>1, <1>2 DEF RInv, LoopInv, Free, locals, Fifo!Newest
<1> QED BY <1>1, <1>3 DEF Simulated, Fifo!vars

LEMMA InitRefinement == HInit => RInv /\ Fifo!Init
<1> SUFFICES ASSUME HInit PROVE RInv /\ Fifo!Init
  OBVIOUS
<1>1. IInv
  BY InitIInv DEF HInit
<1>2. CallInv
  BY DEF HInit, Init, CallInv
<1>3. IsDrained /\ committed = <<>>
  BY DEF HInit, Init, IsDrained
<1>4. Contents = committed
  BY <1>1, <1>3, FrontFacts DEF IInv
<1>5. LoopInv
  BY <1>3, <1>4 DEF HInit, Init, LoopInv
<1>6. sz - 1 \in Capacities
  BY CapacitiesAssumption DEF HInit, Init
<1>7. Fifo!Init
  BY <1>3, <1>6 DEF HInit, Init, Fifo!Init
<1> QED BY <1>1, <1>2, <1>5, <1>7 DEF RInv

LEMMA StepRefinement ==
  ASSUME RecordEvents
  PROVE  RInv /\ [HNext]_<<vars, committed>> /\ [PeekKeeps]_vars
           => RInv' /\ [Fifo!Next]_(Fifo!vars)
<1> SUFFICES ASSUME RInv, [HNext]_<<vars, committed>>, [PeekKeeps]_vars
             PROVE  RInv' /\ [Fifo!Next]_(Fifo!vars)
  OBVIOUS
<1>1. [Next]_vars
  BY DEF HNext, vars
<1>2. IInv' /\ CallInv'
  BY <1>1, InductiveInvariant, CallInvariant DEF RInv, IInv
<1>3. CASE HNext /\ PeekKeeps
  BY <1>2, <1>3, StepSimulation DEF HNext, Commits, Simulated, RInv
<1>4. CASE HNext /\ UNCHANGED vars
  <2>1. Contents' = Contents /\ mutex_' = mutex_
    BY <1>4, SameContents DEF vars
  <2>2. UNCHANGED <<vars, committed>>
    BY <1>4, <2>1 DEF HNext, RInv, LoopInv, Free
  <2> QED BY <1>2, <2>2, StutterSimulation DEF Simulated, RInv
<1>5. CASE UNCHANGED <<vars, committed>>
  BY <1>2, <1>5, StutterSimulation DEF Simulated, RInv
<1> QED BY <1>3, <1>4, <1>5

\* Whatever the threads, the element type, the capacity and the calls, what
\* the callers of the ring see is what a bounded FIFO that drops its oldest
\* elements would have shown them: push, the pops, both peeks, stop and the
\* questions of lines 124-404 take effect at once and in one order, up to
\* and without the calls of peek(delay) that leave a moved-from element.
THEOREM RingOfAnyType ==
  ASSUME RecordEvents
  PROVE  HSpec /\ [][PeekKeeps]_vars => ImplementsLossyFifo
<1>1. HInit => RInv /\ Fifo!Init
  BY InitRefinement
<1>2. RInv /\ [HNext]_<<vars, committed>> /\ [PeekKeeps]_vars
        => RInv' /\ [Fifo!Next]_(Fifo!vars)
  BY StepRefinement
<1> QED BY <1>1, <1>2, PTL DEF HSpec, ImplementsLossyFifo, Fifo!Spec

\* So it is for the types the repository puts in its buffers (int and
\* PacketInfo), which std::move only copies, peek(delay) included.
THEOREM RingImplementsFifo ==
  ASSUME RecordEvents, ~MoveEmpties
  PROVE  HSpec => ImplementsLossyFifo
<1>1. [PeekKeeps]_vars
  BY CopiesKeep
<1> QED BY <1>1, RingOfAnyType, PTL

-----------------------------------------------------------------------------
(* What a consumer is handed was pushed *)

\* The elements in the ring, those in the out vector of a batch pop and those
\* handed out last are elements: none is what resize filled the slots with,
\* none is what a move left behind.
ElementInv ==
  /\ Contents \in Seq(Values)
  /\ out \in Seq(Values)
  /\ NoPhantomElement

LEMMA NewestType ==
  ASSUME NEW S, NEW s \in Seq(S), sz \in Nat \ {0}
  PROVE  Fifo!Newest(s) \in Seq(S)
<1>1. CASE Len(s) <= sz - 1
  BY <1>1 DEF Fifo!Newest
<1>2. CASE ~(Len(s) <= sz - 1)
  <2>1. Len(s) - (sz - 1) \in 0..Len(s)
    BY <1>2
  <2>2. SubSeq(s, (Len(s) - (sz - 1)) + 1, Len(s)) \in Seq(S)
    BY <2>1, Dropped
  <2> QED BY <1>2, <2>2 DEF Fifo!Newest
<1> QED BY <1>1, <1>2

LEMMA StoreElements ==
  ASSUME IInv, IInv', ElementInv, NEW element \in Values, Store(element), sz' = sz
  PROVE  Contents' \in Seq(Values)
<1>1. Append(Contents, element) \in Seq(Values) /\ sz \in Nat \ {0}
  BY Appended, SizePositive DEF ElementInv, IInv
<1>2. Contents' = Fifo!Newest(Append(Contents, element))
  BY StoreContents DEF IInv, Slots
<1> QED BY <1>1, <1>2, NewestType

\* The front slot of a ring that is not drained holds an element, and what
\* is left when it goes does too.
LEMMA FrontElement ==
  ASSUME IInv, ElementInv, ~IsDrained
  PROVE  <<buffer_[startIndex_]>> \in Seq(Values) /\ buffer_[startIndex_] \in Values
<1>1. Contents # <<>> /\ Head(Contents) = buffer_[startIndex_]
  BY FrontFacts DEF IInv
<1>2. Head(Contents) \in Values
  BY <1>1 DEF ElementInv
<1> QED BY <1>1, <1>2

LEMMA TakeFrontElements ==
  ASSUME IInv, IInv', ElementInv, TakeFront, ~IsDrained, sz' = sz
  PROVE  Contents' \in Seq(Values)
<1>1. Contents # <<>> /\ Contents' = Tail(Contents)
  BY FrontFacts, TakeFrontContents DEF IInv
<1> QED BY <1>1 DEF ElementInv

\* A call that returns elements, and one that returns something else.
LEMMA ReturnElements ==
  ASSUME NoPhantomElement, NEW t, NEW c, NEW o \in Seq(Values), NEW padding,
         Return(t, c, o, padding)
  PROVE  NoPhantomElement'
<1>1. \/ UNCHANGED event
      \/ event' = [op |-> c.op, timed |-> c.timed, max |-> c.max,
                   out |-> o, padding |-> padding]
  BY DEF Return, Completes
<1>2. \A k \in DOMAIN o : o[k] \in Values
  OBVIOUS
<1> QED BY <1>1, <1>2 DEF NoPhantomElement

LEMMA NoElements ==
  ASSUME NoPhantomElement, NEW e, "out" \notin DOMAIN e, Completes(e)
  PROVE  NoPhantomElement'
BY DEF NoPhantomElement, Completes

LEMMA AttemptElements ==
  ASSUME PeekKeeps, IInv, IInv', ElementInv,
         NEW t \in Consumers, NEW c \in Calls \cup {NoCall}, Attempt(t, c)
  PROVE  ElementInv'
<1>1. out' = out /\ sz' = sz
  BY DEF Attempt, locals
<1>2. <<>> \in Seq(Values)
  OBVIOUS
<1>3. CASE ReturnStopped(t, c)
  BY <1>1, <1>2, <1>3, SameContents, ReturnElements DEF ReturnStopped, ElementInv
<1>4. CASE WaitForElement(t, c)
  BY <1>1, <1>4, SameContents
     DEF WaitForElement, Block, ElementInv, NoPhantomElement
<1>5. CASE TakeOne(t, c)
  <2>1. Contents' \in Seq(Values)
    BY <1>1, <1>5, TakeFrontElements DEF TakeOne
  <2>2. NoPhantomElement'
    BY <1>5, FrontElement, ReturnElements DEF TakeOne, ElementInv
  <2> QED BY <1>1, <2>1, <2>2 DEF ElementInv
<1>6. CASE PeekFront(t, c)
  <2>1. UNCHANGED ring
    <3>1. c \in Calls
      BY <1>6 DEF PeekFront, NoCall
    <3> QED BY <1>6, <3>1 DEF PeekFront, PeekKeeps, ring
  <2>2. NoPhantomElement'
    BY <1>6, FrontElement, ReturnElements DEF PeekFront, ElementInv
  <2> QED BY <1>1, <2>1, <2>2, SameContents DEF ElementInv
<1>7. CASE TakeBatch(t, c)
  BY <1>1, <1>7, SameContents DEF TakeBatch, ElementInv, NoPhantomElement
<1> QED BY <1>3, <1>4, <1>5, <1>6, <1>7 DEF Attempt

LEMMA ElementInvariant ==
  IInv /\ IInv' /\ ElementInv /\ [Next]_vars /\ [PeekKeeps]_vars => ElementInv'
<1> SUFFICES ASSUME IInv, IInv', ElementInv, [Next]_vars, [PeekKeeps]_vars
             PROVE  ElementInv'
  OBVIOUS
<1>1. ASSUME NEW t \in Producers, NEW v \in Values, Push(t, v) PROVE ElementInv'
  <2>1. Contents' \in Seq(Values) /\ out' = out
    BY <1>1, StoreElements DEF Push, locals
  <2>2. NoPhantomElement'
    BY <1>1, NoElements DEF Push, ElementInv
  <2> QED BY <2>1, <2>2 DEF ElementInv
<1>2. ASSUME NEW t \in Producers, NEW s, PushStopped(t, s) PROVE ElementInv'
  <2>1. Contents' = Contents /\ out' = out
    BY <1>2, SameContents DEF PushStopped, locals
  <2>2. NoPhantomElement'
    BY <1>2, NoElements DEF PushStopped, ElementInv
  <2> QED BY <2>1, <2>2 DEF ElementInv
<1>3. ASSUME NEW t \in Producers, NEW s \in Spans, PushSpan(t, s) PROVE ElementInv'
  BY <1>3, SameContents DEF PushSpan, ElementInv, NoPhantomElement
<1>4. ASSUME NEW t \in Producers, PushSpanStep(t) PROVE ElementInv'
  <2>1. elements[stored + 1] \in Values
    BY <1>4 DEF PushSpanStep, IInv, TypeOK
  <2>2. Contents' \in Seq(Values)
    BY <1>4, <2>1, StoreElements DEF PushSpanStep
  <2> QED BY <1>4, <2>2 DEF PushSpanStep, ElementInv, NoPhantomElement
<1>5. ASSUME NEW t \in Producers, PushSpanReturn(t) PROVE ElementInv'
  <2>1. Contents' = Contents /\ out' = out
    BY <1>5, SameContents DEF PushSpanReturn
  <2>2. NoPhantomElement'
    BY <1>5, NoElements DEF PushSpanReturn, ElementInv
  <2> QED BY <2>1, <2>2 DEF ElementInv
<1>6. ASSUME NEW t \in Consumers, NEW c \in Calls \cup {NoCall}, Attempt(t, c),
             PeekKeeps
      PROVE  ElementInv'
  BY <1>6, AttemptElements
<1>7. ASSUME NEW t \in Consumers, ReturnExpired(t) PROVE ElementInv'
  <2>1. Contents' = Contents /\ out' = out
    BY <1>7, SameContents DEF ReturnExpired, locals
  <2>2. <<>> \in Seq(Values)
    OBVIOUS
  <2>3. NoPhantomElement'
    BY <1>7, <2>2, ReturnElements DEF ReturnExpired, ElementInv
  <2> QED BY <2>1, <2>3 DEF ElementInv
<1>8. ASSUME NEW t \in Consumers, TakeBatchStep(t) PROVE ElementInv'
  <2>1. Contents' \in Seq(Values)
    BY <1>8, TakeFrontElements DEF TakeBatchStep
  <2>2. out' \in Seq(Values)
    BY <1>8, FrontElement DEF TakeBatchStep, ElementInv
  <2> QED BY <1>8, <2>1, <2>2 DEF TakeBatchStep, ElementInv, NoPhantomElement
<1>9. ASSUME NEW t \in Consumers, TakeBatchReturn(t) PROVE ElementInv'
  <2>1. Contents' = Contents /\ out' = <<>>
    BY <1>9, SameContents DEF TakeBatchReturn
  <2>2. NoPhantomElement'
    BY <1>9, ReturnElements DEF TakeBatchReturn, ElementInv
  <2> QED BY <2>1, <2>2 DEF ElementInv
<1>10. ASSUME NEW t \in Consumers,
              SpuriousWake(t) \/ \E from \in {"waiting", "woken"} : Expire(t, from)
       PROVE  ElementInv'
  BY <1>10, SameContents
     DEF SpuriousWake, Expire, locals, ElementInv, NoPhantomElement
<1>11. ASSUME NEW t \in Threads, Peek(t) PROVE ElementInv'
  <2>1. Contents' = Contents /\ out' = out
    BY <1>11, SameContents DEF Peek, locals
  <2>2. CASE UNCHANGED event
    BY <2>1, <2>2 DEF ElementInv, NoPhantomElement
  <2>3. CASE event' = [op |-> "peekNow",
                       out |-> IF active_ /\ ~IsDrained
                               THEN <<buffer_[startIndex_]>> ELSE <<>>]
    <3>1. event'.out \in Seq(Values)
      BY <2>3, FrontElement
    <3> QED BY <2>1, <3>1 DEF ElementInv, NoPhantomElement
  <2> QED BY <1>11, <2>2, <2>3 DEF Peek, Completes
<1>12. ASSUME NEW t \in Threads, Stop(t) \/ IsEmpty(t) \/ IsFull(t) \/ IsActive(t)
       PROVE  ElementInv'
  <2>1. Contents' = Contents /\ out' = out
    BY <1>12, SameContents DEF Stop, IsEmpty, IsFull, IsActive, locals
  <2>2. NoPhantomElement'
    BY <1>12, NoElements DEF Stop, IsEmpty, IsFull, IsActive, ElementInv
  <2> QED BY <2>1, <2>2 DEF ElementInv
<1>13. CASE UNCHANGED vars
  BY <1>13, SameContents DEF vars, locals, ElementInv, NoPhantomElement
<1>14. CASE Next /\ PeekKeeps
  <2>1. ASSUME NEW t \in Producers, Produce(t) PROVE ElementInv'
    BY <1>1, <1>2, <1>3, <1>4, <1>5, <2>1 DEF Produce
  <2>2. ASSUME NEW t \in Consumers, Consume(t) PROVE ElementInv'
    <3>1. call[t] \in Calls \cup {NoCall}
      BY DEF IInv, TypeOK, Threads
    <3> QED BY <1>6, <1>7, <1>8, <1>9, <1>10, <1>14, <2>2, <3>1
            DEF Consume, Enter, Resume
  <2>3. ASSUME NEW t \in Threads, Observe(t) PROVE ElementInv'
    BY <1>11, <1>12, <2>3 DEF Observe
  <2> QED BY <1>14, <2>1, <2>2, <2>3 DEF Next
<1> QED BY <1>13, <1>14

\* No call hands out a slot that no push has filled: neither T{}, with which
\* resize fills them, nor what is left of an element that was moved out by a
\* pop (lines 136-141, 161-166, 186-187, 231-232, 263-264, 294-295, 331-332).
\* What breaks it is peek(delay) with a type that does not survive its move
\* (line 210), and nothing else.
THEOREM OnlyPeekLeavesPhantoms ==
  Spec /\ [][PeekKeeps]_vars => []NoPhantomElement
<1>1. Init => ElementInv
  <2> SUFFICES ASSUME Init PROVE ElementInv
    OBVIOUS
  <2>1. Contents = <<>>
    BY InitIInv, FrontFacts DEF IInv, Init, IsDrained
  <2> QED BY <2>1 DEF Init, ElementInv, NoPhantomElement
<1>2. IInv /\ IInv' /\ ElementInv /\ [Next]_vars /\ [PeekKeeps]_vars => ElementInv'
  BY ElementInvariant
<1>3. ElementInv => NoPhantomElement
  BY DEF ElementInv
<1> QED BY <1>1, <1>2, <1>3, Inductive, PTL DEF Spec

\* The types of the repository survive it: with them every call hands out
\* what was pushed (lines 136-141, 210, 231-232, 263-264, 294-295, 331-332).
THEOREM HandsOutElements ==
  ASSUME ~MoveEmpties PROVE Spec => []NoPhantomElement
<1>1. [PeekKeeps]_vars
  BY CopiesKeep
<1> QED BY <1>1, OnlyPeekLeavesPhantoms, PTL
=============================================================================

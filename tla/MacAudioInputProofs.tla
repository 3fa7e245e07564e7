----------------------- MODULE MacAudioInputProofs -----------------------
(***************************************************************************)
(* Proofs about MacAudioInput, for every size of the ring, of the packets  *)
(* and of the samples asked for.                                           *)
(***************************************************************************)
EXTENDS MacAudioInput, TLAPS

\* An empty ring of length zero has no room for any packet.
LEMMA NoRoomAtFirst ==
  ASSUME NEW n \in Packets, length = 0, fillCount = 0
  PROVE  ~HasRoom(n)
BY SizesAssumption DEF HasRoom

\* The initial states satisfy the invariant.
LEMMA InitIInv == Init => IInv
BY SizesAssumption, SaturationAssumption
DEF Init, IInv, TypeOK, SetupInv, HasRing, WritesToReadyRing, ReadsWhatIsThere

\* Every step keeps it: one step of the proof per action.
LEMMA NextIInv == IInv /\ [Next]_vars => IInv'
<1> SUFFICES ASSUME IInv, [Next]_vars PROVE IInv'
  OBVIOUS
<1> USE SizesAssumption, SaturationAssumption
    DEF IInv, TypeOK, SetupInv, WritesToReadyRing, ReadsWhatIsThere,
        ring, sampler, Goto, HasRing, Delivering, SignalIsFreed, RingIsFreed
<1>1. CASE SetupFails \/ AddInput \/ StartRunning \/ CreateSignal
  BY <1>1 DEF SetupFails, AddInput, StartRunning, CreateSignal
<1>2. CASE InitRing
  BY <1>2 DEF InitRing
<1>3. ASSUME NEW c \in Callbacks, NEW n \in Packets, Deliver(c, n) PROVE IInv'
  <2>1. packet' \in [Callbacks -> Packets \cup {0}]
    BY <1>3 DEF Deliver
  <2>2. \A d \in Callbacks : pc'[d] # "idle" => packet'[d] \in Packets
    BY <1>3 DEF Deliver
  <2> QED BY <1>3, <2>1, <2>2 DEF Deliver
<1>4. ASSUME NEW c \in Callbacks, FindRoom(c) PROVE IInv'
  <2>1. HasRoom(packet[c]) => stage = "ready"
    BY <1>4, NoRoomAtFirst DEF FindRoom
  <2> QED BY <1>4, <2>1 DEF FindRoom
<1>5. ASSUME NEW c \in Callbacks, Produce(c) PROVE IInv'
  <2>1. stage = "ready" /\ packet[c] \in Nat
    BY <1>5 DEF Produce
  <2>2. fillCount' \in 0..Saturation /\ fillCount' >= fillCount
    BY <1>5, <2>1 DEF Produce, Smaller
  <2>3. place = "copy" => fillCount' >= need
    BY <2>1, <2>2
  <2> QED BY <1>5, <2>1, <2>2, <2>3 DEF Produce
<1>6. ASSUME NEW c \in Callbacks, Signal(c) PROVE IInv'
  BY <1>6 DEF Signal, Finish
<1>7. ASSUME NEW n \in Needs, Sample(n) PROVE IInv'
  BY <1>7 DEF Sample
<1>8. CASE Look
  BY <1>8 DEF Look
<1>9. CASE Sleep
  BY <1>9 DEF Sleep
<1>10. CASE CopyOut
  <2>1. fillCount' \in 0..Saturation
    BY <1>10 DEF CopyOut
  <2> QED BY <1>10, <2>1 DEF CopyOut
<1>11. CASE WakeForNothing
  BY <1>11 DEF WakeForNothing
<1>12. CASE Disconnect \/ SignalLast \/ ReleaseSignal
  BY <1>12 DEF Disconnect, SignalLast, ReleaseSignal
<1>13. CASE CleanUp
  BY <1>13 DEF CleanUp
<1>14. CASE UNCHANGED vars
  BY <1>14 DEF vars
<1> QED
  BY <1>1, <1>2, <1>3, <1>4, <1>5, <1>6, <1>7, <1>8, <1>9, <1>10, <1>11, <1>12,
     <1>13, <1>14
  DEF Next, Setup, Dealloc, Audio, Runs, Sampling

\* The inductive invariant of capture on macOS: any number of callbacks may be
\* under way, on a queue as concurrent as line 107 of CaptureDevice.m makes it.
THEOREM Inductive == Spec => []IInv
BY InitIInv, NextIInv, PTL DEF Spec

\* sample() copies only what is in the ring (MacAudioInput.mm, lines 35-45).
THEOREM ReadIsSafe == Spec => []ReadsWhatIsThere
<1>1. IInv => ReadsWhatIsThere
  BY DEF IInv
<1> QED BY <1>1, Inductive, PTL

-----------------------------------------------------------------------------
(* The race of the callbacks *)

\* A callback finds room while another is between its own finding and writing:
\* the two halves of TPCircularBufferProduceBytes interleave.
Races ==
  \E c, d \in Callbacks :
    c # d /\ FindRoom(c) /\ HasRoom(packet[c]) /\ pc[d] = "produce"

OneProducer == \A c, d \in Callbacks : pc[c] = "produce" /\ pc[d] = "produce" => c = d

\* What has found room keeps it, since nobody else adds to the ring meanwhile.
AloneInv == RoomInv /\ OneProducer

LEMMA NextAloneInv == IInv /\ AloneInv /\ [Next]_vars /\ ~Races => AloneInv'
<1> SUFFICES ASSUME IInv, AloneInv, [Next]_vars, ~Races PROVE AloneInv'
  OBVIOUS
<1> USE SizesAssumption, SaturationAssumption
    DEF IInv, TypeOK, SetupInv, WritesToReadyRing, ReadsWhatIsThere, RoomInv,
        AloneInv, OneProducer, ring, sampler, Goto, HasRing, Delivering, SignalIsFreed, RingIsFreed
<1>1. CASE SetupFails \/ AddInput \/ StartRunning \/ CreateSignal
  BY <1>1 DEF SetupFails, AddInput, StartRunning, CreateSignal
<1>2. CASE InitRing
  BY <1>2 DEF InitRing
<1>3. ASSUME NEW c \in Callbacks, NEW n \in Packets, Deliver(c, n) PROVE AloneInv'
  BY <1>3 DEF Deliver
<1>4. ASSUME NEW c \in Callbacks, FindRoom(c) PROVE AloneInv'
  <2>1. CASE HasRoom(packet[c])
    <3>1. fillCount + packet[c] <= length
      BY <1>4, <2>1 DEF FindRoom, HasRoom
    <3>2. \A d \in Callbacks : pc[d] = "produce" => d = c
      BY <1>4, <2>1 DEF Races
    <3>3. pc' = [pc EXCEPT ![c] = "produce"] /\ UNCHANGED <<length, fillCount, packet>>
      BY <1>4, <2>1 DEF FindRoom
    <3> QED BY <3>1, <3>2, <3>3
  <2>2. CASE ~HasRoom(packet[c])
    BY <1>4, <2>2 DEF FindRoom
  <2> QED BY <2>1, <2>2
<1>5. ASSUME NEW c \in Callbacks, Produce(c) PROVE AloneInv'
  <2>1. fillCount' <= length
    BY <1>5 DEF Produce, Smaller
  <2>2. \A d \in Callbacks : pc'[d] # "produce"
    BY <1>5 DEF Produce
  <2> QED BY <1>5, <2>1, <2>2 DEF Produce
<1>6. ASSUME NEW c \in Callbacks, Signal(c) PROVE AloneInv'
  BY <1>6 DEF Signal, Finish
<1>7. ASSUME NEW n \in Needs, Sample(n) PROVE AloneInv'
  BY <1>7 DEF Sample
<1>8. CASE Look
  BY <1>8 DEF Look
<1>9. CASE Sleep
  BY <1>9 DEF Sleep
<1>10. CASE CopyOut
  <2>1. need \in Nat
    OBVIOUS
  <2>2. fillCount' <= fillCount
    BY <1>10, <2>1 DEF CopyOut
  <2> QED BY <1>10, <2>1, <2>2 DEF CopyOut
<1>11. CASE WakeForNothing
  BY <1>11 DEF WakeForNothing
<1>12. CASE Disconnect \/ SignalLast \/ ReleaseSignal
  BY <1>12 DEF Disconnect, SignalLast, ReleaseSignal
<1>13. CASE CleanUp
  BY <1>13 DEF CleanUp
<1>14. CASE UNCHANGED vars
  BY <1>14 DEF vars
<1> QED
  BY <1>1, <1>2, <1>3, <1>4, <1>5, <1>6, <1>7, <1>8, <1>9, <1>10, <1>11, <1>12,
     <1>13, <1>14
  DEF Next, Setup, Dealloc, Audio, Runs, Sampling

\* The ring never counts more than it holds unless two callbacks race in it: only
\* because the queue of line 107 of CaptureDevice.m is concurrent, and there only
\* because a callback that finds room may be overtaken before it writes (line 149).
\* Any number of callbacks may be under way otherwise.
THEOREM OnlyRacingOverfills == Spec /\ [][~Races]_vars => []NotOverfull
<1>1. Init => AloneInv
  BY DEF Init, AloneInv, RoomInv, OneProducer
<1>2. IInv /\ AloneInv /\ [Next]_vars /\ [~Races]_vars => AloneInv'
  <2>1. ASSUME AloneInv, UNCHANGED vars PROVE AloneInv'
    BY <2>1 DEF AloneInv, RoomInv, OneProducer, vars, ring
  <2> QED BY <2>1, NextAloneInv
<1>3. AloneInv => NotOverfull
  BY DEF AloneInv, RoomInv, NotOverfull
<1> QED BY <1>1, <1>2, <1>3, Inductive, PTL DEF Spec

-----------------------------------------------------------------------------
(* Whole frames *)

\* Multiples of the number of channels, with the quotient as a witness.
LEMMA MultipleHasQuotient ==
  ASSUME NEW k \in Nat \ {0}, NEW n \in Nat, n % k = 0
  PROVE  \E q \in Nat : n = q * k
<1>1. n = (n \div k) * k /\ n \div k \in Nat
  OBVIOUS
<1> QED BY <1>1

LEMMA ProductIsMultiple ==
  ASSUME NEW k \in Nat \ {0}, NEW q \in Nat, NEW n \in Nat, n = q * k
  PROVE  n % k = 0
OBVIOUS

LEMMA SumIsMultiple ==
  ASSUME NEW k \in Nat \ {0}, NEW m \in Nat, NEW n \in Nat, m % k = 0, n % k = 0
  PROVE  (m + n) % k = 0
<1>1. PICK q \in Nat : m = q * k
  BY MultipleHasQuotient
<1>2. PICK r \in Nat : n = r * k
  BY MultipleHasQuotient
<1>3. m + n = (q + r) * k /\ q + r \in Nat /\ m + n \in Nat
  BY <1>1, <1>2
<1> QED BY <1>3, ProductIsMultiple

LEMMA DifferenceIsMultiple ==
  ASSUME NEW k \in Nat \ {0}, NEW m \in Nat, NEW n \in Nat, n <= m,
         m % k = 0, n % k = 0
  PROVE  (m - n) % k = 0
<1>1. PICK q \in Nat : m = q * k
  BY MultipleHasQuotient
<1>2. PICK r \in Nat : n = r * k
  BY MultipleHasQuotient
<1>3. r <= q
  BY <1>1, <1>2
<1>4. m - n = (q - r) * k /\ q - r \in Nat /\ m - n \in Nat
  BY <1>1, <1>2, <1>3
<1> QED BY <1>4, ProductIsMultiple

\* The session delivers whole frames and the owner asks for whole frames; the
\* bound of the model is one.  The ring, in whole pages, need not be.
WholeFrames == \A n \in Packets \cup Needs \cup {Saturation} : n % Channels = 0

LEMMA NextWholeFrames ==
  ASSUME WholeFrames
  PROVE  IInv /\ HoldsWholeFrames /\ [Next]_vars => HoldsWholeFrames'
<1> SUFFICES ASSUME IInv, HoldsWholeFrames, [Next]_vars
             PROVE  HoldsWholeFrames'
  OBVIOUS
<1>1. Channels \in Nat \ {0} /\ fillCount \in Nat
  BY SizesAssumption, SaturationAssumption DEF IInv, TypeOK
<1>2. 0 % Channels = 0
  BY <1>1
<1>3. ASSUME NEW c \in Callbacks, Produce(c) PROVE HoldsWholeFrames'
  <2>1. packet[c] \in Packets /\ packet[c] \in Nat
    BY <1>3, SizesAssumption DEF Produce, IInv, SetupInv
  <2>2. (fillCount + packet[c]) % Channels = 0
    BY <1>1, <2>1, WholeFrames, SumIsMultiple DEF WholeFrames, HoldsWholeFrames
  <2>3. Saturation % Channels = 0
    BY WholeFrames DEF WholeFrames
  <2>4. fillCount' \in {Saturation, fillCount + packet[c]}
    BY <1>3 DEF Produce, Smaller
  <2> QED BY <2>2, <2>3, <2>4 DEF HoldsWholeFrames
<1>4. CASE CopyOut
  <2>1. CASE fillCount' = fillCount
    BY <2>1 DEF HoldsWholeFrames
  <2>2. CASE ~RingIsFreed
    <3>1. need \in Nat /\ need <= fillCount
      BY <1>4, <2>2, SizesAssumption DEF CopyOut, IInv, TypeOK, ReadsWhatIsThere
    <3>2. need % Channels = 0
      BY <1>2, WholeFrames DEF WholeFrames, IInv, TypeOK
    <3>3. (fillCount - need) % Channels = 0
      BY <1>1, <3>1, <3>2, DifferenceIsMultiple DEF HoldsWholeFrames
    <3> QED BY <1>4, <2>2, <3>3 DEF CopyOut, HoldsWholeFrames
  <2> QED BY <1>4, <2>1, <2>2 DEF CopyOut
<1>5. CASE fillCount' = 0 \/ UNCHANGED fillCount
  BY <1>2, <1>5 DEF HoldsWholeFrames
<1>6. \/ \E c \in Callbacks : Produce(c)
      \/ CopyOut
      \/ fillCount' = 0 \/ UNCHANGED fillCount
  BY DEF Next, vars, ring, Setup, SetupFails, AddInput, StartRunning, CreateSignal,
         InitRing, Disconnect, Dealloc, SignalLast, ReleaseSignal, CleanUp, Audio,
         Deliver, Runs, FindRoom, Signal, Sample, Sampling, Look, Sleep,
         WakeForNothing
<1> QED BY <1>3, <1>4, <1>5, <1>6

\* Packets that find no room are dropped whole (CaptureDevice.m, the result of
\* the produce call is ignored) and sample() consumes what it copied
\* (MacAudioInput.mm, lines 40-45): the ring never holds part of a frame, for
\* any number of channels and any size of the ring.
THEOREM FramesStayWhole ==
  ASSUME WholeFrames PROVE Spec => []HoldsWholeFrames
<1>1. Init => HoldsWholeFrames
  <2>1. 0 % Channels = 0
    BY SizesAssumption
  <2> QED BY <2>1 DEF Init, HoldsWholeFrames
<1>2. IInv /\ HoldsWholeFrames /\ [Next]_vars => HoldsWholeFrames'
  BY NextWholeFrames
<1> QED BY <1>1, <1>2, Inductive, PTL DEF Spec

-----------------------------------------------------------------------------
(* The promise of IAudioInput *)

\* The owner destroys only what nobody samples.
Careful == ReleasedAt \subseteq {"idle"}

\* Then no call is under way once dealloc has begun; and a call has a size.
CallInv ==
  /\ stage \in {"disconnected", "signalled", "released", "gone"} => place = "idle"
  /\ place = "idle" <=> need = 0

LEMMA NextCallInv ==
  ASSUME Careful
  PROVE  IInv /\ CallInv /\ [Next]_vars => CallInv'
<1> SUFFICES ASSUME IInv, CallInv, [Next]_vars PROVE CallInv'
  OBVIOUS
<1> USE SizesAssumption
    DEF IInv, TypeOK, CallInv, ring, sampler, Goto, Delivering
<1>1. CASE Setup
  BY <1>1 DEF Setup, SetupFails, AddInput, StartRunning, CreateSignal, InitRing
<1>2. ASSUME NEW c \in Callbacks, Audio(c) \/ Runs(c) PROVE CallInv'
  BY <1>2 DEF Audio, Runs, Deliver, FindRoom, Produce, Signal, Finish
<1>3. ASSUME NEW n \in Needs, Sample(n) PROVE CallInv'
  BY <1>3 DEF Sample
<1>4. CASE Sampling \/ WakeForNothing
  BY <1>4 DEF Sampling, Look, Sleep, CopyOut, WakeForNothing
<1>5. CASE Disconnect \/ Dealloc
  BY <1>5, Careful
     DEF Careful, Disconnect, Dealloc, SignalLast, ReleaseSignal, CleanUp
<1>6. CASE UNCHANGED vars
  BY <1>6 DEF vars
<1> QED BY <1>1, <1>2, <1>3, <1>4, <1>5, <1>6 DEF Next

\* Every step of the capture is one of the promise, or none it can see.
LEMMA StepImplements ==
  ASSUME Careful
  PROVE  IInv /\ CallInv /\ [Next]_vars => [Source!Step]_(Source!sourceVars)
<1> SUFFICES ASSUME IInv, CallInv, [Next]_vars
             PROVE  Source!Step \/ UNCHANGED Source!sourceVars
  OBVIOUS
<1> USE SizesAssumption, SaturationAssumption
    DEF IInv, TypeOK, SetupInv, WritesToReadyRing, ReadsWhatIsThere, CallInv,
        ring, sampler, Goto, HasRing, Delivering, RingIsFreed, SignalIsFreed,
        Source!sourceVars
<1>1. CASE Setup
  BY <1>1 DEF Setup, SetupFails, AddInput, StartRunning, CreateSignal, InitRing
<1>2. ASSUME NEW c \in Callbacks, Audio(c) \/ FindRoom(c) \/ Signal(c)
      PROVE  UNCHANGED Source!sourceVars
  BY <1>2 DEF Audio, Deliver, FindRoom, Signal, Finish
<1>3. ASSUME NEW c \in Callbacks, Produce(c)
      PROVE  Source!Capture \/ UNCHANGED Source!sourceVars
  BY <1>3 DEF Produce, Smaller, Source!Capture
<1>4. ASSUME NEW n \in Needs, Sample(n) PROVE Source!Ask("sampler", n)
  BY <1>4 DEF Sample, Source!Ask
<1>5. ASSUME CopyOut PROVE Source!Fill("sampler")
  BY <1>5 DEF CopyOut, Source!Fill, Source!Answer
<1>6. CASE Look \/ Sleep \/ WakeForNothing \/ Disconnect \/ SignalLast \/ ReleaseSignal
  BY <1>6 DEF Look, Sleep, WakeForNothing, Disconnect, SignalLast, ReleaseSignal
<1>7. ASSUME CleanUp PROVE Source!Close
  BY <1>7 DEF CleanUp, Source!Close
<1>8. CASE UNCHANGED vars
  BY <1>8 DEF vars
<1> QED
  BY <1>1, <1>2, <1>3, <1>4, <1>5, <1>6, <1>7, <1>8
  DEF Next, Runs, Sampling, Dealloc, Source!Step

\* MacAudioInput implements IAudioInput's promise for every number of
\* callbacks and every size, if it is destroyed only while nobody samples.
THEOREM KeepsPromise == ASSUME Careful PROVE Spec => ImplementsAudioSource
<1>1. Init => CallInv
  BY DEF Init, CallInv
<1>2. Init => Source!Start
  BY DEF Init, Source!Start, RingIsFreed
<1>3. IInv /\ CallInv /\ [Next]_vars => CallInv'
  BY NextCallInv
<1>4. IInv /\ CallInv /\ [Next]_vars => [Source!Step]_(Source!sourceVars)
  BY StepImplements
<1> QED
  BY <1>1, <1>2, <1>3, <1>4, Inductive, PTL
  DEF Spec, ImplementsAudioSource, Source!Promise
=============================================================================

--------------------- MODULE WasapiAudioInputProofs ---------------------
(***************************************************************************)
(* Proofs about WasapiAudioInput, for every size of the endpoint, of the   *)
(* frame and of the samples asked for, and one thread that samples.        *)
(***************************************************************************)
EXTENDS WasapiAudioInput, TLAPS

OneCaller == \A t, u \in Callers : t = u

LEMMA BufferFacts ==
  /\ BufferSize \in Nat
  /\ FrameSize + Frames <= BufferSize
BY SizesAssumption DEF BufferSize, Larger

\* The types rest on the other two: the queue of the endpoint stays a number
\* because no caller releases more than it took, and bufferPos_ stays inside the
\* buffer because no caller takes more than it counted.
TypeInv == TypeOK /\ PacketInv
IInv    == TypeInv /\ BufferInv

LEMMA TypeInvariant == IInv /\ [Next]_vars => TypeInv'
<1> SUFFICES ASSUME IInv, [Next]_vars PROVE TypeInv'
  OBVIOUS
<1> USE SizesAssumption, BurstAssumption
    DEF IInv, TypeInv, TypeOK, PacketInv, object, endpoint, caller, Goto, Return
<1>1. ASSUME NEW t \in Callers, NEW n \in Needs, Sample(t, n) PROVE TypeInv'
  BY <1>1, NeedsAssumption DEF Sample
<1>2. ASSUME NEW t \in Callers, Check(t) PROVE TypeInv'
  BY <1>2 DEF Check
<1>3. ASSUME NEW t \in Callers, CopyOut(t) PROVE TypeInv'
  <2>1. bufferPos_' \in 0..BufferSize
    BY <1>3, BufferFacts DEF CopyOut, BufferInv
  <2> QED BY <1>3, <2>1 DEF CopyOut
<1>4. ASSUME NEW t \in Callers, ReportDefaultChange(t) PROVE TypeInv'
  <2>1. defaultDeviceChanged_' \in BOOLEAN
    BY <1>4, Zenon DEF ReportDefaultChange
  <2> QED BY <1>4, <2>1 DEF ReportDefaultChange
<1>5. ASSUME NEW t \in Callers, NoDefaultChange(t) PROVE TypeInv'
  BY <1>5 DEF NoDefaultChange
<1>6. ASSUME NEW t \in Callers, AwaitEvent(t) PROVE TypeInv'
  <2>1. audioEvent_' \in BOOLEAN
    BY <1>6, Zenon DEF AwaitEvent
  <2> QED BY <1>6, <2>1 DEF AwaitEvent
<1>7. ASSUME NEW t \in Callers, AwaitTimeout(t) PROVE TypeInv'
  BY <1>7 DEF AwaitTimeout
<1>8. ASSUME NEW t \in Callers, NextPacket(t) PROVE TypeInv'
  BY <1>8 DEF NextPacket
<1>9. ASSUME NEW t \in Callers, GetBuffer(t) PROVE TypeInv'
  <2>1. PICK n \in 1..queued : packet' = [packet EXCEPT ![t] = n]
    BY <1>9 DEF GetBuffer
  <2>2. packet' \in [Callers -> 0..Frames]
    BY <2>1
  <2> QED BY <1>9, <2>1, <2>2 DEF GetBuffer
<1>10. ASSUME NEW t \in Callers, StorePacket(t) PROVE TypeInv'
  <2>1. bufferPos_' \in 0..BufferSize
    BY <1>10, BufferFacts DEF StorePacket, Smaller
  <2>2. queued' \in 0..Frames
    BY <1>10 DEF StorePacket
  <2>3. packet' \in [Callers -> 0..Frames] /\ \A u \in Callers : pc'[u] # "store"
    BY <1>10 DEF StorePacket
  <2> QED BY <1>10, <2>1, <2>2, <2>3 DEF StorePacket
<1>11. ASSUME NEW t \in Callers, DeviceInvalidated(t) PROVE TypeInv'
  BY <1>11 DEF DeviceInvalidated
<1>12. ASSUME NEW t \in Callers, CaptureFails(t) PROVE TypeInv'
  BY <1>12 DEF CaptureFails
<1>13. ASSUME NEW n \in 1..Frames, Arrive(n) PROVE TypeInv'
  BY <1>13 DEF Arrive, Smaller
<1>14. ASSUME Unplug PROVE TypeInv'
  BY <1>14 DEF Unplug
<1>15. ASSUME NEW flow, OnDefaultDeviceChanged(flow) PROVE TypeInv'
  BY <1>15 DEF OnDefaultDeviceChanged
<1>16. CASE UNCHANGED vars
  BY <1>16 DEF vars
<1> QED
  BY <1>1, <1>2, <1>3, <1>4, <1>5, <1>6, <1>7, <1>8, <1>9, <1>10, <1>11, <1>12,
     <1>13, <1>14, <1>15, <1>16
     DEF Next, System, Calls, Runs

LEMMA InitType == Init => TypeInv
<1> SUFFICES ASSUME Init PROVE TypeInv
  OBVIOUS
<1>1. /\ defaultDeviceChanged_ \in BOOLEAN /\ audioEvent_ \in BOOLEAN
      /\ plugged \in BOOLEAN /\ isDefault \in BOOLEAN
  BY Zenon DEF Init
<1> QED BY <1>1, BufferFacts, SizesAssumption, BurstAssumption
        DEF Init, TypeInv, TypeOK, PacketInv

LEMMA BufferInvariant ==
  ASSUME OneCaller
  PROVE  IInv /\ [Next]_vars => BufferInv'
<1> SUFFICES ASSUME IInv, [Next]_vars PROVE BufferInv'
  OBVIOUS
<1>1. PacketInv'
  BY TypeInvariant DEF TypeInv
<1> USE <1>1, SizesAssumption
    DEF OneCaller, IInv, TypeInv, TypeOK, BufferInv, object, endpoint, caller,
        Goto, Return
<1>2. ASSUME NEW t \in Callers, NEW n \in Needs, Sample(t, n) PROVE BufferInv'
  BY <1>2 DEF Sample
<1>3. ASSUME NEW t \in Callers, Check(t) PROVE BufferInv'
  BY <1>3 DEF Check
<1>4. ASSUME NEW t \in Callers, CopyOut(t) PROVE BufferInv'
  BY <1>4 DEF CopyOut
<1>5. ASSUME NEW t \in Callers, ReportDefaultChange(t) \/ AwaitTimeout(t)
                                  \/ DeviceInvalidated(t) \/ CaptureFails(t)
      PROVE  BufferInv'
  BY <1>5 DEF ReportDefaultChange, AwaitTimeout, DeviceInvalidated, CaptureFails
<1>6. ASSUME NEW t \in Callers, NoDefaultChange(t) PROVE BufferInv'
  BY <1>6 DEF NoDefaultChange
<1>7. ASSUME NEW t \in Callers, AwaitEvent(t) PROVE BufferInv'
  BY <1>7 DEF AwaitEvent
<1>8. ASSUME NEW t \in Callers, NextPacket(t) PROVE BufferInv'
  BY <1>8 DEF NextPacket
<1>9. ASSUME NEW t \in Callers, GetBuffer(t) PROVE BufferInv'
  BY <1>9 DEF GetBuffer
<1>10. ASSUME NEW t \in Callers, StorePacket(t) PROVE BufferInv'
  <2>1. packet[t] \in Nat /\ BufferSize \in Nat
    BY BufferFacts
  <2>2. bufferPos_' <= bufferPos_ + packet[t]
    BY <1>10, <2>1 DEF StorePacket, Smaller
  <2> QED BY <1>10, <2>1, <2>2 DEF StorePacket
<1>11. ASSUME NEW n \in 1..Frames, Arrive(n) PROVE BufferInv'
  BY <1>11, BurstAssumption DEF Arrive, Draining
<1>12. ASSUME Unplug \/ \E flow \in {"eRender", "eCapture"} : OnDefaultDeviceChanged(flow)
       PROVE  BufferInv'
  BY <1>12 DEF Unplug, OnDefaultDeviceChanged
<1>13. CASE UNCHANGED vars
  BY <1>13 DEF vars
<1> QED
  BY <1>2, <1>3, <1>4, <1>5, <1>6, <1>7, <1>8, <1>9, <1>10, <1>11, <1>12, <1>13
     DEF Next, System, Calls, Runs

LEMMA InitIInv == Init => IInv
BY InitType DEF Init, IInv, TypeInv, BufferInv

LEMMA Inductive == ASSUME OneCaller PROVE Spec => []IInv
<1>1. IInv /\ [Next]_vars => IInv'
  BY BufferInvariant, TypeInvariant DEF IInv
<1> QED BY <1>1, InitIInv, PTL DEF Spec

\* With one sampling thread every variable keeps its type: bufferPos_ never
\* leaves buffer_, neither above it, whatever the endpoint delivers (lines
\* 395-412), nor below, when samples are copied out (lines 314-320).
THEOREM TypeCorrect == ASSUME OneCaller PROVE Spec => []TypeOK
<1>1. IInv => TypeOK
  BY DEF IInv, TypeInv
<1> QED BY <1>1, Inductive, PTL

\* With one sampling thread every caller finds at each place of lines 307-320
\* and 352-415 what it left there: what it waits for, holds and has room for.
THEOREM BufferIsKept == ASSUME OneCaller PROVE Spec => []BufferInv
<1>1. IInv => BufferInv
  BY DEF IInv
<1> QED BY <1>1, Inductive, PTL

\* With one sampling thread the factor 2 of line 113 is enough: a drain that
\* sees no further arrival never meets the overflow of lines 399-404.
THEOREM DoubleIsEnough == ASSUME OneCaller PROVE Spec => NoDropWithoutBurst
<1> DEFINE Keeps == \A t \in Callers :
             StorePacket(t) /\ bufferPos_' < bufferPos_ + packet[t] => burst > 0
<1>1. IInv => Keeps
  <2> SUFFICES ASSUME IInv, NEW t \in Callers, StorePacket(t),
                      bufferPos_' < bufferPos_ + packet[t], burst = 0
               PROVE  FALSE
    BY BurstAssumption DEF IInv, TypeInv, TypeOK
  <2>1. packet[t] \in 1..queued /\ bufferPos_ + queued < BufferSize
    BY BufferFacts, SizesAssumption
       DEF StorePacket, IInv, TypeInv, TypeOK, PacketInv, BufferInv
  <2>2. bufferPos_ \in Nat /\ queued \in Nat /\ BufferSize \in Nat
    BY BufferFacts DEF IInv, TypeInv, TypeOK
  <2>3. bufferPos_' = bufferPos_ + packet[t]
    BY <2>1, <2>2 DEF StorePacket, Smaller
  <2> QED BY <2>1, <2>2, <2>3
<1> QED BY <1>1, Inductive, PTL DEF NoDropWithoutBurst
-----------------------------------------------------------------------------
(* The promise of IAudioInput *)

\* A call under way has a size, and only such a call.
CallInv == \A t \in Callers : pc[t] = "idle" <=> need[t] = 0

LEMMA NextCallInv == TypeInv /\ CallInv /\ [Next]_vars => CallInv'
<1> SUFFICES ASSUME TypeInv, CallInv, [Next]_vars PROVE CallInv'
  OBVIOUS
<1> USE NeedsAssumption DEF TypeInv, TypeOK, CallInv, object, endpoint, caller, Goto
<1>1. ASSUME NEW t \in Callers, NEW n \in Needs, Sample(t, n) PROVE CallInv'
  BY <1>1 DEF Sample
<1>2. ASSUME NEW t \in Callers, NEW r, Return(t, r) PROVE CallInv'
  BY <1>2 DEF Return
<1>3. ASSUME NEW t \in Callers,
             Check(t) \/ NoDefaultChange(t) \/ AwaitEvent(t) \/ NextPacket(t)
               \/ GetBuffer(t) \/ StorePacket(t)
      PROVE  CallInv'
  BY <1>3 DEF Check, NoDefaultChange, AwaitEvent, NextPacket, GetBuffer, StorePacket
<1>4. CASE System
  BY <1>4 DEF System, Arrive, Unplug, OnDefaultDeviceChanged
<1>5. CASE UNCHANGED vars
  BY <1>5 DEF vars
<1> QED
  BY <1>1, <1>2, <1>3, <1>4, <1>5
     DEF Next, Calls, Runs, CopyOut, ReportDefaultChange, AwaitTimeout,
         DeviceInvalidated, CaptureFails

\* Every step of the capture is one of the promise, or none it can see.
LEMMA StepImplements ==
  IInv /\ CallInv /\ [Next]_vars => [Source!Step]_(Source!sourceVars)
<1> SUFFICES ASSUME IInv, CallInv, [Next]_vars
             PROVE  Source!Step \/ UNCHANGED Source!sourceVars
  OBVIOUS
<1> USE NeedsAssumption, BufferFacts
    DEF IInv, TypeInv, TypeOK, CallInv, object, endpoint, caller, Goto,
        Source!sourceVars
<1>1. ASSUME NEW t \in Callers, NEW n \in Needs, Sample(t, n)
      PROVE  Source!Ask(t, n)
  BY <1>1 DEF Sample, Source!Ask
<1>2. ASSUME NEW t \in Callers, CopyOut(t) PROVE Source!Fill(t)
  BY <1>2 DEF CopyOut, BufferInv, Return, Source!Fill, Source!Answer
<1>3. ASSUME NEW t \in Callers,
             ReportDefaultChange(t) \/ AwaitTimeout(t)
               \/ DeviceInvalidated(t) \/ CaptureFails(t)
      PROVE  \E r \in {"Timeout", "Reinit", "Error"} : Source!Fail(t, r)
  BY <1>3 DEF ReportDefaultChange, AwaitTimeout, DeviceInvalidated, CaptureFails,
              Return, Source!Fail, Source!Answer
<1>4. ASSUME NEW t \in Callers, StorePacket(t)
      PROVE  Source!Capture \/ UNCHANGED Source!sourceVars
  <2>1. bufferPos_' >= bufferPos_ /\ bufferPos_ \in Nat /\ bufferPos_' \in Nat
    BY <1>4 DEF StorePacket, Smaller
  <2> QED BY <1>4, <2>1 DEF StorePacket, Source!Capture
<1>5. ASSUME NEW t \in Callers,
             Check(t) \/ NoDefaultChange(t) \/ AwaitEvent(t) \/ NextPacket(t)
               \/ GetBuffer(t)
      PROVE  UNCHANGED Source!sourceVars
  BY <1>5 DEF Check, NoDefaultChange, AwaitEvent, NextPacket, GetBuffer
<1>6. ASSUME System PROVE UNCHANGED Source!sourceVars
  BY <1>6 DEF System, Arrive, Unplug, OnDefaultDeviceChanged
<1>7. ASSUME UNCHANGED vars PROVE UNCHANGED Source!sourceVars
  BY <1>7 DEF vars
<1> QED
  BY <1>1, <1>2, <1>3, <1>4, <1>5, <1>6, <1>7 DEF Next, Calls, Runs, Source!Step

\* With one sampling thread WasapiAudioInput implements IAudioInput's promise for
\* every size (WasapiAudioInput.cpp 300-415): in particular it takes from the
\* buffer no sample that is not there.
THEOREM KeepsPromise == ASSUME OneCaller PROVE Spec => ImplementsAudioSource
<1>1. Init => CallInv
  BY DEF Init, CallInv
<1>2. Init => Source!Start
  BY DEF Init, Source!Start
<1>3. IInv => TypeInv
  BY DEF IInv
<1> QED
  BY <1>1, <1>2, <1>3, Inductive, NextCallInv, StepImplements, PTL
  DEF Spec, ImplementsAudioSource, Source!Promise
=============================================================================

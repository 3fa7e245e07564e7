------------------------ MODULE WasapiAudioInput ------------------------
(***************************************************************************)
(* The capture path of audio/capture_audio/windows: sample() and           *)
(* fillBuffer() of WasapiAudioInput.cpp, the default-device flag of        *)
(* AudioNotificationImpl.h, and around them the endpoint of the system     *)
(* (external): it queues samples, sets the auto-reset event, changes the   *)
(* default devices and may be unplugged.                                   *)
(*                                                                         *)
(* Samples are counted, not named.  Sizes are in samples: what the code    *)
(* has in frames is here already multiplied by channels_.                  *)
(***************************************************************************)
EXTENDS Integers

CONSTANTS
  Callers,    \* threads that call sample()
  Frames,     \* GetBufferSize() * channels_: what the endpoint can queue
  FrameSize,  \* frame_size * channels_
  Needs,      \* sizes of the vectors handed to sample()
  MaxBurst    \* bound: arrivals during one drain of the endpoint

ASSUME SizesAssumption == {Frames, FrameSize} \subseteq Nat \ {0}
ASSUME NeedsAssumption == Needs \subseteq 1..FrameSize
ASSUME BurstAssumption == MaxBurst \in Nat

Larger(m, n)  == IF m < n THEN n ELSE m
Smaller(m, n) == IF m < n THEN m ELSE n

\* Mutant: room for one of the two only.
BufferSizeSingle == Larger(Frames, FrameSize)

\* Twice the larger of the two, "because needs to fit double".
BufferSize == Larger(Frames, FrameSize) * 2

VARIABLES
  bufferPos_,             \* bufferPos_ - buffer_.data()
  defaultDeviceChanged_,
  audioEvent_,            \* is the auto-reset event set?
  queued,                 \* samples in the endpoint's queue
  plugged,                \* FALSE: AUDCLNT_E_DEVICE_INVALIDATED
  isDefault,              \* is device_ still the default capture device?
  burst,                  \* arrivals since the drain under way began
  pc, need, packet,       \* per caller: place, sample_size, audio_sample_size
  result                  \* per caller: the last CaptureResult

object   == <<bufferPos_, defaultDeviceChanged_>>
endpoint == <<queued, plugged, isDefault, burst>>
caller   == <<pc, need, packet, result>>
vars     == <<object, audioEvent_, endpoint, caller>>

Init ==
  /\ bufferPos_ = 0
  /\ defaultDeviceChanged_ = FALSE
  /\ audioEvent_ = FALSE
  /\ queued = 0
  /\ plugged = TRUE /\ isDefault = TRUE
  /\ burst = 0
  /\ pc = [t \in Callers |-> "idle"]
  /\ need = [t \in Callers |-> 0]
  /\ packet = [t \in Callers |-> 0]
  /\ result = [t \in Callers |-> "none"]

Goto(t, place) == pc' = [pc EXCEPT ![t] = place]

\* Thread t leaves sample() with r.
Return(t, r) ==
  /\ Goto(t, "idle")
  /\ need' = [need EXCEPT ![t] = 0]
  /\ packet' = [packet EXCEPT ![t] = 0]
  /\ result' = [result EXCEPT ![t] = r]

-----------------------------------------------------------------------------
(* sample *)

Sample(t, n) ==
  /\ pc[t] = "idle"
  /\ Goto(t, "check")
  /\ need' = [need EXCEPT ![t] = n]
  /\ UNCHANGED <<object, audioEvent_, endpoint, packet, result>>

\* The while condition of line 307.
Check(t) ==
  /\ pc[t] = "check"
  /\ Goto(t, IF bufferPos_ < need[t] THEN "fill" ELSE "copy")
  /\ UNCHANGED <<object, audioEvent_, endpoint, need, packet, result>>

\* Copies out, moves the rest to the front and steps back, without another
\* look: what was counted at line 307 may be gone when two threads sample, and
\* the position then falls below the buffer.
CopyOut(t) ==
  /\ pc[t] = "copy"
  /\ bufferPos_' = bufferPos_ - need[t]
  /\ Return(t, "OK")
  /\ UNCHANGED <<defaultDeviceChanged_, audioEvent_, endpoint>>

-----------------------------------------------------------------------------
(* fillBuffer *)

\* Mutant: the flag is cleared and the call goes on.
ClearDefaultChange(t) ==
  /\ pc[t] = "fill" /\ defaultDeviceChanged_
  /\ defaultDeviceChanged_' = FALSE
  /\ Goto(t, "wait")
  /\ UNCHANGED <<bufferPos_, audioEvent_, endpoint, need, packet, result>>

\* checkDefaultDeviceChanged() reads the flag and clears it in one exchange.
ReportDefaultChange(t) ==
  /\ pc[t] = "fill" /\ defaultDeviceChanged_
  /\ defaultDeviceChanged_' = FALSE
  /\ Return(t, "Reinit")
  /\ UNCHANGED <<bufferPos_, audioEvent_, endpoint>>

NoDefaultChange(t) ==
  /\ pc[t] = "fill" /\ ~defaultDeviceChanged_
  /\ Goto(t, "wait")
  /\ UNCHANGED <<object, audioEvent_, endpoint, need, packet, result>>

\* WaitForSingleObjectEx takes the event, if it is set, and resets it.
AwaitEvent(t) ==
  /\ pc[t] = "wait" /\ audioEvent_
  /\ audioEvent_' = FALSE
  /\ burst' = 0
  /\ Goto(t, "drain")
  /\ UNCHANGED <<object, queued, plugged, isDefault, need, packet, result>>

\* Mutant: a timeout starts the buffer afresh.
AwaitTimeoutDiscards(t) ==
  /\ pc[t] = "wait" /\ ~audioEvent_
  /\ bufferPos_' = 0
  /\ Return(t, "Timeout")
  /\ UNCHANGED <<defaultDeviceChanged_, audioEvent_, endpoint>>

\* Mutant: after a timeout the wait begins again.
AwaitTimeoutRetries(t) ==
  /\ pc[t] = "wait" /\ ~audioEvent_
  /\ Goto(t, "fill")
  /\ UNCHANGED <<object, audioEvent_, endpoint, need, packet, result>>

AwaitTimeout(t) ==
  /\ pc[t] = "wait" /\ ~audioEvent_
  /\ Return(t, "Timeout")
  /\ UNCHANGED <<object, audioEvent_, endpoint>>

\* GetNextPacketSize: the drain goes on while there is a packet.
NextPacket(t) ==
  /\ pc[t] = "drain" /\ plugged
  /\ Goto(t, IF queued > 0 THEN "get" ELSE "check")
  /\ UNCHANGED <<object, audioEvent_, endpoint, need, packet, result>>

\* GetBuffer: some packet from the front of what is queued, unless another
\* thread has a packet and has not released it.
GetBuffer(t) ==
  /\ pc[t] = "get" /\ plugged
  /\ \A u \in Callers : pc[u] # "store"
  /\ \E n \in 1..queued : packet' = [packet EXCEPT ![t] = n]
  /\ Goto(t, "store")
  /\ UNCHANGED <<object, audioEvent_, endpoint, need, result>>

\* Mutant: the free room is not looked at.
StorePacketUnclamped(t) ==
  /\ pc[t] = "store"
  /\ bufferPos_' = bufferPos_ + packet[t]
  /\ queued' = queued - packet[t]
  /\ packet' = [packet EXCEPT ![t] = 0]
  /\ Goto(t, "drain")
  /\ UNCHANGED <<defaultDeviceChanged_, audioEvent_, plugged, isDefault, burst,
                 need, result>>

\* Mutant: the packet is not released.
StorePacketUnreleased(t) ==
  /\ pc[t] = "store"
  /\ bufferPos_' = bufferPos_ + Smaller(BufferSize - bufferPos_, packet[t])
  /\ packet' = [packet EXCEPT ![t] = 0]
  /\ Goto(t, "drain")
  /\ UNCHANGED <<defaultDeviceChanged_, audioEvent_, endpoint, need, result>>

\* Copies what fits, drops the rest, and releases the whole packet.
StorePacket(t) ==
  /\ pc[t] = "store"
  /\ bufferPos_' = bufferPos_ + Smaller(BufferSize - bufferPos_, packet[t])
  /\ queued' = queued - packet[t]
  /\ packet' = [packet EXCEPT ![t] = 0]
  /\ Goto(t, "drain")
  /\ UNCHANGED <<defaultDeviceChanged_, audioEvent_, plugged, isDefault, burst,
                 need, result>>

\* GetNextPacketSize or GetBuffer: AUDCLNT_E_DEVICE_INVALIDATED.
DeviceInvalidated(t) ==
  /\ pc[t] \in {"drain", "get"} /\ ~plugged
  /\ Return(t, "Reinit")
  /\ UNCHANGED <<object, audioEvent_, endpoint>>

\* Any other failure of the wait or of the capture client.
CaptureFails(t) ==
  /\ pc[t] \in {"wait", "drain", "get"}
  /\ Return(t, "Error")
  /\ UNCHANGED <<object, audioEvent_, endpoint>>

-----------------------------------------------------------------------------
(* The system: the audio engine and the notification thread *)

Draining == \E t \in Callers : pc[t] \in {"drain", "get", "store"}

\* Samples arrive; what the endpoint cannot queue is lost there.
Arrive(n) ==
  /\ plugged
  /\ Draining => burst < MaxBurst
  /\ burst' = IF Draining THEN burst + 1 ELSE burst
  /\ queued' = Smaller(Frames, queued + n)
  /\ audioEvent_' = TRUE
  /\ UNCHANGED <<object, plugged, isDefault, caller>>

Unplug ==
  /\ plugged
  /\ plugged' = FALSE
  /\ UNCHANGED <<object, audioEvent_, queued, isDefault, burst, caller>>

\* The callback looks at the flow; device_ was opened as a capture device.
OnDefaultDeviceChanged(flow) ==
  /\ defaultDeviceChanged_' = (defaultDeviceChanged_ \/ flow = "eRender")
  /\ isDefault' = (isDefault /\ flow # "eCapture")
  /\ UNCHANGED <<bufferPos_, audioEvent_, queued, plugged, burst, caller>>

-----------------------------------------------------------------------------
Calls(t) == \E n \in Needs : Sample(t, n)

Runs(t) ==
  \/ Check(t) \/ CopyOut(t)
  \/ ReportDefaultChange(t) \/ NoDefaultChange(t)
  \/ AwaitEvent(t) \/ AwaitTimeout(t)
  \/ NextPacket(t) \/ GetBuffer(t) \/ StorePacket(t)
  \/ DeviceInvalidated(t) \/ CaptureFails(t)

System ==
  \/ \E n \in 1..Frames : Arrive(n)
  \/ Unplug
  \/ \E flow \in {"eRender", "eCapture"} : OnDefaultDeviceChanged(flow)

Next == System \/ \E t \in Callers : Calls(t) \/ Runs(t)

Spec == Init /\ [][Next]_vars

(***************************************************************************)
(* A call that was made goes on: no step of it blocks, the wait has a      *)
(* timeout.  Callers keep calling, as a capture loop does.  The endpoint   *)
(* owes nothing.                                                           *)
(***************************************************************************)
FairSpec == Spec /\ \A t \in Callers : WF_vars(Runs(t)) /\ WF_vars(Calls(t))

-----------------------------------------------------------------------------
(* Correctness *)

\* Types; in particular the write position stays inside buffer_.
TypeOK ==
  /\ bufferPos_ \in 0..BufferSize
  /\ defaultDeviceChanged_ \in BOOLEAN /\ audioEvent_ \in BOOLEAN
  /\ plugged \in BOOLEAN /\ isDefault \in BOOLEAN
  /\ queued \in 0..Frames
  /\ burst \in 0..MaxBurst
  /\ pc \in [Callers -> {"idle", "check", "copy", "fill", "wait",
                         "drain", "get", "store"}]
  /\ need \in [Callers -> 0..FrameSize]
  /\ packet \in [Callers -> 0..Frames]
  /\ result \in [Callers -> {"none", "OK", "Timeout", "Reinit", "Error"}]

\* One packet is out of the endpoint at a time, and it was queued there.
PacketInv ==
  \A t \in Callers : pc[t] = "store" =>
    /\ packet[t] \in 1..queued
    /\ \A u \in Callers : pc[u] = "store" => u = t

\* What one caller knows at each place; with PacketInv the inductive invariant
\* behind TypeOK and NoDropWithoutBurst (lines 307-320 and 352-415).
BufferInv ==
  /\ PacketInv
  /\ \A t \in Callers :
       /\ pc[t] = "copy" => bufferPos_ >= need[t]
       /\ pc[t] \in {"fill", "wait"} => bufferPos_ < need[t]
       /\ pc[t] \in {"drain", "get", "store"} /\ burst = 0
            => bufferPos_ + queued < FrameSize + Frames

\* The buffer is large enough: a drain drops samples (lines 399-404) only if
\* more of them arrived after it began.
NoDropWithoutBurst ==
  [][\A t \in Callers : StorePacket(t) /\ bufferPos_' < bufferPos_ + packet[t]
       => burst > 0]_vars

Source == INSTANCE AudioSource WITH
  Threads <- Callers, Sizes <- Needs, Failures <- {"Timeout", "Reinit", "Error"},
  stored <- bufferPos_, asked <- need, answer <- result, open <- TRUE

\* sample() keeps the promise of IAudioInput (WasapiAudioInput.cpp:300-324): a
\* call that returns OK takes as many samples as it asked for, and a call that
\* fails half way keeps what it captured for the next one.
ImplementsAudioSource == Source!Promise

\* Every call of sample() returns, also when samples trickle in.
SampleReturns == \A t \in Callers : pc[t] # "idle" ~> pc[t] = "idle"

\* A flagged change reaches a caller, although fillBuffer looks at the flag
\* only when the buffer has too few samples, and the exchange of line 341
\* clears it for good.
ChangeIsReported ==
  defaultDeviceChanged_ ~>
    ~defaultDeviceChanged_ /\ \E t \in Callers : result[t] = "Reinit"

-----------------------------------------------------------------------------
(* What the repository says of this code and it does not do *)

\* When sample() copies out, the samples it counted at line 307 are still
\* there, so that the move of line 319 has a well-formed range, also when two
\* threads sample.
CopyHasEnough == \A t \in Callers : pc[t] = "copy" => bufferPos_ >= need[t]

\* When the default capture device changes, a later call asks its caller to
\* reinitialize.
CaptureChangeReported == ~isDefault ~> \E t \in Callers : result[t] = "Reinit"
=============================================================================

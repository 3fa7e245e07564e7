-------------------------- MODULE MacAudioInput --------------------------
(***************************************************************************)
(* Capture on macOS: the set-up of CaptureDevice.m, its delegate callback, *)
(* its dealloc, and MacAudioInput::sample().  The callbacks run on a       *)
(* concurrent dispatch queue; they fill a TPCircularBuffer, made for one   *)
(* producer and one consumer, and signal an NSCondition that the sampler   *)
(* waits on without ever holding its lock.                                 *)
(*                                                                         *)
(* Sizes are in floats.  The ring, the condition and the capture session   *)
(* are external: the ring counts what it holds and refuses what has no     *)
(* room, a signal that finds nobody asleep is lost, and the session keeps  *)
(* its delegate while it calls it, but no longer.                          *)
(***************************************************************************)
EXTENDS Integers

CONSTANTS
  Callbacks,   \* callbacks that can be under way at once
  Channels,    \* floats of one frame
  RingSize,    \* kBufferLength * channels bytes, in whole pages
  Packets,     \* sizes of the sample buffers of the session
  Needs,       \* sizes of the vectors handed to sample()
  ReleasedAt,  \* places of the sampler at which the owner may destroy
  Saturation   \* bound: fillCount is not followed beyond it

ASSUME SizesAssumption ==
  /\ {Channels, RingSize} \subseteq Nat \ {0}
  /\ Packets \cup Needs \subseteq Nat \ {0}
ASSUME SaturationAssumption == Saturation \in Nat /\ Saturation >= RingSize

VARIABLES
  stage,       \* of the CaptureDevice, from set-up to dealloc
  length,      \* of the ring: 0 as long as it is not initialized
  fillCount,   \* floats in the ring
  pc, packet,  \* per callback: place, and what it delivers
  place, need  \* of the sampler

ring    == <<length, fillCount>>
sampler == <<place, need>>
vars    == <<stage, ring, pc, packet, sampler>>

\* MacAudioInput's constructor has allocated the device and set it up so far
\* that there is a session.
Init ==
  /\ stage = "session"
  /\ length = 0 /\ fillCount = 0
  /\ pc = [c \in Callbacks |-> "idle"]
  /\ packet = [c \in Callbacks |-> 0]
  /\ place = "idle" /\ need = 0

Goto(c, p)  == pc' = [pc EXCEPT ![c] = p]
Smaller(m, n) == IF m < n THEN m ELSE n

-----------------------------------------------------------------------------
(* setupCaptureDevice *)

\* No input for the device, the session does not take it, or, one step later,
\* it does not take the output: the constructor throws and the device leaks.
SetupFails ==
  /\ stage \in {"session", "input"}
  /\ stage' = "failed"
  /\ UNCHANGED <<ring, pc, packet, sampler>>

AddInput ==
  /\ stage = "session"
  /\ stage' = "input"
  /\ UNCHANGED <<ring, pc, packet, sampler>>

\* The delegate is set, the output added and connected, the session started.
StartRunning ==
  /\ stage = "input"
  /\ stage' = "running"
  /\ UNCHANGED <<ring, pc, packet, sampler>>

CreateSignal ==
  /\ stage = "running"
  /\ stage' = "signal"
  /\ UNCHANGED <<ring, pc, packet, sampler>>

InitRing ==
  /\ stage = "signal"
  /\ stage' = "ready"
  /\ length' = RingSize /\ fillCount' = 0
  /\ UNCHANGED <<pc, packet, sampler>>

-----------------------------------------------------------------------------
(* captureOutput:didOutputSampleBuffer:fromConnection: *)

\* The connection is the one of line 120 as long as the device lives.
Delivering == stage \in {"running", "signal", "ready"}

Deliver(c, n) ==
  /\ Delivering
  /\ pc[c] = "idle"
  /\ packet' = [packet EXCEPT ![c] = n]
  /\ Goto(c, "room")
  /\ UNCHANGED <<stage, ring, sampler>>

\* The room is an unsigned difference: in a ring that is overfull it is huge.
HasRoom(n) == fillCount > length \/ n <= length - fillCount

\* Mutant: a refused packet is not signalled.
FindRoomSilent(c) ==
  /\ pc[c] = "room"
  /\ Goto(c, IF HasRoom(packet[c]) THEN "produce" ELSE "idle")
  /\ UNCHANGED <<stage, ring, packet, sampler>>

\* Mutant: a packet without enough room is cut.
FindRoomCuts(c) ==
  /\ pc[c] = "room"
  /\ packet' = [packet EXCEPT ![c] =
                  IF HasRoom(@) THEN @ ELSE length - fillCount]
  /\ Goto(c, "produce")
  /\ UNCHANGED <<stage, ring, sampler>>

\* TPCircularBufferProduceBytes, first half: is there room for the packet?
\* Its answer is ignored, the signal follows either way.
FindRoom(c) ==
  /\ pc[c] = "room"
  /\ Goto(c, IF HasRoom(packet[c]) THEN "produce" ELSE "signal")
  /\ UNCHANGED <<stage, ring, packet, sampler>>

\* Second half: the bytes are copied and counted.
Produce(c) ==
  /\ pc[c] = "produce"
  /\ fillCount' = Smaller(Saturation, fillCount + packet[c])
  /\ Goto(c, "signal")
  /\ UNCHANGED <<stage, length, packet, sampler>>

Finish(c) == Goto(c, "idle") /\ packet' = [packet EXCEPT ![c] = 0]

\* Mutant: the sampler takes a signal for enough samples.
SignalTrusted(c) ==
  /\ pc[c] = "signal"
  /\ Finish(c)
  /\ place' = IF stage = "ready" /\ place = "asleep" THEN "copy" ELSE place
  /\ UNCHANGED <<stage, ring, need>>

\* A message to nil before the condition exists; lost if nobody sleeps.
Signal(c) ==
  /\ pc[c] = "signal"
  /\ Finish(c)
  /\ place' = IF place = "asleep" THEN "look" ELSE place
  /\ UNCHANGED <<stage, ring, need>>

-----------------------------------------------------------------------------
(* sample *)

Sample(n) ==
  /\ stage = "ready" /\ place = "idle"
  /\ place' = "look" /\ need' = n
  /\ UNCHANGED <<stage, ring, pc, packet>>

\* To use the condition after its release, or the ring after its clean-up, is
\* undefined: the wait returns at once or never, the ring counts anything.
SignalIsFreed == stage \in {"released", "gone"}
RingIsFreed   == stage = "gone"

\* TPCircularBufferTail and the while condition.
Look ==
  /\ place = "look"
  /\ \/ (fillCount < need \/ RingIsFreed) /\ place' = "wait"
     \/ (fillCount >= need \/ RingIsFreed) /\ place' = "copy"
  /\ UNCHANGED <<stage, ring, pc, packet, need>>

\* Between the look and the sleep no lock keeps the callbacks out.
Sleep ==
  /\ place = "wait"
  /\ place' \in IF SignalIsFreed THEN {"look", "asleep"} ELSE {"asleep"}
  /\ UNCHANGED <<stage, ring, pc, packet, need>>

\* A condition may wake a thread that nobody signalled.
WakeForNothing ==
  /\ place = "asleep"
  /\ place' = "look"
  /\ UNCHANGED <<stage, ring, pc, packet, need>>

\* Mutant: one frame more is consumed than was copied.
CopyOutOneMore ==
  /\ place = "copy"
  /\ fillCount' = fillCount - need - Channels
  /\ place' = "idle" /\ need' = 0
  /\ UNCHANGED <<stage, length, pc, packet>>

CopyOut ==
  /\ place = "copy"
  /\ fillCount' = IF RingIsFreed THEN fillCount ELSE fillCount - need
  /\ place' = "idle" /\ need' = 0
  /\ UNCHANGED <<stage, length, pc, packet>>

-----------------------------------------------------------------------------
(* ~MacAudioInput and, with its last reference, dealloc *)

\* The release finds no callback under way; audioConnection becomes nil.
\* The session is neither stopped nor released.
Disconnect ==
  /\ stage = "ready" /\ place \in ReleasedAt
  /\ \A c \in Callbacks : pc[c] = "idle"
  /\ stage' = "disconnected"
  /\ UNCHANGED <<ring, pc, packet, sampler>>

\* "make sure nothing gets stuck on this signal"
SignalLast ==
  /\ stage = "disconnected"
  /\ stage' = "signalled"
  /\ place' = IF place = "asleep" THEN "look" ELSE place
  /\ UNCHANGED <<ring, pc, packet, need>>

ReleaseSignal ==
  /\ stage = "signalled"
  /\ stage' = "released"
  /\ UNCHANGED <<ring, pc, packet, sampler>>

\* Mutant: the ring is not cleaned up.
CleanUpNothing ==
  /\ stage = "released"
  /\ stage' = "gone"
  /\ UNCHANGED <<ring, pc, packet, sampler>>

\* TPCircularBufferCleanup unmaps the ring; the object's memory follows.
CleanUp ==
  /\ stage = "released"
  /\ stage' = "gone"
  /\ length' = 0 /\ fillCount' = 0
  /\ UNCHANGED <<pc, packet, sampler>>

-----------------------------------------------------------------------------
Setup     == SetupFails \/ AddInput \/ StartRunning \/ CreateSignal \/ InitRing
Dealloc   == SignalLast \/ ReleaseSignal \/ CleanUp
Runs(c)   == FindRoom(c) \/ Produce(c) \/ Signal(c)
Audio(c)  == \E n \in Packets : Deliver(c, n)
Sampling  == Look \/ Sleep \/ CopyOut

Next ==
  \/ Setup \/ Disconnect \/ Dealloc
  \/ \E c \in Callbacks : Audio(c) \/ Runs(c)
  \/ \E n \in Needs : Sample(n)
  \/ Sampling
  \/ WakeForNothing

Spec == Init /\ [][Next]_vars

(***************************************************************************)
(* A running session delivers without end and its callbacks run to their   *)
(* end; set-up, dealloc and sampler go on unless they sleep.  Nobody has   *)
(* to call sample() or to destroy, and nobody wakes without a signal.      *)
(***************************************************************************)
FairSpec ==
  /\ Spec
  /\ WF_vars(Setup) /\ WF_vars(Dealloc) /\ WF_vars(Sampling)
  /\ \A c \in Callbacks : WF_vars(Audio(c)) /\ WF_vars(Runs(c))

-----------------------------------------------------------------------------
(* Correctness *)

\* Between its initialization and its clean-up.
HasRing == stage \in {"ready", "disconnected", "signalled", "released"}

\* Types; in particular fewer floats are never consumed than there are.
TypeOK ==
  /\ stage \in {"session", "failed", "input", "running", "signal", "ready",
                "disconnected", "signalled", "released", "gone"}
  /\ length \in {0, RingSize}
  /\ fillCount \in 0..Saturation
  /\ pc \in [Callbacks -> {"idle", "room", "produce", "signal"}]
  /\ packet \in [Callbacks -> Packets \cup {0}]
  /\ place \in {"idle", "look", "wait", "asleep", "copy"}
  /\ need \in Needs \cup {0}

\* What sample() copies is in the ring, however many callbacks run and
\* whatever woke it (the loop of lines 35-38 of MacAudioInput.mm).
ReadsWhatIsThere == place = "copy" /\ ~RingIsFreed => fillCount >= need

\* Although the session starts before the ring exists (lines 122-128), no
\* callback writes before it does: the zeroed ring has no room for a packet.
WritesToReadyRing ==
  \A c \in Callbacks : pc[c] = "produce" => stage = "ready"

\* The ring holds whole frames, also when packets are refused because the
\* ring, in whole pages, is no multiple of a frame: the channels never swap.
HoldsWholeFrames == fillCount % Channels = 0

\* While there is no ring it counts nothing; nobody samples before the
\* constructor has returned; a callback under way has a packet, and the device.
SetupInv ==
  /\ length = IF HasRing THEN RingSize ELSE 0
  /\ ~HasRing => fillCount = 0
  /\ stage \in {"session", "failed", "input", "running", "signal"} => place = "idle"
  /\ \A c \in Callbacks : pc[c] # "idle" => packet[c] \in Packets /\ Delivering

\* The inductive invariant behind ReadsWhatIsThere (lines 32-45 of
\* MacAudioInput.mm): only the sampler takes floats out of the ring.
IInv == TypeOK /\ SetupInv /\ WritesToReadyRing /\ ReadsWhatIsThere

\* A callback that has found room keeps it: so it is unless another adds to the
\* ring before it does.
RoomInv ==
  /\ fillCount <= length
  /\ \A c \in Callbacks : pc[c] = "produce" => fillCount + packet[c] <= length

\* Some packet always fits as long as the sampler has not got n.
Fits(n) == \A p \in Packets : n - Channels + p <= RingSize

\* While the session delivers, sample() returns if its need fits, although a
\* signal between its look and its sleep is lost and packets are refused: the
\* next callback signals again, refused or not.
SampleIsServed == place # "idle" /\ Fits(need) ~> place = "idle"

\* The sampler is one thread; it always answers OK.
Source == INSTANCE AudioSource WITH
  Threads <- {"sampler"}, Sizes <- Needs, Failures <- {},
  stored <- fillCount, asked <- [t \in {"sampler"} |-> need],
  answer <- [t \in {"sampler"} |-> "OK"], open <- ~RingIsFreed

\* MacAudioInput keeps the promise of IAudioInput (MacAudioInput.mm:26-48):
\* callbacks only add, a call takes exactly what it asked for and only when it
\* is there, and dealloc alone discards the rest.
ImplementsAudioSource == Source!Promise

-----------------------------------------------------------------------------
(* What the repository says of this code and it does not do *)

\* The ring never counts more than it can hold.
NotOverfull == fillCount <= length

\* The next step of the sampler uses what is no longer there.
UsesFreed ==
  \/ place = "wait" /\ SignalIsFreed
  \/ place \in {"look", "copy"} /\ RingIsFreed

\* Line 67 of CaptureDevice.m: a sampler that sleeps when dealloc begins does
\* not get stuck.  (Nothing is asked once it uses what is freed.)
NothingStuck ==
  (stage = "disconnected" /\ place = "asleep") ~> (place = "idle" \/ UsesFreed)
=============================================================================

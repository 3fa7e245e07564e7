# Verification of pirks

pirks is a streaming server in C++ (with Objective-C on macOS) that is being
built: a server process with configuration and two connection types, a capture
library for audio on Windows and macOS, and a thread-safe ring buffer that ties
producers to consumers. This directory holds TLA+ models of the parts that have
behaviour today, TLC configurations that check them on small instances, and
TLAPS proofs of what matters most for every size.

Paths below are relative to the repository; `CircularBuffer.h` is
`src/common/CircularBuffer.h`, the capture code is under
`src/audio/capture_audio`.

## 1. Inventory

| Part | State | Operations | What is hard |
|---|---|---|---|
| `CircularBuffer<T>` | `active_`, ring (`buffer_`, `startIndex_`, `endIndex_`), one mutex, one condition variable | `push`, `push(span)`, `peek`, `peek(delay)`, `pop`, `pop(delay)`, batch pops with and without delay, `isEmpty`, `isFull`, `isActive`, `stop` | blocking and wakeups, timeouts racing pushes, eviction, batches larger than the ring, stop at any moment |
| Windows capture, `WasapiAudioInput` + `AudioNotificationImpl` | `buffer_`, `bufferPos_`, COM objects, event handle, atomic change flag | constructor, `sample`, `fillBuffer`, destructor; `OnDefaultDeviceChanged` on a system thread | packets of any size, partial failure, device changes while a call is under way, several callers |
| COM and handle wrappers: `Interface`, `WinHandle`, `ComInitializer`, `AudioClientPtr`, `DeviceEnumeratorPtr` | one raw pointer or handle; COM's count of initializations | create, copy, destroy; `getDeviceNames`, `getDeviceByName` | who releases what and when; loops in which every call may fail |
| macOS capture, `MacAudioInput` + `CaptureDevice` | TPCircularBuffer, `NSCondition`, session | setup, delegate callback on a dispatch queue, `sample`, dealloc | check-then-wait, concurrent callbacks, teardown |
| `Server`, `UDPConnection`, `TCPConnection` | two queues held by shared pointers, a connection with weak pointers to them | `run`, `stop`, destructor, `create` | exceptions half way through `run`, a second `run`; the connections have no threads yet |
| `Config`, `ServerConfig`, `main` | the options of the command line, exit flag, connection type | `parseArgs`, `parseOptions`, `main` | who decides what a set of options means and which exit code it gives |
| factories, format tables | none | `getAudioSources`, `create`, `createWaveformat` | narrowing casts |
| `memory_utils`, `str_utils`, `deferral`, `Packed` | none | formatting, a scope guard | none |

How they interact. `main` parses the options, makes one `Server` and calls
`run()`, which makes two `CircularBuffer`s of packets and a connection that gets
weak pointers to them, and returns at once; the server is then destroyed. Nothing
pushes or pops yet: the threads of the connections are commented out, the
project's rules (`.continue/rules/networking/RULES.md`) describe the intended
use, a network thread and a server thread with one buffer in each direction.
Capture works by calls and callbacks: a caller's thread runs
`sample()`; the audio engine queues packets and sets an event (Windows) or calls
the delegate (macOS); the notification callback sets an atomic flag that
`fillBuffer()` reads and clears. `IAudioInput` and the factories hide which
platform it is.

What makes each part correct:

* `CircularBuffer`: it is a bounded FIFO that drops the oldest elements; nobody
  sleeps beside an element; `stop()` frees everybody; a batch stays inside the
  vector it sized.
* Windows capture, with one thread that samples: the write position stays inside
  `buffer_`; `sample()` copies out only what is there; samples are dropped only under overload; a call that
  fails keeps what was captured; every call returns; a flagged device change
  reaches a caller.
* wrappers: every reference is released once, nothing is used after its release;
  whichever calls fail in an enumeration, what it acquired is given up and the
  answer is exact; COM is uninitialized as often as initialized. (The code does not
  keep all of this, see `wrapper` and the exception of `DeviceEnumerator`.)
* macOS capture: a sampler is woken when there is enough; a packet has one
  writer; teardown leaves nobody behind.
* both captures: `IAudioInput`. A call takes exactly the samples it asked for, or
  none.
* `Server`: the queues live as long as the server uses them, the connection sees
  the right one on each side, after any failures and restarts.
* `main` and options: a request for TCP is refused and not served by UDP, and the
  exit code tells what happened.

The hazards, each with its line and the properties that would catch it, are
listed in `PROJECT.json`.

## 2. Modules

| Module | Models | Role |
|---|---|---|
| `LossyFifo` | the promise of `CircularBuffer<T>` | abstract specification |
| `CircularBuffer` | `CircularBuffer.h` | the monitor as written |
| `CircularBufferRefinement` | - | adds a history variable and states that `CircularBuffer` implements `LossyFifo` |
| `CircularBufferProofs` | - | theorems about `CircularBuffer` |
| `CircularBufferRefinementProofs` | - | the proof that `CircularBuffer` implements `LossyFifo`, and that it hands out nothing else than elements |
| `WasapiAudioInput` | `windows/WasapiAudioInput.cpp`, `windows/AudioNotificationImpl.h` | the capture path |
| `WasapiAudioInputProofs` | - | theorems about `WasapiAudioInput` |
| `AudioSource` | `IAudioInput.h`, `CaptureResult.h` | abstract specification of a capture; `WasapiAudioInput` and `MacAudioInput` implement it |
| `DeviceEnumerator` | `windows/DeviceEnumeratorPtr.h` | listing and lookup of endpoints |
| `WasapiLifetime` | constructors, destructor and members of `WasapiAudioInput`, `WinAudioInputFactory.cpp`, `AudioFormats.h`, `Interface.h`, `AudioClientPtr.h` | what is acquired, given up and in which order; extends `DeviceEnumerator` |
| `WasapiLifetimeProofs` | - | theorems about `WasapiLifetime` and `DeviceEnumerator` |
| `MacAudioInput` | `macos/CaptureDevice.m`, `macos/MacAudioInput.mm` | set-up, callbacks, sampler and dealloc on macOS |
| `MacAudioInputProofs` | - | theorems about `MacAudioInput` |
| `Server` | `server/Server.cpp`, `networking/*/*Connection.cpp` | who holds the queues |
| `Process` | `server/main.cpp`, `ServerConfig.cpp`, `Config.cpp`, `ComInitializer.h`, `ExitCode.h` | a process with a server; extends `Server` |
| `ProcessProofs` | - | theorems about `Process` and `Server` |
| `MC...` | - | instances for TLC |

### CircularBuffer

Variables keep the names of the fields; `sz` is `buffer_.capacity()`. `pc[t]`
says where thread `t` is: `idle` (outside), `pushing` or `popping` (inside the
loop of a span push or a batch pop, holding `mutex_`), `waiting` (asleep in
`cv_.wait` or `wait_for`, mutex released), `woken` or `expired` (the wait is over,
without or with a timeout, and the mutex has to be taken again).

A critical section without a loop is one action whose guard is that `mutex_` is
free: nothing another thread does can be seen inside it, with the exception of
`isActive()`, which takes no lock and reads `active_` only; it may run between
any two steps. The two loops run one iteration per action. All blocking calls
share their beginning (`active_`, then the ring, then the wait, again after each
wakeup), so one set of actions (`Enter`, `Resume`, `ReturnExpired`) serves them,
with the call recorded in `call[t]`. `Expire` may strike a sleeper or a thread
that was already notified but does not have the mutex yet: `wait_for` compares
the clock last. `event` is not state of the code: it records the last completed
call and its result, as the caller sees them. `RecordEvents = FALSE` switches it
off in runs that do not look at it, `Spurious` says whether a condition variable
may wake on its own, `MoveEmpties` whether `std::move` from a `T` changes it (it
does not for `int` and `PacketInfo`).

### LossyFifo and the refinement

In `LossyFifo` a call takes effect at once on a sequence `queue`. In the
implementation a span push and a batch pop take many steps, in the middle of
which the ring is neither the old nor the new queue. `committed` holds the ring's
contents at the last moment the mutex was free, and
`queue <- committed, active <- active_, capacity <- sz - 1` maps every state.
`LossyFifo` leaves the answer of `isFull` on an active queue open, and lets a
batch pop pad its vector up to `max`: see the findings.

### WasapiAudioInput

Samples are counted, not named: `bufferPos_` is the distance from the start of
`buffer_`, `queued` what the endpoint holds. One caller's `sample()` goes
`check` (the while condition) -> `fill` (change flag) -> `wait` (the event) ->
`drain` / `get` / `store` (GetNextPacketSize, GetBuffer, copy and ReleaseBuffer)
-> `check`, or `copy` and out. The endpoint and the notification thread are the
environment (`Arrive`, `Unplug`, `OnDefaultDeviceChanged`), modelled from how the
code uses them: an auto-reset event, a queue of at most `Frames` samples, a
packet is some part of the front of the queue, one packet out at a time.

Assumptions: `Needs` is at most `FrameSize` (callers pass vectors of
`frame_size * channels` samples; a longer vector than `buffer_` could never be
filled). Construction is one step here, it has a module of its own. `CopyOut`
subtracts what was asked for without another look, as lines 314-320 do: with two
callers the position can fall below the buffer, where C++ calls the move undefined.
With one caller it cannot (`BufferInv`, `TypeOK`); the run `two_callers` shows how it
does with two.

### AudioSource

What both captures promise through `IAudioInput`: samples come in at any time;
`sample()` asks for a number of them and ends with all of them taken, or with
another `CaptureResult` and none taken; what is left goes with the object. The
mapping is `stored <- bufferPos_` on Windows and `stored <- fillCount` on macOS,
where the only answer is OK. It is the data side of the interface: when a call
ends is said by `SampleReturns` and `SampleIsServed`.

### DeviceEnumerator

One loop, written twice in the code. Every system call of it may fail, and the
`std::string` or the `push_back` with a name may throw (`OutOfMemory`): the function
is then left past every `Release`, and only the enumerator of `getAudioSources()`,
a local object, is given up. A call ends at `place` `"done"` or `"threw"`. `owned`
counts the five kinds of things acquired on the way (a collection, a device, its
property store, the string of a PROPVARIANT, and the enumerator itself in
`getAudioSources()`), for the call under way: what an earlier call leaked is not
carried along. `unread` is history: the endpoints of which no name could be
read. A name is one UTF-16 code, of which the code keeps the low byte
(`Narrowed`): the model has names that collide. The device that a lookup returns
goes to the wrapper of `WasapiLifetime`. The list has no place for `"Default"`,
which `getAudioSources()` puts in front.

### WasapiLifetime

One object of the class at a time, from the first member to the last byte. `pc`
walks down the constructor (`event`, `register`, `device`, `client`, `service`,
`eventHandle`, `task`, `start`), each acquisition may fail, an exception of the
lookup passes through, and `Throw` leads to `destroy` as the destructor does, where the members go in the reverse order of
their declaration (`left`). The two constructors differ in how they choose the
device only, by default or by a lookup in `DeviceEnumerator`. Channels are cut to
a byte as `create()` does, the loop over `s_AudioFormats` tries at most the one
entry that has as many, and `wave` is what `createWaveformat` made of it. `refs`
counts the references held on our account, `held` the wrappers that are not null;
a C++ assignment from a temporary `Interface` (`Assign`) takes one reference and
gives it back. `listeners` is what the
enumerator would call: `"dead"` is the address of a notification member that is
no more. Calling something dead is undefined: the model goes on, or `Crash`es.
What it does not say of a failed constructor: one that fails after line 61 leaves
its listener registered, and a thread that fails in `Start` stays in its MMCSS task.
Both are in the model and wrong in the code, no document claims otherwise, and no
property states them; `OnlyThrowsLeak` is about COM references and the event handle
only. The memory of `GetMixFormat` (`AudioClientPtr.h:42`), which no exit of the
constructor frees, is not in the model. From `FindIsExact` follows that of two
endpoints whose names differ in the high bytes only, the second can be opened by
name only while the first cannot be read.

### MacAudioInput

Sizes are in floats. `stage` follows a `CaptureDevice` from its set-up, each
return of an error included, to the end of dealloc: the session runs before the
condition and the ring exist, and dealloc gives them up in the opposite order.
`ReleasedAt` says where a sampler may be when the owner destroys the object:
outside only in the passing run and the theorem, asleep in the run `mac_stuck`. To
use the condition or the ring after its release is undefined: the wait returns at
once or never, the ring counts anything. Each callback under way goes `room` (is there
room for the packet) -> `produce` (bytes copied and counted) -> `signal`; a packet
that is refused is signalled too. The sampler goes `look` (ring against need) ->
`wait` -> `asleep`, and nothing keeps a callback out between its look and its
sleep, because `[samplesArrivedSignal wait]` is called without the lock. The ring
(`TPCircularBuffer`) and `NSCondition` are not in the repository; their model is
what the code relies on: the ring counts and refuses what has no room (its room is
an unsigned difference, so an overfull ring accepts everything), the condition
loses a signal that finds nobody asleep and may wake for nothing. The session,
external too, keeps its delegate while it calls it and no longer: the last release
finds no callback under way.

### Server and Process

A queue is an identity with the use count of its control block (`uses`); what it
does is `CircularBuffer`. `run()` is five steps (`ResetIn`, `ResetOut`,
`ResetConnection`, `Create`, and its call), between which it may throw, and it may
be called again without `stop()`: the old connection then still has its weak
pointers while the queues are replaced, and a place is not used again as long as
somebody refers to it. Both connection types do the same with what they are given.

`Process` puts a program around it: `main`, with every set of options (`argv`),
COM initialized by a static object before, or another program (`user = "other"`)
that constructs a server of any type and calls `run()` and `stop()` as it likes;
`main` itself calls `run()` once. External: CLI11 decides between a call for help
and a mistake when both are given (either), and answers 0 for help and version;
COM counts `CoInitializeEx` calls that succeed, `S_FALSE` included.

## 3. Runs

Passing runs:

| Run | Instance | Shows |
|---|---|---|
| `fifo` | 1 producer, 1 consumer, 2 values, rings of 1, 2, 3 slots, spans up to 3, batches of 0, 1, 3 | `ImplementsLossyFifo`, `NoPhantomElement`, `BatchFitsOut`, `TypeOK` |
| `wakeups` | 1 producer, 2 consumers, rings of 1 to 3 slots, spans up to 2, batches of 1, 2; fairness | `NoLostWakeup`, the inductive invariant `IInv`, `StopReleases`, `WaiterIsServed` |
| `mac` | 2 callbacks at once, a ring of 7 floats with frames of 2, packets of 2 and 4, needs of 2, 4 and 6, destroyed when nobody samples; fairness | `ReadsWhatIsThere`, `HoldsWholeFrames`, `IInv`, `SampleIsServed`, `ImplementsAudioSource` |
| `lifetime` | 3 endpoints, two of which have the same low byte, 3 names asked for, one of them in vain, 1, 2 and 262 channels, an exception for any name read, any number of lists and constructions | `OnlyThrowsLeak`, `ListIsExact`, `FindIsExact`, `FramesAreFloats`, `EventOutlivesClient`, `ListenerGoes`, `TypeOK` |
| `process` | every set of 6 options, 5 places for queues, COM initialized before or not, servers run and stopped any number of times | `QueuesFollowServer`, `ConnectionSeesQueues`, `ComBalanced`, `NoSilentFallback`, `ExitCodeTellsWhy`, `TypeOK` |
| `capture` | 1 caller, endpoint and frame of 3 samples, every need, 2 arrivals per drain; fairness | `BufferInv`, `NoDropWithoutBurst`, `ImplementsAudioSource`, `SampleReturns`, `ChangeIsReported`, `TypeOK` |

Why these bounds are enough to meet the interesting cases. Three slots hold two
elements, the smallest ring in which full, half full and empty differ and the
indexes wrap in every relative position; one slot is the degenerate ring that
never holds anything. Spans and batches of three are longer than the largest
ring, so that a span evicts its own elements and a batch empties the ring before
it reaches `max_elements`. Two values tell an order from another. Two consumers
are needed for a stolen element, a wakeup that leads to nothing and a wakeup
given to the wrong thread. In `capture`, what an endpoint can queue equals the
frame size, where the factor two of the buffer is tight. In `mac` the ring is no
multiple of a frame (rings are whole pages, six channels do not divide them), two
needs always fit beside any packet and one does not, for which nothing is
claimed. In `lifetime` the requests are a number of channels with a format, one
without, and one that becomes valid by the cast. In `process` five places are
needed: two queues that are alive, two that an old connection still refers to when
a `run()` over it throws, and one for the next `run()`. Then a free place is there
whenever `ResetIn` or `ResetOut` looks for one; with four it is not.

Violation runs, each one a line of documentation or a comment that the code does
not keep:

| Run | The repository says | The code does |
|---|---|---|
| `is_full` | `isFull()` guards a push (networking rules, 203-208) | line 373 looks for the end index one after the start: true with one element, false when full |
| `two_callers` | "may be called from multiple threads" (audio rules, 201) | `bufferPos_` is not protected |
| `capture_change` | "Check if the default audio device has changed" (`WasapiAudioInput.cpp:340`) | only changes of the default *render* device set the flag; the device that is open is a capture device |
| `mac_overfull` | "thread-safe buffer management" (audio rules, 87) | the callbacks run on a concurrent queue, the ring is for one producer |
| `mac_stuck` | "make sure nothing gets stuck on this signal" (`CaptureDevice.m:67`) | dealloc signals once; a sampler with too few samples looks and waits again, before the condition is released |
| `wrapper` | "automatic reference counting" (common rules, 308) | `Interface` copies the pointer and not the reference: `device_` and `audioCapture_` dangle from their assignment on |

More disagreements have no run of their own:

* "Use RAII pattern for all COM interfaces" (audio rules, 195): the two loops of
  `DeviceEnumeratorPtr.h` hold three interfaces and a PROPVARIANT by hand, and an
  exception of lines 92-93 or 140 leaks all four; `create()` catches it
  (`WinAudioInputFactory.cpp:37`) and the process goes on. `OnlyThrowsLeak` states
  that this is what leaks, and that nothing else does.
* `peek(delay)` moves the element out of its slot although it is to "not remove it
  from buffer"; the types used today do not notice. It is the only call that does
  such a thing (`OnlyPeekLeavesPhantoms`).
* A batch pop leaves its vector at `min(sz, max_elements)` entries, and the
  networking rules (234) iterate the whole vector; `LossyFifo` allows the padding.
* "Wait up to 100ms for packet" (networking rules, 80): `pop(delay)`, the timed
  batch pop and `peek(delay)` wait the whole delay again in every round of their
  loop (`CircularBuffer.h:285`, 318, 201), so a rival consumer that takes each
  element first can keep a timed call waiting for ever.
* The audio rules (96-100) call `sample()` with a vector of 96000 on any platform.
  On macOS the ring holds `4096 * channels` bytes, rounded up to pages: a need that
  does not fit beside a packet is never met. `SampleIsServed` claims nothing for it.
* The comment at `ComInitializer.h:33-34` says that `CoUninitialize` is not called
  if COM was initialized before. `SUCCEEDED(S_FALSE)` is true, so it is called,
  which is what balances the call (`ComBalanced`).
* The server rules (392) expect `connectionType() == Default` without options; line
  34 of `ServerConfig.cpp` has made it UDP. The common rules (241-243) number the
  exit codes 1 and 2, the code 100 and 101.
* `Server::stop()` in the server rules (189-209) stops the queues and joins threads;
  the code only drops its pointers.

Bounds that are not sizes of sets: `MaxBurst` limits how many times samples
arrive during one drain of the endpoint. Without it the drain loop of line 367
could go on for ever, in the model as in the code if a device outpaced the
thread that empties it. `Saturation` stops the count of a ring on macOS that is
already overfull; a larger count would only satisfy every need sooner.

### Fairness

`CircularBuffer`: a thread in a critical section leaves it (weak fairness on loop
steps and returns); a thread that wants the mutex back gets it if it is free
again and again (strong fairness on `Resume` and `ReturnExpired`: `std::mutex`
promises no fairness, but without some nothing at all could be said of a waiter);
a sleep that lasts reaches its deadline (weak fairness on `Expire` from
`waiting`). No thread has to make a call, to push or to stop, and spurious
wakeups owe nothing. 
`WasapiAudioInput`: a call that was made takes its next step (nothing in it
blocks without a timeout), and callers keep calling `sample()`. The endpoint
owes nothing: `SampleReturns` holds if it never delivers again.

`MacAudioInput`: a running session delivers without end and its callbacks finish;
set-up and sampler take their next step unless the sampler is asleep. Without the
endless delivery nothing could be promised: a signal between look and sleep is
lost, and only the next callback makes up for it. That it does so even when its
packet is refused is what `SampleIsServed` rests on: the sampler may sleep beside
a ring so full that no packet fits any more. dealloc, once begun, goes on to its
end. Nothing ends the delivery but dealloc, which by the assumption on
`ReleasedAt` finds nobody sampling; `NothingStuck` is about the other case.

`WasapiLifetime` and `Process` state no liveness.

## 4. Proofs

`CircularBufferProofs` proves, for any sets of threads, values, spans, batch
sizes and capacities, with and without spurious wakeups and destructive moves:

* `TypeCorrect`: `Spec => []TypeOK`. Both indexes stay inside the vector, so
  `buffer_.at()` never throws.
* `Inductive`: `Spec => []IInv`, and from it
* `NoSleeperLeft`: `Spec => []NoLostWakeup`, and
* `BatchStaysInside`: `Spec => []BatchFitsOut`.

`NoLostWakeup` is not inductive: while a batch pop or span push is under way it
says nothing (the mutex is taken), and one has to know what happens until the
mutex is free again. `IInv` adds `HolderInv` (the holder of the mutex is exactly
the thread inside a loop, and `stop()` cannot have come in between), `SleepInv`
(nobody sleeps beside an element unless a span is being pushed, whose last step
wakes everybody) and `BatchInv` (what a batch took and what is left are together
less than `sz`: each iteration moves one from the second to the first). The last
one gives `BatchFitsOut`, whose loop is bounded in the code by `max_elements`
and a `break` only.

`CircularBufferRefinementProofs` proves the refinement, for the same parameters:

* `RingOfAnyType`: `HSpec /\ [][PeekKeeps]_vars => ImplementsLossyFifo`, and
  `RingImplementsFifo`: `HSpec => ImplementsLossyFifo` if a move is a copy
  (`~MoveEmpties`);
* `OnlyPeekLeavesPhantoms` and `HandsOutElements`: the same pair for
  `NoPhantomElement`.

Both need that `peek(delay)` leaves what it found (`PeekKeeps`): line 210 moves the
front element out and keeps its slot. For `int` and `PacketInfo` (plain data and a
raw pointer), the types of the repository, a move is a copy and `PeekKeeps` always
holds; for a type like `std::string` push, `peek(delay)`, `pop` hands out an empty
one. The theorems say that nothing else goes wrong with such a type.
`RecordEvents` is assumed because the answers that `LossyFifo` promises are in
`event`.

The proof has three layers. Lemmas on sequences (`NewestAppend`, `ConcatShift`,
...) say what dropping, appending and cutting do. `StoreContents` and
`TakeFrontContents` bring the index arithmetic down to them: one `Store` is
`Newest(Append(Contents, element))`, one `TakeFront` is `Tail(Contents)`, at every
position of the two indexes and in the ring of one slot. On top, one lemma per
action says which step of `LossyFifo` it is, or that it is none. The invariant is
`RInv`: `IInv`, what a thread in a call remembers of it (`CallInv`), and how far a
loop has got (`LoopInv`): while the mutex is free `committed` is the ring; in a
span push the ring is `committed` with the stored part of the span appended; in a
batch pop `committed` is the out vector followed by the ring. `ElementInv` adds
that ring and out vector hold elements only.

`WasapiAudioInputProofs` proves for all sizes, under the assumption that one thread
samples (`OneCaller`; the run `two_callers` shows why it is needed, also for the
type invariant: the second of two copies would move the position below the buffer)

* `TypeCorrect`: the write position stays in `0..BufferSize`;
* `BufferIsKept`: `Spec => []BufferInv`. In the wait fewer than `need` samples are
  stored, at the copy at least as many, and during a drain without arrivals what is
  stored and what is queued stay below `FrameSize + Frames`, which is at most the
  size of the buffer;
* `DoubleIsEnough`: with a buffer of twice the larger of endpoint buffer and frame a
  drain drops nothing unless more samples arrived after it began;
* `KeepsPromise`: every step maps to a step of `AudioSource`, which takes no more
  than is stored, or changes none of its variables.

`TypeOK` is not inductive without `BufferInv`, since the copy does not look again,
nor `BufferInv` without `TypeOK`; `IInv` is both.

`MacAudioInputProofs` proves for any number of callbacks and all sizes

* `Inductive`: `Spec => []IInv`, and from it `ReadIsSafe`:
  `Spec => []ReadsWhatIsThere`. That the count never goes below zero needs that
  only the sampler takes out of the ring, that it has not begun before the ring
  is initialized (which sets the count to zero), and that a zeroed ring refuses
  every packet, so that no early callback writes;
* `OnlyRacingOverfills`: `Spec /\ [][~Races]_vars => []NotOverfull`. The ring counts
  more than it holds only after a callback found room while another one had found
  some and not written yet (`Races`), the race that the concurrent queue allows and
  the run `mac_overfull` shows; however many callbacks are under way otherwise, it
  does not. The invariant is that what has found room keeps it (`RoomInv`) and has it
  alone (`OneProducer`);
* `FramesStayWhole`: if packets and needs are whole frames (`WholeFrames`, of
  `Saturation` too, which is a bound of the model), the ring never holds part of
  one, though it is no multiple of a frame and drops packets. The provers do not
  reason about `%` with a variable divisor; the lemmas before the theorem carry
  the quotient along instead;
* `KeepsPromise`: if the object is destroyed only when nobody samples (`Careful`),
  every step maps to a step of `AudioSource`.

`WasapiLifetimeProofs` proves, for every list of endpoints, all names and numbers
of channels asked for and every sequence of failures and exceptions, `TypeCorrect`,
`LeaksOnlyByThrow`, `EventIsOpen`, `FormatIsFloat`, `LookupIsExact`, `ListIsComplete`
and `CompleteUnregisters`. Its `IInv` has two halves. `EnumeratorInv`: what is held at
each place of the loop (`HoldsWhatItShould`), and that every endpoint passed by has
another name or none that could be read (`LoopInv`). `LifeInv`: which references
the held wrappers stand for (`OwnsInv`), that the members not destroyed yet are a
prefix of their declaration (`HeldInv`, the reason why the event outlives the
client), that a client that runs has event and format (`ClientInv`, `EventInv`), and
that a complete object is not registered while its members go (`ListenerInv`). The
two halves meet in `NextEnumerates`: a step of the object leaves the enumeration
alone or is one of its own. `ListIsComplete` needs a further invariant, `ListInv`: the
names listed so far are those of the endpoints before `index` that are not in
`unread`. `Lists` says so with an ascending function onto those endpoints, which the
proof extends by one place for each name (`ListsRead`) and keeps for each endpoint
that cannot be read (`ListsUnread`); no induction over the list is needed.

`ProcessProofs` proves for any set of queue places `TypeCorrect`, `QueuesAreOwned`,
`ConnectionIsWired`, `ComIsBalanced`, `NoFallback` and `ExitCodeIsHonest`. The use
counts are tied to the server's two pointers, which never name the same queue, and
a connection's pointers are compared with them in every phase of `run()`.

Each theorem states its own conditions, named above. The rest are the named
`ASSUME`s of the modules: sizes are natural
numbers, spans are sequences of values, names are bytes and endpoints UTF-16
codes, `NoThread` is no thread and `None` no queue.

Every invariant, action property and refinement of a passing run is stated by a
theorem. Only model-checked are the liveness properties, which are out of the
prover's reach (fairness and `ENABLED`): `StopReleases` and `WaiterIsServed`,
`SampleReturns` and `ChangeIsReported`, `SampleIsServed`.

## 5. Not modelled

* Destruction of a `CircularBuffer` with callers inside: no thread of the program
  uses one while its server lets it go. Moves and swaps of `WinHandle`, which
  nothing calls.
* `TPCircularBufferInit` is one step; a callback in the middle of it is not
  covered. What two callbacks write over each other is not followed, only how
  much the ring counts.
* The memory that `GetMixFormat` allocates (`AudioClientPtr.h:42`) and nothing
  frees; that allocations other than a name in the enumeration fail is part of the
  failure of the step they belong to.
* Objective-C reference counts: what a failed set-up leaks (`CaptureDevice.m:85-118`)
  and the autoreleased input that is released by hand.
* The threads of the connections, commented out in the code.
* The lookup of a device by name on macOS, the Linux factory (null), the lists of
  virtual sink formats, which nothing reads, and `waveformatToStr`.
* `memory_utils`, `str_utils`, `CircularBufferToStr`, `Packed`: formatting and
  layout without state; `deferral` only logs in the program.
* Data races proper: `isActive()` reads `active_` without the mutex; the model
  lets it run at any moment, with the current value.

## 6. Plan

1. *Done:* `LossyFifo`, `CircularBuffer`, the refinement as checked by TLC, the
   first inductive invariant proved.
2. *Done:* `WasapiAudioInput`, its buffer invariants proved.
3. *Done:* `MacAudioInput` and `WasapiLifetime`, the invariants of the first
   proved.
4. *Done:* dealloc and the failing set-up of `MacAudioInput`; `AudioSource`, implemented
   by both captures and proved for both.
5. *Done:* `DeviceEnumerator` under `WasapiLifetime`, `Server` and `Process`, with
   their proofs.
6. `Streaming`: two `CircularBuffer`s between a network thread and a server
   thread, as the networking rules use them, once the threads of the connections
   exist; built on `LossyFifo` and `Server`.
7. *Done:* the refinement of `LossyFifo` and `NoPhantomElement`, `HoldsWholeFrames`
   and `ListIsExact` proved.

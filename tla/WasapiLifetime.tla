-------------------------- MODULE WasapiLifetime --------------------------
(***************************************************************************)
(* The life of a WasapiAudioInput: its constructors acquire one resource   *)
(* after the other, each of which may fail, its destructor and the         *)
(* unwinding of a failed constructor give them up member by member.  COM   *)
(* objects are held through Interface<T> wrappers, the event through a     *)
(* WinHandle.  The factory lists the sources, and may construct again      *)
(* after either end, as a caller that was told to reinitialize does.       *)
(*                                                                         *)
(* What a COM object does after its last reference is undefined: it may    *)
(* answer as before, or the process crashes.                               *)
(***************************************************************************)
EXTENDS DeviceEnumerator

CONSTANT Requests   \* numbers of channels that create() is called with

ASSUME RequestsAssumption == Requests \subseteq Nat

Objects == {"enumerator", "device", "client", "capture"}

\* The source "Default", or an empty one.
Default == 0

VARIABLES
  pc,         \* what comes next
  left,       \* how many members are still to be destroyed
  channels_,  \* a uint8_t
  source,     \* audio_source
  tried,      \* how far the loop over s_AudioFormats has come
  wave,       \* what the client was initialized with
  refs,       \* refs[o]: references to COM object o on our account
  held,       \* the objects whose wrapper member is not null
  event,      \* audioEvent_: "none", "null" (failed), "open" or "closed"
  task,       \* mmcss_task_handle_: "none", "null", "joined" or "left"
  started,    \* the client runs and sets the event
  complete,   \* did the constructor of this object return?
  listeners   \* what the enumerator would call back: the notification member
              \* of the living object, of one that is no more, or neither

format  == <<tried, wave>>
asked   == <<channels_, source>>
com     == <<refs, held>>
handles == <<event, task>>
status  == <<started, complete, listeners>>
vars    == <<pc, left, asked, format, com, handles, status, enumeratorVars>>

-----------------------------------------------------------------------------
(* AudioFormats.h *)

\* s_AudioFormats: the numbers of channels; at most one entry fits.
AudioFormats == <<2, 6, 8>>

BitsPerSample(f) == CASE f \in {"f32", "s32", "s24in32"} -> 32
                      [] f = "s24" -> 24
                      [] f = "s16" -> 16

\* The channel mask, which a mix format with as many channels may replace, is
\* left out.
CreateWaveformat(f, channels) ==
  LET align == ((channels * BitsPerSample(f)) \div 8) % 65536
  IN  [SubFormat       |-> IF f = "f32" THEN "float" ELSE "pcm",
       nChannels       |-> channels,
       nBlockAlign     |-> align,
       nAvgBytesPerSec |-> 48000 * align]

NoWave == [SubFormat |-> "none", nChannels |-> 0,
           nBlockAlign |-> 0, nAvgBytesPerSec |-> 0]

-----------------------------------------------------------------------------

Init ==
  /\ pc = "none" /\ left = 0
  /\ channels_ = 0 /\ source = Default
  /\ tried = 0 /\ wave = NoWave
  /\ refs = [o \in Objects |-> 0] /\ held = {}
  /\ event = "none" /\ task = "none"
  /\ started = FALSE /\ complete = FALSE
  /\ listeners = {}
  /\ EnumeratorInit

-----------------------------------------------------------------------------
(* The factory *)

\* getAudioSources; that its enumerator cannot be created is no step.  Nothing
\* there catches an exception of the list; whoever calls it may.
ListSources ==
  /\ pc = "none"
  /\ Begin("names", Default)
  /\ UNCHANGED <<pc, left, asked, format, com, handles, status>>

Enumeration ==
  /\ pc # "crashed"
  /\ Enumerating
  /\ UNCHANGED <<pc, left, asked, format, com, handles, status>>

-----------------------------------------------------------------------------
(* The constructors *)

\* Mutant: the event is declared after the client.
MembersEventLast ==
  <<"enumerator", "device", "client", "capture", "notification", "task", "event">>

\* The members that need destruction, in the order of their declaration.
Members ==
  <<"event", "enumerator", "device", "client", "capture", "notification", "task">>

\* create() casts the channels; construction begins with the members, the
\* enumerator is one of them.
Construct(n, s) ==
  /\ pc = "none" /\ Outside
  /\ pc' = "event" /\ tried' = 0 /\ wave' = NoWave
  /\ channels_' = n % 256 /\ source' = s
  /\ refs' = [o \in Objects |-> IF o = "enumerator" THEN 1 ELSE 0]
  /\ held' = {"enumerator"}
  /\ event' = "none" /\ task' = "none" /\ complete' = FALSE
  /\ UNCHANGED <<left, started, listeners, enumeratorVars>>

\* A null handle passes the check: only INVALID_HANDLE_VALUE is invalid.
CreateEvent ==
  /\ pc = "event"
  /\ event' \in {"open", "null"}
  /\ pc' = "register"
  /\ UNCHANGED <<left, asked, format, com, task, status, enumeratorVars>>

Register ==
  /\ pc = "register"
  /\ listeners' = listeners \cup {"living"}
  /\ pc' = "device"
  /\ UNCHANGED <<left, asked, format, com, handles, started, complete, enumeratorVars>>

\* member = Interface(pointer): the assignment copies the pointer, and the
\* temporary releases the one reference that came with it.
Assign(o) ==
  /\ refs' = [refs EXCEPT ![o] = 1 - 1]
  /\ held' = held \cup {o}

GetDefaultDevice ==
  /\ pc = "device" /\ source = Default
  /\ Assign("device")
  /\ pc' = "client"
  /\ UNCHANGED <<left, asked, format, handles, status, enumeratorVars>>

LookUpDevice ==
  /\ pc = "device" /\ source # Default
  /\ Begin("byName", source)
  /\ pc' = "lookup"
  /\ UNCHANGED <<left, asked, format, com, handles, status>>

GetDeviceByName ==
  /\ pc = "lookup" /\ place = "done" /\ found # 0
  /\ Assign("device")
  /\ pc' = "client"
  /\ UNCHANGED <<left, asked, format, handles, status, enumeratorVars>>

Trying  == pc = "client" /\ tried < Len(AudioFormats)
NextFormat == AudioFormats[tried + 1]

\* An entry with another number of channels.
SkipFormat ==
  /\ Trying /\ NextFormat # channels_
  /\ tried' = tried + 1
  /\ UNCHANGED <<pc, left, asked, wave, com, handles, status, enumeratorVars>>

\* The constructor of AudioClientPtr throws; its base releases what it got.
RejectFormat ==
  /\ Trying /\ NextFormat = channels_
  /\ tried' = tried + 1
  /\ UNCHANGED <<pc, left, asked, wave, com, handles, status, enumeratorVars>>

\* Mutant: the first entry that the client takes, whatever its channels.
OpenClientAny ==
  /\ Trying
  /\ tried' = tried + 1
  /\ wave' = CreateWaveformat("f32", NextFormat)
  /\ refs' = [refs EXCEPT !["client"] = @ + 1]
  /\ held' = held \cup {"client"}
  /\ pc' = "service"
  /\ UNCHANGED <<left, asked, handles, status, enumeratorVars>>

\* Activate and Initialize succeed.
OpenClient ==
  /\ Trying /\ NextFormat = channels_
  /\ tried' = tried + 1
  /\ wave' = CreateWaveformat("f32", NextFormat)
  /\ refs' = [refs EXCEPT !["client"] = @ + 1]
  /\ held' = held \cup {"client"}
  /\ pc' = "service"
  /\ UNCHANGED <<left, asked, handles, status, enumeratorVars>>

\* GetBufferSize and GetService.
GetService ==
  /\ pc = "service"
  /\ Assign("capture")
  /\ pc' = "eventHandle"
  /\ UNCHANGED <<left, asked, format, handles, status, enumeratorVars>>

\* The client accepts no null handle.
SetEventHandle ==
  /\ pc = "eventHandle" /\ event = "open"
  /\ pc' = "task"
  /\ UNCHANGED <<left, asked, format, com, handles, status, enumeratorVars>>

\* Here a null handle passes the check too.
JoinTask ==
  /\ pc = "task"
  /\ task' \in {"joined", "null"}
  /\ pc' = "start"
  /\ UNCHANGED <<left, asked, format, com, event, status, enumeratorVars>>

Start ==
  /\ pc = "start"
  /\ started' = TRUE /\ complete' = TRUE
  /\ pc' = "running"
  /\ UNCHANGED <<left, asked, format, com, handles, listeners, enumeratorVars>>

\* Registering, finding a device, a format or the service, setting the event
\* or starting fails, or the lookup threw: the constructor throws, create()
\* catches, and the members are destroyed.
Throw ==
  /\ \/ pc \in {"register", "service", "eventHandle", "start"}
     \/ pc = "device" /\ source = Default
     \/ pc = "lookup" /\ place = "done" /\ found = 0
     \/ pc = "lookup" /\ place = "threw"
     \/ pc = "client" /\ tried = Len(AudioFormats)
  /\ pc' = "destroy" /\ left' = Len(Members)
  /\ UNCHANGED <<asked, format, com, handles, status, enumeratorVars>>

-----------------------------------------------------------------------------
(* The destructor *)

\* Mutant: the notification is left to the destruction of the members.
DestructRegistered ==
  /\ pc = "running"
  /\ task' = IF task = "joined" THEN "left" ELSE task
  /\ pc' = "destroy" /\ left' = Len(Members)
  /\ UNCHANGED <<asked, format, com, event, status, enumeratorVars>>

\* Its body: unregisters, and leaves the MMCSS task.
Destruct ==
  /\ pc = "running"
  /\ listeners' = listeners \ {"living"}
  /\ task' = IF task = "joined" THEN "left" ELSE task
  /\ pc' = "destroy" /\ left' = Len(Members)
  /\ UNCHANGED <<asked, format, com, event, started, complete, enumeratorVars>>

\* The next member is m: the last declared goes first.
Destroying(m) ==
  /\ pc = "destroy" /\ left > 0
  /\ Members[left] = m
  /\ left' = left - 1
  /\ UNCHANGED <<pc, asked, format, complete, enumeratorVars>>

\* ~Interface: Release, if it is not null; ~AudioClientPtr has stopped it.
ReleaseMember(o) ==
  /\ Destroying(o)
  /\ refs' = IF o \in held THEN [refs EXCEPT ![o] = @ - 1] ELSE refs
  /\ held' = held \ {o}
  /\ started' = (started /\ o # "client")
  /\ UNCHANGED <<handles, listeners>>

CloseEvent ==
  /\ Destroying("event")
  /\ event' = IF event = "open" THEN "closed" ELSE event
  /\ UNCHANGED <<com, task, started, listeners>>

\* CloseHandle, which is not what ends the membership in the task.
CloseTask ==
  /\ Destroying("task")
  /\ UNCHANGED <<com, handles, started, listeners>>

\* The memory goes; who still had its address calls into nothing.
EndNotification ==
  /\ Destroying("notification")
  /\ listeners' = IF "living" \in listeners THEN {"dead"} ELSE listeners
  /\ UNCHANGED <<com, handles, started>>

Destroyed ==
  /\ pc = "destroy" /\ left = 0
  /\ pc' = "none"
  /\ UNCHANGED <<left, asked, format, com, handles, status, enumeratorVars>>

-----------------------------------------------------------------------------
\* Something is called that is no more: the device by Activate, the capture
\* client by fillBuffer(), a wrapped object by Release, a listener by the
\* system.
CallsDead ==
  \/ pc = "client" /\ refs["device"] < 1
  \/ pc = "running" /\ refs["capture"] < 1
  \/ pc = "destroy" /\ left > 0 /\ \E o \in held : Members[left] = o /\ refs[o] < 1
  \/ "dead" \in listeners

Crash ==
  /\ pc # "crashed" /\ CallsDead
  /\ pc' = "crashed"
  /\ UNCHANGED <<left, asked, format, com, handles, status, enumeratorVars>>

Next ==
  \/ ListSources \/ Enumeration
  \/ \E n \in Requests, s \in Sources \cup {Default} : Construct(n, s)
  \/ CreateEvent \/ Register
  \/ GetDefaultDevice \/ LookUpDevice \/ GetDeviceByName
  \/ SkipFormat \/ RejectFormat \/ OpenClient
  \/ GetService \/ SetEventHandle \/ JoinTask \/ Start \/ Throw
  \/ Destruct
  \/ \E o \in Objects : ReleaseMember(o)
  \/ CloseEvent \/ CloseTask \/ EndNotification \/ Destroyed
  \/ Crash

Spec == Init /\ [][Next]_vars

-----------------------------------------------------------------------------
(* Correctness *)

TypeOK ==
  /\ EnumeratorTypeOK
  /\ pc \in {"none", "event", "register", "device", "lookup", "client", "service",
             "eventHandle", "task", "start", "running", "destroy", "crashed"}
  /\ left \in 0..Len(Members)
  /\ channels_ \in 0..255 /\ source \in Sources \cup {Default}
  /\ tried \in 0..Len(AudioFormats)
  /\ wave \in {NoWave} \cup {CreateWaveformat("f32", AudioFormats[i]) : i \in 1..3}
  /\ refs \in [Objects -> -1..1]
  /\ held \subseteq Objects
  /\ event \in {"none", "null", "open", "closed"}
  /\ task \in {"none", "null", "joined", "left"}
  /\ started \in BOOLEAN /\ complete \in BOOLEAN
  /\ listeners \subseteq {"living", "dead"}

\* What an exception leaves behind for ever (DeviceEnumeratorPtr.h 92-93, 140).
Abandoned == [t \in Temporaries |-> IF t = "enumerator" THEN 0 ELSE 1]

\* However far the constructor came (lines 37-298), no reference to a COM
\* object and no event handle of the members is still held when the object is
\* gone.  An enumeration that returns, from wherever, holds nothing any more;
\* one that throws leaves the four things its loop holds as raw pointers.
OnlyThrowsLeak ==
  /\ pc = "none" => event # "open" /\ \A o \in Objects : refs[o] <= 0
  /\ place = "done"  => owned = Nothing
  /\ place = "threw" => owned = Abandoned

\* A client that runs delivers what fillBuffer takes it for (lines 391-410 of
\* WasapiAudioInput.cpp): frames of channels_ floats, although the channels
\* were cut to a byte and the format was chosen from a table.
FramesAreFloats ==
  started => wave.SubFormat = "float" /\ wave.nBlockAlign = 4 * channels_

\* As long as the client runs, the event it sets is open: the order of the
\* members (lines 40-59 of WasapiAudioInput.h) keeps it so.
EventOutlivesClient == started => event = "open"

\* An object that was constructed to the end leaves no listener behind.
ListenerGoes ==
  [][complete /\ "dead" \notin listeners => "dead" \notin listeners']_vars

-----------------------------------------------------------------------------
(* What the repository says of this code and it does not do *)

\* A wrapper that is not null refers to an object that is still referenced.
WrapperRefersToLive == \A o \in held : refs[o] > 0
=============================================================================

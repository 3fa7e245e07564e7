---------------------- MODULE WasapiLifetimeProofs ----------------------
(***************************************************************************)
(* Proofs about WasapiLifetime and the DeviceEnumerator in it, for every   *)
(* list of endpoints, every name and number of channels asked for, and     *)
(* every sequence of failures and exceptions.                              *)
(***************************************************************************)
EXTENDS WasapiLifetime, TLAPS

-----------------------------------------------------------------------------
(* The enumerator *)

\* The endpoint at hand is one of those counted; what lies behind was read or
\* could not be; and a lookup has passed by no endpoint of its name.
LoopInv ==
  /\ index <= count + 1
  /\ place \in {"store", "value", "compare"} => index <= count
  /\ place = "enumerate" => count = 0 /\ index = 1 /\ unread = {}
  /\ unread \subseteq 1..index - 1
  /\ place # "done" /\ operation = "byName" =>
       \A i \in 1..index - 1 : i \in unread \/ Narrowed(i) # name
  /\ place = "done" /\ operation = "byName" =>
       IF found = 0 THEN \A i \in 1..count : i \in unread \/ Narrowed(i) # name
       ELSE /\ found \in 1..count \ unread /\ Narrowed(found) = name
            /\ \A i \in 1..count \ unread : Narrowed(i) = name => found <= i

EnumeratorInv == EnumeratorTypeOK /\ HoldsWhatItShould /\ LoopInv

\* A step of the enumeration, or the beginning of one.
EnumeratorStep ==
  \/ \E o \in {"names", "byName"}, n \in Sources \cup {Default} : Begin(o, n)
  \/ Enumerating

LEMMA LowByte == ASSUME NEW n \in Codes PROVE n % 256 \in 0..255
BY DEF Codes

LEMMA SeqFacts ==
  ASSUME NEW S, NEW s \in Seq(S)
  PROVE  Len(s) \in Nat /\ \A i \in 1..Len(s) : s[i] \in S
OBVIOUS

LEMMA FirstRound ==
  ASSUME NEW c \in Nat, NEW i, i = 1
  PROVE  1..i - 1 = {} /\ i <= c + 1
OBVIOUS

LEMMA EndpointFacts ==
  /\ Len(Endpoints) \in Nat
  /\ \A i \in 1..Len(Endpoints) : Narrowed(i) \in 0..255
<1>1. Len(Endpoints) \in Nat /\ \A i \in 1..Len(Endpoints) : Endpoints[i] \in Codes
  BY EndpointsAssumption, SeqFacts, Zenon
<1>2. ASSUME NEW i \in 1..Len(Endpoints) PROVE Narrowed(i) \in 0..255
  <2>1. Endpoints[i] \in Codes
    BY <1>1, Zenon
  <2> QED BY <2>1, LowByte, Zenon DEF Narrowed
<1> QED BY <1>1, <1>2, Zenon

LEMMA EnumeratorInitInv == EnumeratorInit => EnumeratorInv
BY EndpointFacts
DEF EnumeratorInit, EnumeratorInv, EnumeratorTypeOK, HoldsWhatItShould, LoopInv,
    Nothing, Temporaries, Outside

LEMMA EnumeratorStepInv ==
  EnumeratorInv /\ [EnumeratorStep]_enumeratorVars => EnumeratorInv'
<1> SUFFICES ASSUME EnumeratorInv, [EnumeratorStep]_enumeratorVars
             PROVE  EnumeratorInv'
  OBVIOUS
<1> USE EndpointFacts
    DEF EnumeratorInv, EnumeratorTypeOK, HoldsWhatItShould, LoopInv, loop,
        Temporaries, Take, Drop, Outside, Automatic
<1>1. ASSUME NEW o \in {"names", "byName"}, NEW n \in Sources \cup {Default},
             Begin(o, n)
      PROVE  EnumeratorInv'
  BY <1>1, SourcesAssumption DEF Begin, Nothing, Default
<1>2. CASE EnumerateFails
  BY <1>2 DEF EnumerateFails, Leave
<1>3. CASE Enumerate
  <2>1. owned' = [owned EXCEPT !["collection"] = 1]
    BY <1>3 DEF Enumerate
  <2>2. /\ owned' \in [Temporaries -> {0, 1}]
        /\ count' \in {0, Len(Endpoints)} /\ count' \in Nat
    BY <1>3, <2>1 DEF Enumerate
  <2>3. EnumeratorTypeOK'
    BY <1>3, <2>2 DEF Enumerate
  <2>4. HoldsWhatItShould'
    BY <1>3, <2>1 DEF Enumerate
  <2>5. index' = 1 /\ unread' = {} /\ place' = "item" /\ operation' = operation
    BY <1>3 DEF Enumerate
  <2>6. LoopInv'
    <3>1. 1..index' - 1 = {} /\ index' <= count' + 1
      BY <2>2, <2>5, FirstRound, Zenon
    <3> QED BY <2>5, <3>1, Zenon
  <2> QED BY <2>3, <2>4, <2>6
<1>4. CASE NoItem
  BY <1>4 DEF NoItem, NextUnread, Ahead
<1>5. CASE Item
  BY <1>5 DEF Item, Ahead
<1>6. CASE NoStore
  BY <1>6 DEF NoStore, NextUnread
<1>7. CASE OpenPropertyStore
  BY <1>7 DEF OpenPropertyStore
<1>8. CASE NoName
  BY <1>8 DEF NoName, NextUnread
<1>9. CASE GetName
  BY <1>9 DEF GetName
<1>10. CASE ListName
  <2>1. names' \in Seq(0..255)
    <3>1. Narrowed(index) \in 0..255
      <4>1. index \in 1..Len(Endpoints)
        BY <1>10 DEF ListName
      <4> QED BY <4>1
    <3> QED BY <1>10, <3>1 DEF ListName
  <2> QED BY <1>10, <2>1 DEF ListName, Finished
<1>11. CASE OtherName
  BY <1>11 DEF OtherName, Finished
<1>12. CASE SameName
  BY <1>12 DEF SameName, Leave
<1>13. CASE EndOfList
  BY <1>13 DEF EndOfList, Leave
<1>14. CASE OutOfMemory
  BY <1>14 DEF OutOfMemory
<1>15. CASE UNCHANGED enumeratorVars
  BY <1>15 DEF enumeratorVars
<1> QED
  BY <1>1, <1>2, <1>3, <1>4, <1>5, <1>6, <1>7, <1>8, <1>9, <1>10, <1>11, <1>12,
     <1>13, <1>14, <1>15
  DEF EnumeratorStep, Enumerating

\* After a return nothing that the call acquired is left (lines 56-157), after
\* an exception the four raw pointers of the loop.
LEMMA WhatIsLeft ==
  EnumeratorInv => /\ place = "done"  => owned = Nothing
                   /\ place = "threw" => owned = Abandoned
<1> SUFFICES ASSUME EnumeratorInv PROVE /\ place = "done"  => owned = Nothing
                                        /\ place = "threw" => owned = Abandoned
  OBVIOUS
<1> USE DEF EnumeratorInv, EnumeratorTypeOK, HoldsWhatItShould, Temporaries, Outside
<1>1. place = "done" => owned = Nothing
  BY DEF Nothing
<1>2. place = "threw" => owned = Abandoned
  BY DEF Abandoned
<1> QED BY <1>1, <1>2

\* getDeviceByName is exact when it returns, whatever failed in its loop.
LEMMA FindsExactly == EnumeratorInv => FindIsExact
BY EndpointFacts DEF EnumeratorInv, EnumeratorTypeOK, LoopInv, FindIsExact

\* What getDeviceNames has so far; at its end it has passed every endpoint.
ListInv ==
  operation = "names" =>
    /\ Lists(names, index - 1, unread)
    /\ place = "done" => index = count + 1

LEMMA ListsNothing == Lists(<<>>, 0, {})
<1>1. PICK e : e = <<>>
  OBVIOUS
<1>2. Len(e) = 0 /\ 1..Len(e) = {} /\ e \in [1..Len(e) -> 1..0]
  BY <1>1
<1>3. Ascends(e, 1..0 \ {})
  <2>1. DOMAIN e = {}
    BY <1>2
  <2>2. {e[k] : k \in {}} = {} /\ 1..0 = {}
    OBVIOUS
  <2> QED BY <1>2, <2>1, <2>2 DEF Ascends
<1>4. \A k \in 1..Len(e) : e[k] = Narrowed(e[k])
  BY <1>2
<1>5. Lists(e, 0, {})
  BY <1>2, <1>3, <1>4, Zenon DEF Lists
<1> QED BY <1>1, <1>5

\* An endpoint that cannot be read leaves the list as it is.
LEMMA ListsUnread ==
  ASSUME NEW i \in Nat \ {0}, NEW ns, NEW u, Lists(ns, i - 1, u)
  PROVE  Lists(ns, i, u \cup {i})
<1>1. PICK s \in [1..Len(ns) -> 1..(i - 1)] :
        /\ Ascends(s, 1..(i - 1) \ u)
        /\ \A k \in 1..Len(ns) : ns[k] = Narrowed(s[k])
  BY DEF Lists
<1>2. 1..i \ (u \cup {i}) = 1..(i - 1) \ u
  OBVIOUS
<1>3. s \in [1..Len(ns) -> 1..i]
  OBVIOUS
<1> QED BY <1>1, <1>2, <1>3 DEF Lists

\* One more endpoint that s visits.
LEMMA AscendsByOne ==
  ASSUME NEW n \in Nat, NEW i \in Nat \ {0}, NEW T,
         NEW s \in [1..n -> 1..(i - 1)], Ascends(s, T),
         NEW t, t = [k \in 1..(n + 1) |-> IF k <= n THEN s[k] ELSE i]
  PROVE  t \in [1..(n + 1) -> 1..i] /\ Ascends(t, T \cup {i})
<1>1. t \in [1..(n + 1) -> 1..i]
  OBVIOUS
<1>2. \A k \in 1..n : t[k] = s[k] /\ s[k] < i
  OBVIOUS
<1>3. t[n + 1] = i
  OBVIOUS
<1>4. 1..(n + 1) = 1..n \cup {n + 1}
  OBVIOUS
<1>5. {s[k] : k \in 1..n} = T
  BY DEF Ascends
<1>6. {t[k] : k \in 1..(n + 1)} = T \cup {i}
  BY <1>2, <1>3, <1>4, <1>5
<1>7. ASSUME NEW j \in 1..(n + 1), NEW k \in 1..(n + 1), j < k
      PROVE  t[j] < t[k]
  <2>1. CASE k \in 1..n
    BY <1>2, <1>7, <2>1 DEF Ascends
  <2>2. CASE k = n + 1
    BY <1>2, <1>3, <1>7, <2>2
  <2> QED BY <2>1, <2>2
<1> QED BY <1>1, <1>6, <1>7 DEF Ascends

LEMMA ListsRead ==
  ASSUME NEW i \in Nat \ {0}, NEW S, NEW ns \in Seq(S), NEW u,
         u \subseteq 1..(i - 1), Narrowed(i) \in S, Lists(ns, i - 1, u)
  PROVE  Lists(Append(ns, Narrowed(i)), i, u)
<1>1. PICK s \in [1..Len(ns) -> 1..(i - 1)] :
        /\ Ascends(s, 1..(i - 1) \ u)
        /\ \A k \in 1..Len(ns) : ns[k] = Narrowed(s[k])
  BY DEF Lists
<1>2. PICK n \in Nat : n = Len(ns)
  OBVIOUS
<1>3. PICK t : t = [k \in 1..(n + 1) |-> IF k <= n THEN s[k] ELSE i]
  OBVIOUS
<1>4. t \in [1..(n + 1) -> 1..i] /\ Ascends(t, (1..(i - 1) \ u) \cup {i})
  <2>1. s \in [1..n -> 1..(i - 1)]
    BY <1>1, <1>2
  <2>2. PICK T : T = 1..(i - 1) \ u
    OBVIOUS
  <2>3. Ascends(s, T)
    BY <1>1, <2>2
  <2>4. t \in [1..(n + 1) -> 1..i] /\ Ascends(t, T \cup {i})
    BY <1>3, <2>1, <2>3, AscendsByOne
  <2> QED BY <2>2, <2>4
<1>5. (1..(i - 1) \ u) \cup {i} = 1..i \ u
  OBVIOUS
<1>6. PICK new : new = Append(ns, Narrowed(i))
  OBVIOUS
<1>7. Len(new) = n + 1 /\ new[n + 1] = Narrowed(i) /\ \A k \in 1..n : new[k] = ns[k]
  BY <1>2, <1>6
<1>8. ASSUME NEW k \in 1..(n + 1) PROVE new[k] = Narrowed(t[k])
  <2>1. CASE k \in 1..n
    BY <1>1, <1>2, <1>3, <1>7, <2>1
  <2>2. CASE k = n + 1
    BY <1>3, <1>7, <2>2
  <2> QED BY <2>1, <2>2
<1> QED BY <1>4, <1>5, <1>6, <1>7, <1>8 DEF Lists

LEMMA ListInitInv == EnumeratorInit => ListInv
BY DEF EnumeratorInit, ListInv

LEMMA ListStepInv ==
  EnumeratorInv /\ ListInv /\ [EnumeratorStep]_enumeratorVars => ListInv'
<1> SUFFICES ASSUME EnumeratorInv, ListInv, [EnumeratorStep]_enumeratorVars
             PROVE  ListInv'
  OBVIOUS
<1>1. ASSUME NEW o \in {"names", "byName"}, NEW n, Begin(o, n) PROVE ListInv'
  <2>1. names' = <<>> /\ index' = 1 /\ unread' = {} /\ place' # "done"
    BY <1>1 DEF Begin
  <2>2. Lists(names', index' - 1, unread')
    <3>1. index' - 1 = 0
      BY <2>1
    <3> QED BY <2>1, <3>1, ListsNothing
  <2> QED BY <2>1, <2>2 DEF ListInv
<1>2. ASSUME UNCHANGED <<names, unread, index, operation>>,
             operation = "names" /\ place' = "done" => index = count' + 1
      PROVE  ListInv'
  BY <1>2 DEF ListInv
<1>3. /\ index \in Nat \ {0} /\ unread \subseteq 1..(index - 1)
      /\ count \in Nat /\ (place = "enumerate" => index = count + 1)
      /\ index <= count + 1
  BY EndpointFacts DEF EnumeratorInv, EnumeratorTypeOK, LoopInv
<1>4. ASSUME NextUnread PROVE ListInv'
  <2>1. /\ index' = index + 1 /\ names' = names /\ operation' = operation
        /\ unread' = unread \cup {index} /\ place' # "done"
    BY <1>4 DEF NextUnread
  <2>2. index' - 1 = index
    BY <1>3, <2>1
  <2> QED BY <1>3, <2>1, <2>2, ListsUnread DEF ListInv
<1>5. CASE ListName
  <2>1. /\ index' = index + 1 /\ names' = Append(names, Narrowed(index))
        /\ operation' = operation /\ unread' = unread /\ place' # "done"
    BY <1>5 DEF ListName, Finished
  <2>2. index' - 1 = index
    BY <1>3, <2>1
  <2>3. Narrowed(index) \in 0..255 /\ names \in Seq(0..255)
    <3>1. index \in 1..Len(Endpoints)
      BY <1>3, <1>5, EndpointFacts
         DEF ListName, EnumeratorInv, EnumeratorTypeOK, LoopInv
    <3> QED BY <3>1, EndpointFacts DEF EnumeratorInv, EnumeratorTypeOK
  <2> QED BY <1>3, <2>1, <2>2, <2>3, ListsRead DEF ListInv
<1>6. CASE EnumerateFails
  BY <1>2, <1>3, <1>6 DEF EnumerateFails, Leave, loop
<1>7. CASE EndOfList
  BY <1>2, <1>3, <1>7 DEF EndOfList, Leave, loop
<1>8. CASE SameName
  BY <1>2, <1>8 DEF SameName, loop
<1>9. CASE Enumerate \/ Item \/ OpenPropertyStore \/ GetName \/ OutOfMemory
  BY <1>2, <1>9 DEF Enumerate, Item, OpenPropertyStore, GetName, OutOfMemory, loop
<1>10. CASE OtherName
  BY <1>10 DEF OtherName, Finished, ListInv
<1>11. CASE NoItem \/ NoStore \/ NoName
  BY <1>4, <1>11 DEF NoItem, NoStore, NoName
<1>12. CASE UNCHANGED enumeratorVars
  BY <1>12 DEF enumeratorVars, loop, ListInv
<1> QED
  BY <1>1, <1>5, <1>6, <1>7, <1>8, <1>9, <1>10, <1>11, <1>12
  DEF EnumeratorStep, Enumerating

-----------------------------------------------------------------------------
(* The object *)

Constructing == {"event", "register", "device", "lookup", "client", "service",
                 "eventHandle", "task", "start"}

\* Enumerator and client are referenced as long as their wrapper holds them;
\* the reference to device and capture is gone from the assignment on.
OwnsInv ==
  /\ \A o \in {"enumerator", "client"} : refs[o] = IF o \in held THEN 1 ELSE 0
  /\ \A o \in {"device", "capture"} : refs[o] \in {-1, 0} /\ (o \in held => refs[o] = 0)

\* What is not destroyed yet is a prefix of the members.
HeldInv ==
  /\ pc = "none" => held = {}
  /\ pc \in {"event", "register", "device", "lookup", "client"} => "client" \notin held
  /\ pc = "destroy" => \A i \in 1..Len(Members) : Members[i] \in held => i <= left

EventInv ==
  /\ pc = "none" \/ (pc = "destroy" /\ left = 0) => event # "open"
  /\ pc \in {"task", "start", "running"} => event = "open"

\* A client has the format that was asked for; one that runs has its event.
FloatWave == channels_ \in {2, 6, 8} /\ wave = CreateWaveformat("f32", channels_)

ClientInv ==
  /\ pc \in {"service", "eventHandle", "task", "start", "running"} =>
       "client" \in held /\ FloatWave
  /\ started =>
       /\ pc \in {"running", "destroy", "crashed"}
       /\ event = "open" /\ "client" \in held /\ FloatWave

ListenerInv ==
  /\ pc \in Constructing => ~complete
  /\ complete /\ pc = "destroy" => "living" \notin listeners

LifeInv == TypeOK /\ OwnsInv /\ HeldInv /\ EventInv /\ ClientInv /\ ListenerInv
IInv    == LifeInv /\ EnumeratorInv

LEMMA MemberFacts ==
  /\ Len(Members) = 7 /\ 1..Len(Members) = 1..7
  /\ Members[1] = "event" /\ Members[2] = "enumerator" /\ Members[3] = "device"
  /\ Members[4] = "client" /\ Members[5] = "capture"
  /\ Members[6] = "notification" /\ Members[7] = "task"
BY DEF Members

LEMMA FormatFacts ==
  /\ Len(AudioFormats) = 3
  /\ \A i \in 1..3 : AudioFormats[i] \in {2, 6, 8}
  /\ \A c \in {2, 6, 8} : \E i \in 1..3 : c = AudioFormats[i]
BY DEF AudioFormats

\* The frames of a chosen format are as many floats as it has channels.
LEMMA WaveIsFloats ==
  ASSUME NEW c \in {2, 6, 8}
  PROVE  /\ CreateWaveformat("f32", c).SubFormat = "float"
         /\ CreateWaveformat("f32", c).nBlockAlign = 4 * c
<1>1. BitsPerSample("f32") = 32
  BY DEF BitsPerSample
<1>2. ((c * 32) \div 8) % 65536 = 4 * c
  OBVIOUS
<1> QED BY <1>1, <1>2 DEF CreateWaveformat

\* Destroying the next member leaves the rest of them a prefix.
LEMMA PrefixStays ==
  ASSUME TypeOK, HeldInv, NEW m, Destroying(m), held' \subseteq held, m \notin held'
  PROVE  \A i \in 1..Len(Members) : Members[i] \in held' => i <= left'
<1> SUFFICES ASSUME NEW i \in 1..Len(Members), Members[i] \in held'
             PROVE  i <= left'
  OBVIOUS
<1>1. i <= left
  BY DEF HeldInv, Destroying
<1>2. i # left
  BY DEF Destroying
<1> QED BY <1>1, <1>2, MemberFacts DEF Destroying, TypeOK

LEMMA LifeInit == Init => LifeInv
<1> SUFFICES ASSUME Init PROVE LifeInv
  OBVIOUS
<1>1. EnumeratorTypeOK
  BY EnumeratorInitInv DEF Init, EnumeratorInv
<1>2. TypeOK
  <2>1. refs \in [Objects -> -1..1]
    BY DEF Init
  <2>2. left \in 0..Len(Members) /\ tried \in 0..Len(AudioFormats)
    BY MemberFacts, FormatFacts DEF Init
  <2>3. wave \in {NoWave} \cup {CreateWaveformat("f32", AudioFormats[i]) : i \in 1..3}
    BY DEF Init
  <2>4. channels_ \in 0..255 /\ source \in Sources \cup {Default}
    BY DEF Init
  <2> QED BY <1>1, <2>1, <2>2, <2>3, <2>4, Zenon DEF Init, TypeOK
<1>3. OwnsInv /\ HeldInv /\ EventInv /\ ClientInv /\ ListenerInv
  BY MemberFacts
  DEF Init, OwnsInv, HeldInv, EventInv, ClientInv, ListenerInv, Constructing, Objects
<1> QED BY <1>2, <1>3 DEF LifeInv

LEMMA LifeStepInv ==
  IInv /\ [Next]_vars /\ EnumeratorTypeOK' => LifeInv'
<1> SUFFICES ASSUME IInv, [Next]_vars, EnumeratorTypeOK'
             PROVE  LifeInv'
  OBVIOUS
<1> USE MemberFacts, FormatFacts
    DEF IInv, LifeInv, TypeOK, OwnsInv, HeldInv, EventInv, ClientInv, ListenerInv,
        FloatWave, Constructing, Objects, Default, asked, format, com, handles, status
<1>1. CASE ListSources
  BY <1>1 DEF ListSources
<1>2. CASE Enumeration
  BY <1>2 DEF Enumeration
<1>3. ASSUME NEW n \in Requests, NEW s \in Sources \cup {Default}, Construct(n, s)
      PROVE  LifeInv'
  <2>1. n % 256 \in 0..255
    BY RequestsAssumption
  <2>2. refs' \in [Objects -> -1..1] /\ OwnsInv'
    BY <1>3 DEF Construct
  <2>3. TypeOK'
    <3>1. wave' \in {NoWave} \cup {CreateWaveformat("f32", AudioFormats[i]) : i \in 1..3}
      BY <1>3 DEF Construct
    <3>2. left' \in 0..Len(Members) /\ tried' \in 0..Len(AudioFormats)
      BY <1>3 DEF Construct
    <3>3. started' \in BOOLEAN /\ complete' \in BOOLEAN
      BY <1>3 DEF Construct
    <3> QED BY <1>3, <2>1, <2>2, <3>1, <3>2, <3>3, Zenon DEF Construct
  <2>4. started = FALSE
    BY <1>3 DEF Construct
  <2>5. HeldInv' /\ EventInv' /\ ListenerInv'
    BY <1>3 DEF Construct
  <2>6. ClientInv'
    BY <1>3, <2>4 DEF Construct
  <2> QED BY <2>2, <2>3, <2>5, <2>6
<1>4. CASE CreateEvent
  BY <1>4 DEF CreateEvent
<1>5. CASE Register
  BY <1>5 DEF Register
<1>6. CASE GetDefaultDevice
  BY <1>6 DEF GetDefaultDevice, Assign
<1>7. CASE LookUpDevice
  BY <1>7 DEF LookUpDevice
<1>8. CASE GetDeviceByName
  BY <1>8 DEF GetDeviceByName, Assign
<1>9. CASE SkipFormat
  BY <1>9 DEF SkipFormat, Trying
<1>10. CASE RejectFormat
  BY <1>10 DEF RejectFormat, Trying
<1>11. CASE OpenClient
  <2>1. /\ tried + 1 \in 1..3 /\ channels_ = AudioFormats[tried + 1]
        /\ wave' = CreateWaveformat("f32", AudioFormats[tried + 1])
    BY <1>11 DEF OpenClient, Trying, NextFormat
  <2>2. FloatWave' /\ wave' \in {NoWave} \cup
                        {CreateWaveformat("f32", AudioFormats[i]) : i \in 1..3}
    BY <1>11, <2>1 DEF OpenClient
  <2> QED BY <1>11, <2>1, <2>2 DEF OpenClient, Trying
<1>12. CASE GetService
  BY <1>12 DEF GetService, Assign
<1>13. CASE SetEventHandle
  BY <1>13 DEF SetEventHandle
<1>14. CASE JoinTask
  BY <1>14 DEF JoinTask
<1>15. CASE Start
  BY <1>15 DEF Start
<1>16. CASE Throw
  BY <1>16 DEF Throw
<1>17. CASE Destruct
  BY <1>17 DEF Destruct
<1>18. ASSUME NEW o \in Objects, ReleaseMember(o)
       PROVE  LifeInv'
  <2>1. \A i \in 1..Len(Members) : Members[i] \in held' => i <= left'
    BY <1>18, PrefixStays DEF ReleaseMember
  <2>2. refs' \in [Objects -> -1..1] /\ OwnsInv'
    BY <1>18 DEF ReleaseMember, Destroying
  <2>3. started' \in BOOLEAN /\ held' \subseteq Objects /\ left' \in 0..Len(Members)
    BY <1>18 DEF ReleaseMember, Destroying
  <2>4. TypeOK'
    BY <1>18, <2>2, <2>3 DEF ReleaseMember, Destroying
  <2>5. HeldInv' /\ ListenerInv'
    BY <1>18, <2>1 DEF ReleaseMember, Destroying
  <2>6. EventInv'
    BY <1>18 DEF ReleaseMember, Destroying
  <2>7. ClientInv'
    BY <1>18 DEF ReleaseMember, Destroying
  <2> QED BY <2>2, <2>4, <2>5, <2>6, <2>7
<1>19. CASE CloseEvent
  <2>1. \A i \in 1..Len(Members) : Members[i] \in held' => i <= left'
    BY <1>19, PrefixStays DEF CloseEvent
  <2>2. left = 1 /\ ~started
    BY <1>19 DEF CloseEvent, Destroying
  <2>3. left' = 0 /\ event' # "open" /\ started' = FALSE
    BY <1>19, <2>2 DEF CloseEvent, Destroying
  <2>4. /\ pc' = pc /\ pc = "destroy" /\ held' = held /\ refs' = refs
        /\ event' \in {"none", "null", "open", "closed"}
    BY <1>19 DEF CloseEvent, Destroying
  <2>5. TypeOK'
    BY <1>19, <2>3, <2>4 DEF CloseEvent, Destroying
  <2>6. OwnsInv' /\ HeldInv' /\ EventInv' /\ ClientInv'
    BY <2>1, <2>3, <2>4
  <2>7. ListenerInv'
    BY <1>19, <2>4 DEF CloseEvent, Destroying
  <2> QED BY <2>5, <2>6, <2>7
<1>20. CASE CloseTask
  <2>1. \A i \in 1..Len(Members) : Members[i] \in held' => i <= left'
    BY <1>20, PrefixStays DEF CloseTask
  <2> QED BY <1>20, <2>1 DEF CloseTask, Destroying
<1>21. CASE EndNotification
  <2>1. \A i \in 1..Len(Members) : Members[i] \in held' => i <= left'
    BY <1>21, PrefixStays DEF EndNotification
  <2> QED BY <1>21, <2>1 DEF EndNotification, Destroying
<1>22. CASE Destroyed
  BY <1>22 DEF Destroyed
<1>23. CASE Crash
  BY <1>23 DEF Crash
<1>24. CASE UNCHANGED vars
  BY <1>24 DEF vars
<1> QED
  BY <1>1, <1>2, <1>3, <1>4, <1>5, <1>6, <1>7, <1>8, <1>9, <1>10, <1>11, <1>12,
     <1>13, <1>14, <1>15, <1>16, <1>17, <1>18, <1>19, <1>20, <1>21, <1>22, <1>23,
     <1>24 DEF Next

\* Every step of the object leaves the enumeration alone or is one of its own.
LEMMA NextEnumerates ==
  TypeOK /\ [Next]_vars => [EnumeratorStep]_enumeratorVars
<1> SUFFICES ASSUME TypeOK, [Next]_vars, ~UNCHANGED enumeratorVars
             PROVE  EnumeratorStep
  OBVIOUS
<1>1. ListSources \/ LookUpDevice \/ Enumeration
  BY DEF Next, vars, Construct, CreateEvent, Register, GetDefaultDevice,
     GetDeviceByName, SkipFormat, RejectFormat, OpenClient, GetService,
     SetEventHandle, JoinTask, Start, Throw, Destruct, ReleaseMember, CloseEvent,
     CloseTask, EndNotification, Destroying, Destroyed, Crash
<1>2. CASE ListSources
  BY <1>2 DEF ListSources, EnumeratorStep
<1>3. CASE LookUpDevice
  BY <1>3 DEF LookUpDevice, EnumeratorStep, TypeOK
<1>4. CASE Enumeration
  BY <1>4 DEF Enumeration, EnumeratorStep
<1> QED BY <1>1, <1>2, <1>3, <1>4

LEMMA StepInv == IInv /\ [Next]_vars => IInv'
<1> SUFFICES ASSUME IInv, [Next]_vars PROVE IInv'
  OBVIOUS
<1>1. EnumeratorInv'
  BY NextEnumerates, EnumeratorStepInv DEF IInv, LifeInv
<1>2. LifeInv'
  BY <1>1, LifeStepInv DEF EnumeratorInv
<1> QED BY <1>1, <1>2 DEF IInv

LEMMA Inductive == Spec => []IInv
<1>1. Init => IInv
  BY LifeInit, EnumeratorInitInv DEF IInv, Init
<1> QED BY <1>1, StepInv, PTL DEF Spec

\* Every variable of the object and of the enumeration keeps its type; no object
\* is ever referenced twice, and none more than once too little.
THEOREM TypeCorrect == Spec => []TypeOK
<1>1. IInv => TypeOK
  BY DEF IInv, LifeInv
<1> QED BY <1>1, Inductive, PTL

\* However far a constructor came, no COM reference and no open event of its
\* members is left (WasapiAudioInput.cpp 37-298).  Of an enumeration nothing is left
\* when it returns, by whichever way out, and exactly its four raw pointers when
\* the std::string or the push_back of its loop throws (DeviceEnumeratorPtr.h
\* 56-157).
THEOREM LeaksOnlyByThrow == Spec => []OnlyThrowsLeak
<1>1. IInv => OnlyThrowsLeak
  <2> SUFFICES ASSUME IInv PROVE OnlyThrowsLeak
    OBVIOUS
  <2>1. ASSUME pc = "none" PROVE event # "open" /\ \A o \in Objects : refs[o] <= 0
    BY <2>1 DEF IInv, LifeInv, EventInv, HeldInv, OwnsInv, Objects
  <2>2. /\ place = "done"  => owned = Nothing
        /\ place = "threw" => owned = Abandoned
    BY WhatIsLeft DEF IInv
  <2> QED BY <2>1, <2>2 DEF OnlyThrowsLeak
<1> QED BY <1>1, Inductive, PTL

\* The event is declared before the client (WasapiAudioInput.h 40-59) and so
\* closed after it, whatever interrupts the construction.
THEOREM EventIsOpen == Spec => []EventOutlivesClient
<1>1. IInv => EventOutlivesClient
  BY DEF IInv, LifeInv, ClientInv, EventOutlivesClient
<1> QED BY <1>1, Inductive, PTL

\* For every number of channels that create() is called with, a client that runs
\* delivers frames of channels_ floats (AudioFormats.h 58-113, WasapiAudioInput.cpp
\* 193-217).
THEOREM FormatIsFloat == Spec => []FramesAreFloats
<1>1. IInv => FramesAreFloats
  BY WaveIsFloats DEF IInv, LifeInv, ClientInv, FloatWave, FramesAreFloats
<1> QED BY <1>1, Inductive, PTL

\* For every list of endpoints and every failure in the loop, a getDeviceByName
\* that returns, returns the first readable endpoint of that name, or null if there
\* is none (DeviceEnumeratorPtr.h 106-157).
THEOREM LookupIsExact == Spec => []FindIsExact
<1>1. IInv => FindIsExact
  BY FindsExactly DEF IInv
<1> QED BY <1>1, Inductive, PTL

\* For every list of endpoints and every failure in the loop, a getDeviceNames that
\* returns, returns the names of the readable endpoints, each once and in the
\* system's order (DeviceEnumeratorPtr.h 56-103).
THEOREM ListIsComplete == Spec => []ListIsExact
<1>1. Init => ListInv
  BY ListInitInv DEF Init
<1>2. IInv /\ ListInv /\ [Next]_vars => ListInv'
  BY NextEnumerates, ListStepInv DEF IInv, LifeInv
<1>3. IInv /\ ListInv => ListIsExact
  <2> SUFFICES ASSUME IInv, ListInv, place = "done", operation = "names"
               PROVE  Lists(names, count, unread)
    BY DEF ListIsExact
  <2>1. count \in Nat
    BY EndpointFacts DEF IInv, EnumeratorInv, EnumeratorTypeOK
  <2>2. index - 1 = count
    BY <2>1 DEF ListInv
  <2> QED BY <2>2 DEF ListInv
<1> QED BY <1>1, <1>2, <1>3, Inductive, PTL DEF Spec

\* A complete object unregisters before its members go (WasapiAudioInput.cpp
\* 278-298).
THEOREM CompleteUnregisters == Spec => ListenerGoes
<1>1. ASSUME IInv, [Next]_vars, complete, "dead" \notin listeners
      PROVE  "dead" \notin listeners'
  <2>1. CASE listeners' \subseteq listeners \cup {"living"}
    BY <1>1, <2>1
  <2>2. CASE EndNotification
    BY <1>1, <2>2 DEF EndNotification, Destroying, IInv, LifeInv, ListenerInv
  <2>3. listeners' \subseteq listeners \cup {"living"} \/ EndNotification
    BY <1>1 DEF Next, vars, status, ListSources, LookUpDevice, Enumeration,
       Construct, CreateEvent, Register, GetDefaultDevice,
       GetDeviceByName, SkipFormat, RejectFormat, OpenClient, GetService,
       SetEventHandle, JoinTask, Start, Throw, Destruct, ReleaseMember, CloseEvent,
       CloseTask, Destroying, Destroyed, Crash
  <2> QED BY <2>1, <2>2, <2>3
<1>2. IInv /\ [Next]_vars =>
        [complete /\ "dead" \notin listeners => "dead" \notin listeners']_vars
  BY <1>1
<1> QED BY <1>2, Inductive, PTL DEF Spec, ListenerGoes
=============================================================================

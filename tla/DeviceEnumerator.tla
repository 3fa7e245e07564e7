------------------------- MODULE DeviceEnumerator -------------------------
(***************************************************************************)
(* getDeviceNames() and getDeviceByName() of DeviceEnumeratorPtr: one loop *)
(* over the active capture endpoints, written twice.  Every call of the    *)
(* loop may fail, and what was acquired before has to be given up by hand  *)
(* on each way out: the collection, a device, its property store and the   *)
(* string of a PROPVARIANT.  Nobody gives them up when the std::string or  *)
(* the push_back of the loop throws.  getAudioSources() lists with an      *)
(* enumerator of its own; a lookup uses the one of the object under        *)
(* construction.                                                           *)
(*                                                                         *)
(* A friendly name is one UTF-16 code; std::string(wname.begin(),          *)
(* wname.end()) keeps its low byte.                                        *)
(***************************************************************************)
EXTENDS Integers, Sequences

CONSTANTS
  Endpoints,  \* friendly names of the endpoints, in the system's order
  Sources     \* names that a caller asks for

\* UTF-16 code units.
Codes == 0..65535

ASSUME EndpointsAssumption == Endpoints \in Seq(Codes)
ASSUME SourcesAssumption   == Sources \subseteq 1..255

Temporaries == {"enumerator", "collection", "item", "store", "string"}

VARIABLES
  operation,  \* "names" or "byName", "none" before the first one
  place,      \* inside the operation; it returned: "done", or "threw"
  name,       \* the name looked for
  count,      \* what GetCount said
  index,      \* i + 1
  owned,      \* references (for "string": allocations) held by this call
  names,      \* result of getDeviceNames
  found,      \* getDeviceByName: the endpoint handed out, 0: null
  unread      \* history: endpoints of which no name could be read

loop           == <<count, index, unread>>
enumeratorVars == <<operation, place, name, loop, owned, names, found>>

Nothing == [t \in Temporaries |-> 0]

\* The enumerator of getAudioSources is the only one with a destructor.
Automatic == IF operation = "names" THEN {"enumerator"} ELSE {}

Outside == place \in {"done", "threw"}

EnumeratorInit ==
  /\ operation = "none" /\ place = "done" /\ name = 0
  /\ count = 0 /\ index = 1 /\ unread = {}
  /\ owned = Nothing
  /\ names = <<>> /\ found = 0

\* The next values of owned: what is taken, what is given up.
Take(t)  == [owned EXCEPT ![t] = @ + 1]
Drop(T)  == [t \in Temporaries |-> IF t \in T THEN owned[t] - 1 ELSE owned[t]]

Narrowed(i) == Endpoints[i] % 256

-----------------------------------------------------------------------------
(* The calls *)

Begin(o, n) ==
  /\ Outside
  /\ operation' = o /\ place' = "enumerate" /\ name' = n
  /\ count' = 0 /\ index' = 1 /\ unread' = {}
  /\ owned' = [Nothing EXCEPT !["enumerator"] = IF o = "names" THEN 1 ELSE 0]
  /\ names' = <<>> /\ found' = 0

Leave(T, i) ==
  /\ place' = "done" /\ found' = i
  /\ owned' = Drop(T \cup Automatic)

EnumerateFails ==
  /\ place = "enumerate"
  /\ Leave({}, 0)
  /\ UNCHANGED <<operation, name, loop, names>>

\* If GetCount fails the count stays 0.
Enumerate ==
  /\ place = "enumerate"
  /\ place' = "item"
  /\ owned' = Take("collection")
  /\ count' \in {0, Len(Endpoints)}
  /\ UNCHANGED <<operation, name, index, unread, names, found>>

-----------------------------------------------------------------------------
(* The loop *)

Ahead == place = "item" /\ index <= count

\* continue, without a name.
NextUnread ==
  /\ place' = "item" /\ index' = index + 1
  /\ unread' = unread \cup {index}
  /\ UNCHANGED <<operation, name, count, names, found>>

NoItem ==
  /\ Ahead
  /\ NextUnread
  /\ UNCHANGED owned

Item ==
  /\ Ahead
  /\ place' = "store"
  /\ owned' = Take("item")
  /\ UNCHANGED <<operation, name, loop, names, found>>

\* Mutant: the device is forgotten.
NoStoreKeepsItem ==
  /\ place = "store"
  /\ NextUnread
  /\ UNCHANGED owned

NoStore ==
  /\ place = "store"
  /\ NextUnread
  /\ owned' = Drop({"item"})

OpenPropertyStore ==
  /\ place = "store"
  /\ place' = "value"
  /\ owned' = Take("store")
  /\ UNCHANGED <<operation, name, loop, names, found>>

\* GetValue fails, or its value is no string.
NoName ==
  /\ place = "value"
  /\ NextUnread
  /\ owned' = Drop({"store", "item"})

GetName ==
  /\ place = "value"
  /\ place' = "compare"
  /\ owned' = Take("string")
  /\ UNCHANGED <<operation, name, loop, names, found>>

\* To the next endpoint, after PropVariantClear and two releases.
Finished ==
  /\ place' = "item" /\ index' = index + 1
  /\ owned' = Drop({"string", "store", "item"})
  /\ UNCHANGED <<operation, name, count, unread, found>>

ListName ==
  /\ place = "compare" /\ operation = "names"
  /\ names' = Append(names, Narrowed(index))
  /\ Finished

OtherName ==
  /\ place = "compare" /\ operation = "byName"
  /\ Narrowed(index) # name
  /\ Finished
  /\ UNCHANGED names

\* Mutant: the return in the middle of the loop forgets the collection.
SameNameKeepsCollection ==
  /\ place = "compare" /\ operation = "byName"
  /\ Narrowed(index) = name
  /\ owned' = Drop({"string", "store", "item"})
  /\ place' = "done" /\ found' = index
  /\ UNCHANGED <<operation, name, loop, names>>

\* Returned from the middle of the loop; the reference to the device goes to
\* the DevicePtr.
SameName ==
  /\ place = "compare" /\ operation = "byName"
  /\ Narrowed(index) = name
  /\ Leave({"string", "store", "collection", "item"}, index)
  /\ UNCHANGED <<operation, name, loop, names>>

\* Mutant: the loop stops before the last endpoint.
EndOfListEarly ==
  /\ place = "item" /\ index >= count
  /\ Leave({"collection"}, 0)
  /\ UNCHANGED <<operation, name, loop, names>>

EndOfList ==
  /\ place = "item" /\ index > count
  /\ Leave({"collection"}, 0)
  /\ UNCHANGED <<operation, name, loop, names>>

\* No memory for the std::string, or in push_back: the exception leaves the
\* function past every Release.
OutOfMemory ==
  /\ place = "compare"
  /\ place' = "threw"
  /\ owned' = Drop(Automatic)
  /\ UNCHANGED <<operation, name, loop, names, found>>

Enumerating ==
  \/ EnumerateFails \/ Enumerate
  \/ NoItem \/ Item \/ NoStore \/ OpenPropertyStore \/ NoName \/ GetName
  \/ ListName \/ OtherName \/ SameName \/ OutOfMemory \/ EndOfList

-----------------------------------------------------------------------------
(* Correctness *)

EnumeratorTypeOK ==
  /\ operation \in {"none", "names", "byName"}
  /\ Outside \/ place \in {"enumerate", "item", "store", "value", "compare"}
  /\ name \in 0..255
  /\ count \in {0, Len(Endpoints)}
  /\ index \in 1..Len(Endpoints) + 1
  /\ unread \subseteq 1..Len(Endpoints)
  /\ owned \in [Temporaries -> {0, 1}]
  /\ names \in Seq(0..255)
  /\ found \in 0..Len(Endpoints)

\* At each place of lines 56-157 exactly what was acquired on the way there
\* is held, once; after a return nothing, after an exception all but the
\* automatic enumerator.
HoldsWhatItShould ==
  /\ owned["enumerator"] = IF operation = "names" /\ ~Outside THEN 1 ELSE 0
  /\ owned["collection"] = IF place \in {"done", "enumerate"} THEN 0 ELSE 1
  /\ owned["item"]   = IF place \in {"store", "value", "compare", "threw"} THEN 1 ELSE 0
  /\ owned["store"]  = IF place \in {"value", "compare", "threw"} THEN 1 ELSE 0
  /\ owned["string"] = IF place \in {"compare", "threw"} THEN 1 ELSE 0

\* s visits each element of S once, upwards.
Ascends(s, S) ==
  /\ {s[k] : k \in DOMAIN s} = S
  /\ \A j, k \in DOMAIN s : j < k => s[j] < s[k]

\* ns are the names of the endpoints up to n that are not in u, in their order.
Lists(ns, n, u) ==
  \E read \in [1..Len(ns) -> 1..n] :
    /\ Ascends(read, 1..n \ u)
    /\ \A k \in 1..Len(ns) : ns[k] = Narrowed(read[k])

\* Whichever calls failed on the way, if getDeviceNames returns, then the names
\* of exactly the endpoints that could be read, in their order (lines 72-103).
ListIsExact ==
  place = "done" /\ operation = "names" => Lists(names, count, unread)

\* If getDeviceByName returns, then the first of the endpoints that could be
\* read and have the name, or null if there is none (lines 120-156).
FindIsExact ==
  place = "done" /\ operation = "byName" =>
    LET same == {i \in 1..count \ unread : Narrowed(i) = name}
    IN  IF found = 0 THEN same = {}
        ELSE found \in same /\ \A i \in same : found <= i
=============================================================================

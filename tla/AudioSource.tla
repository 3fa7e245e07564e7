--------------------------- MODULE AudioSource ---------------------------
(***************************************************************************)
(* What IAudioInput promises its users, whatever captures behind it:       *)
(* samples come in, a call asks for a number of them and gets all of them  *)
(* or a failure, and a failure takes none away.  WasapiAudioInput and      *)
(* MacAudioInput implement it.                                             *)
(***************************************************************************)
EXTENDS Naturals

CONSTANTS
  Threads,   \* that call sample()
  Sizes,     \* of the vectors they hand over
  Failures   \* the answers of CaptureResult other than OK that occur

VARIABLES
  stored,    \* samples captured and not taken
  asked,     \* per thread: the size of its vector, 0 if it calls nothing
  answer,    \* per thread: the last CaptureResult
  open       \* has the object not been destroyed?

sourceVars == <<stored, asked, answer, open>>

Start ==
  /\ stored = 0
  /\ asked = [t \in Threads |-> 0]
  /\ answer \in [Threads -> {"none", "OK"}]
  /\ open = TRUE

\* Samples come in at any time, wanted or not.
Capture == stored' > stored /\ UNCHANGED <<asked, answer, open>>

Ask(t, n) ==
  /\ open /\ asked[t] = 0
  /\ asked' = [asked EXCEPT ![t] = n]
  /\ UNCHANGED <<stored, answer, open>>

Answer(t, r) ==
  /\ asked[t] # 0
  /\ asked' = [asked EXCEPT ![t] = 0]
  /\ answer' = [answer EXCEPT ![t] = r]
  /\ UNCHANGED open

\* All that was asked for is there and is taken, no more and no less.
Fill(t) == Answer(t, "OK") /\ asked[t] <= stored /\ stored' = stored - asked[t]

\* A failure leaves what was captured for the next call.
Fail(t, r) == Answer(t, r) /\ UNCHANGED stored

\* What nobody took goes with the object.
Close ==
  /\ open /\ open' = FALSE
  /\ stored' = 0
  /\ UNCHANGED <<asked, answer>>

Step ==
  \/ Capture \/ Close
  \/ \E t \in Threads :
       \/ \E n \in Sizes : Ask(t, n)
       \/ Fill(t)
       \/ \E r \in Failures : Fail(t, r)

Promise == Start /\ [][Step]_sourceVars
=============================================================================

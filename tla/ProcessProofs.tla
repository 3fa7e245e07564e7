-------------------------- MODULE ProcessProofs --------------------------
(***************************************************************************)
(* Proofs about Process and the Server in it, for every number of queues   *)
(* and every sequence of run() and stop(), failures included.              *)
(***************************************************************************)
EXTENDS Process, TLAPS

-----------------------------------------------------------------------------
(* The server *)

ServerTypeOK ==
  /\ phase \in {"none", "idle", "in", "out", "connect", "create", "running",
                "threw", "destroyed"}
  /\ connectionType_ \in Types
  /\ connection_ \in {None} \cup Connections
  /\ inPackets_ \in Queues \cup {None} /\ outPackets_ \in Queues \cup {None}
  /\ uses \in [Queues -> Nat]

\* The two pointers of the server are the only shared ones.
UsesInv ==
  /\ \A q \in Queues : uses[q] = IF q \in {inPackets_, outPackets_} THEN 1 ELSE 0
  /\ inPackets_ = outPackets_ => inPackets_ = None

\* What run() has already made, in each of its phases.
PhaseInv ==
  /\ phase \in {"out", "connect", "create", "running"} => inPackets_ \in Queues
  /\ phase \in {"connect", "create", "running"} => outPackets_ \in Queues
  /\ phase \in {"create", "running"} => connection_ # None
  /\ phase = "running" => connection_.in = inPackets_ /\ connection_.out = outPackets_

\* A weak pointer that still leads to a queue leads to the server's own.
WeakInv ==
  connection_ # None =>
    /\ Live(connection_.in) => connection_.in = inPackets_
    /\ Live(connection_.out) => connection_.out = outPackets_

ServerInv == ServerTypeOK /\ UsesInv /\ PhaseInv /\ WeakInv

\* What the server or its owner does in one step.
ServerStep ==
  \/ \E type \in Types : Construct(type)
  \/ Run \/ RunThrows \/ Running \/ Stop \/ Destroy

LEMMA NoServerInv == NoServer => ServerInv
BY NoneAssumption
DEF NoServer, ServerInv, ServerTypeOK, UsesInv, PhaseInv, WeakInv, Types

\* A step keeps the invariant: one step of the proof per operation.
LEMMA ServerStepInv == ServerInv /\ [ServerStep]_serverVars => ServerInv'
<1> SUFFICES ASSUME ServerInv, [ServerStep]_serverVars PROVE ServerInv'
  OBVIOUS
<1> USE NoneAssumption
    DEF ServerInv, ServerTypeOK, UsesInv, PhaseInv, WeakInv, Live
<1>1. ASSUME NEW type \in Types, Construct(type) PROVE ServerInv'
  BY <1>1 DEF Construct
<1>2. CASE Run \/ RunThrows
  BY <1>2 DEF Run, RunThrows
<1>3. CASE ResetIn
  <2>1. PICK q \in Unused : inPackets_' = q /\ uses' = Reseated(inPackets_, q)
    BY <1>3 DEF ResetIn
  <2>2. q \in Queues /\ q # inPackets_ /\ q # outPackets_ /\ uses[q] = 0
    BY <2>1 DEF Unused
  <2>3. /\ ServerTypeOK'
        /\ UsesInv'
    BY <1>3, <2>1, <2>2 DEF ResetIn, Reseated
  <2>4. WeakInv'
    BY <1>3, <2>1, <2>2, <2>3 DEF ResetIn, Unused, Referred, Connections
  <2> QED BY <1>3, <2>1, <2>2, <2>3, <2>4 DEF ResetIn
<1>4. CASE ResetOut
  <2>1. PICK q \in Unused : outPackets_' = q /\ uses' = Reseated(outPackets_, q)
    BY <1>4 DEF ResetOut
  <2>2. q \in Queues /\ q # inPackets_ /\ q # outPackets_ /\ uses[q] = 0
    BY <2>1 DEF Unused
  <2>3. /\ ServerTypeOK'
        /\ UsesInv'
    BY <1>4, <2>1, <2>2 DEF ResetOut, Reseated
  <2>4. WeakInv'
    BY <1>4, <2>1, <2>2, <2>3 DEF ResetOut, Unused, Referred, Connections
  <2> QED BY <1>4, <2>1, <2>2, <2>3, <2>4 DEF ResetOut
<1>5. CASE ResetConnection
  <2>1. connection_' \in Connections /\ connection_'.in = None /\ connection_'.out = None
    BY <1>5 DEF ResetConnection, Connections
  <2> QED BY <1>5, <2>1 DEF ResetConnection
<1>6. CASE Create
  <2>1. /\ connection_' \in Connections
        /\ connection_'.in = inPackets_ /\ connection_'.out = outPackets_
    BY <1>6 DEF Create, Connections
  <2> QED BY <1>6, <2>1 DEF Create
<1>7. CASE Stop \/ Destroy
  BY <1>7 DEF Stop, Destroy, Reset
<1>8. CASE UNCHANGED serverVars
  BY <1>8 DEF serverVars
<1> QED
  BY <1>1, <1>2, <1>3, <1>4, <1>5, <1>6, <1>7, <1>8 DEF ServerStep, Running

\* Every step of the process is a step of its server, or none of it.
LEMMA NextServes ==
  ASSUME option \in Types, [Next]_vars PROVE [ServerStep]_serverVars
<1>1. CASE Initialize \/ ChangedMode \/ InitializeThrows \/ Uninitialize
  BY <1>1 DEF Initialize, ChangedMode, InitializeThrows, Uninitialize
<1>2. ASSUME NEW code, ParseError(code) PROVE UNCHANGED serverVars
  BY <1>2 DEF ParseError
<1>3. CASE RefuseOptions \/ ParseOptions \/ RefuseTCP \/ MainThrows
  BY <1>3 DEF RefuseOptions, ParseOptions, RefuseTCP, MainThrows
<1>4. CASE MakeServer
  BY <1>4 DEF MakeServer, ServerStep
<1>5. CASE CallRun \/ Leave \/ OtherCalls \/ OtherLeaves \/ Serving
  BY <1>5 DEF CallRun, Leave, OtherCalls, OtherLeaves, Serving, ServerStep
<1>6. ASSUME NEW type \in Types, OtherMakes(type) PROVE ServerStep
  BY <1>6 DEF OtherMakes, ServerStep
<1>7. CASE UNCHANGED vars
  BY <1>7 DEF vars
<1> QED
  BY <1>1, <1>2, <1>3, <1>4, <1>5, <1>6, <1>7 DEF Next

-----------------------------------------------------------------------------
(* The program around it *)

ProgramTypeOK ==
  /\ user \in {"main", "other"}
  /\ place \in {"static", "terminated", "parse", "main", "run", "serve", "exit", "ended"}
  /\ argv \subseteq Options
  /\ shouldExit_ \in BOOLEAN /\ shouldUninitialize_ \in BOOLEAN
  /\ option \in Types
  /\ exitCode \in {"none", "OK", "ConfigurationError", "ExceptionThrown", "ParseError"}
  /\ com \in Nat /\ comBefore \in Nat

\* COM is initialized once more than before exactly if g_com_initializer will
\* undo it.
ComInv ==
  /\ place \in {"parse", "main", "run", "serve", "exit"} /\ user = "main" =>
       com = comBefore + (IF shouldUninitialize_ THEN 1 ELSE 0)
  /\ place \in {"static", "ended"} \/ user = "other" => com = comBefore

\* Where the program is tells what its server does.
PlaceInv ==
  /\ user = "other" => place \in {"static", "serve", "ended"}
  /\ place \in {"static", "parse", "main"} => phase = "none"
  /\ place = "run" => phase = "idle"
  /\ place = "serve" => phase \notin {"none", "destroyed"}
  /\ place = "serve" /\ user = "main" => phase # "idle"

\* What main has found out about its options.
OptionInv ==
  user = "main" =>
    /\ place \in {"main", "run", "serve"} => argv \cap (Informing \cup Mistakes) = {}
    /\ place = "main" => (option = "TCP" <=> "tcp" \in argv) /\ option # "Default"
    /\ place \in {"run", "serve"} => "tcp" \notin argv /\ connectionType_ = "UDP"

ExitInv ==
  user = "main" /\ place \in {"exit", "ended"} =>
    /\ exitCode = "OK" /\ argv \cap Informing = {} =>
         argv \cap (Mistakes \cup {"tcp"}) = {} /\ phase = "destroyed"
    /\ exitCode = "ConfigurationError" => "tcp" \in argv
    /\ exitCode = "ParseError" => argv \cap Mistakes # {} /\ phase = "none"
    /\ exitCode # "none"

ProgramInv == ProgramTypeOK /\ ComInv /\ PlaceInv /\ OptionInv /\ ExitInv

IInv == ServerInv /\ ProgramInv

LEMMA InitIInv == Init => IInv
<1> SUFFICES ASSUME Init PROVE IInv
  OBVIOUS
<1>1. ServerInv
  BY NoServerInv DEF Init
<1>2. argv \subseteq Options /\ com \in Nat
  BY DEF Init
<1> QED
  BY <1>1, <1>2
  DEF Init, NoServer, IInv, ProgramInv, ProgramTypeOK, ComInv, PlaceInv, OptionInv,
      ExitInv, Types

LEMMA NextProgramInv == ProgramInv /\ [Next]_vars => ProgramInv'
<1> SUFFICES ASSUME ProgramInv, [Next]_vars PROVE ProgramInv'
  OBVIOUS
<1> USE DEF ProgramInv, ProgramTypeOK, ComInv, PlaceInv, OptionInv, ExitInv,
            config, comVars, serverVars, Return, Types
<1>1. CASE Initialize \/ ChangedMode \/ InitializeThrows \/ Uninitialize
  <2>1. CASE Initialize
    <3>1. /\ com' = com + 1 /\ shouldUninitialize_' = TRUE /\ com = comBefore
          /\ place' = "parse" /\ place = "static" /\ user = "main"
      BY <2>1 DEF Initialize
    <3>2. ProgramTypeOK' /\ PlaceInv' /\ OptionInv' /\ ExitInv'
      BY <2>1, <3>1 DEF Initialize
    <3> QED BY <2>1, <3>1, <3>2 DEF Initialize
  <2>2. CASE ChangedMode
    <3>1. shouldUninitialize_' = FALSE /\ shouldUninitialize_' \in BOOLEAN
      BY <2>2 DEF ChangedMode
    <3> QED BY <2>2, <3>1 DEF ChangedMode
  <2>3. CASE InitializeThrows
    BY <2>3 DEF InitializeThrows
  <2>4. CASE Uninitialize
    <3>1. com = comBefore + (IF shouldUninitialize_ THEN 1 ELSE 0)
      BY <2>4 DEF Uninitialize
    <3>2. com' = comBefore
      BY <2>4, <3>1 DEF Uninitialize
    <3> QED BY <2>4, <3>2 DEF Uninitialize
  <2> QED BY <1>1, <2>1, <2>2, <2>3, <2>4
<1>2. ASSUME NEW code \in {"OK", "ParseError"}, ParseError(code) PROVE ProgramInv'
  BY <1>2 DEF ParseError
<1>3. CASE RefuseOptions
  BY <1>3 DEF RefuseOptions, ParsesWell
<1>4. CASE ParseOptions
  <2>1. option' \in Types \ {"Default"} /\ (option' = "TCP" <=> "tcp" \in argv)
    BY <1>4 DEF ParseOptions
  <2> QED BY <1>4, <2>1 DEF ParseOptions, ParsesWell
<1>5. CASE RefuseTCP
  BY <1>5 DEF RefuseTCP
<1>6. CASE MakeServer
  BY <1>6 DEF MakeServer, Construct
<1>7. CASE CallRun
  BY <1>7 DEF CallRun, Run
<1>8. CASE Leave
  BY <1>8 DEF Leave, Destroy
<1>9. CASE MainThrows
  BY <1>9 DEF MainThrows
<1>10. ASSUME NEW type \in Types, OtherMakes(type) PROVE ProgramInv'
  BY <1>10 DEF OtherMakes, Construct
<1>11. CASE OtherCalls \/ OtherLeaves
  BY <1>11 DEF OtherCalls, OtherLeaves, Run, Stop, Destroy
<1>12. CASE Serving
  BY <1>12
  DEF Serving, Running, RunThrows, ResetIn, ResetOut, ResetConnection, Create
<1>13. CASE UNCHANGED vars
  BY <1>13 DEF vars
<1> QED
  BY <1>1, <1>2, <1>3, <1>4, <1>5, <1>6, <1>7, <1>8, <1>9, <1>10, <1>11, <1>12,
     <1>13 DEF Next

\* The inductive invariant: use counts, weak pointers and the program's place.
LEMMA Inductive == Spec => []IInv
<1>1. IInv /\ [Next]_vars => IInv'
  BY NextServes, ServerStepInv, NextProgramInv DEF IInv, ProgramInv, ProgramTypeOK
<1> QED BY <1>1, InitIInv, PTL DEF Spec

\* Every variable keeps its type; no use count falls below zero.
THEOREM TypeCorrect == Spec => []TypeOK
<1>1. IInv => TypeOK
  BY DEF IInv, ServerInv, ServerTypeOK, ProgramInv, ProgramTypeOK, TypeOK
<1> QED BY <1>1, Inductive, PTL

\* The queues live as long as the server refers to them (Server.cpp:26-58),
\* however often run() was called and wherever it threw.
THEOREM QueuesAreOwned == Spec => []QueuesFollowServer
<1>1. IInv => QueuesFollowServer
  <2> SUFFICES ASSUME IInv, NEW q \in Queues
               PROVE  Live(q) <=> q \in {inPackets_, outPackets_}
    BY DEF QueuesFollowServer
  <2>1. uses[q] = IF q \in {inPackets_, outPackets_} THEN 1 ELSE 0
    BY DEF IInv, ServerInv, UsesInv
  <2> QED BY <2>1 DEF Live
<1> QED BY <1>1, Inductive, PTL

\* The connection's weak pointers lead to the server's queues or nowhere, and
\* to both once run() has returned (UDPConnection.cpp:26-32).
THEOREM ConnectionIsWired == Spec => []ConnectionSeesQueues
<1>1. IInv => ConnectionSeesQueues
  BY NoneAssumption
  DEF IInv, ServerInv, ServerTypeOK, UsesInv, PhaseInv, WeakInv,
      ConnectionSeesQueues, Live
<1> QED BY <1>1, Inductive, PTL

\* The process undoes exactly its own initialization of COM.
THEOREM ComIsBalanced == Spec => []ComBalanced
<1>1. IInv => ComBalanced
  BY DEF IInv, ProgramInv, ComInv, ComBalanced
<1> QED BY <1>1, Inductive, PTL

\* No option leads from TCP to a server that uses UDP.
THEOREM NoFallback == Spec => []NoSilentFallback
<1>1. IInv => NoSilentFallback
  BY DEF IInv, ProgramInv, OptionInv, NoSilentFallback
<1> QED BY <1>1, Inductive, PTL

\* The exit code names the reason (main.cpp:25-76).
THEOREM ExitCodeIsHonest == Spec => []ExitCodeTellsWhy
<1>1. IInv => ExitCodeTellsWhy
  BY DEF IInv, ProgramInv, ExitInv, ExitCodeTellsWhy
<1> QED BY <1>1, Inductive, PTL
=============================================================================

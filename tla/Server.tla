----------------------------- MODULE Server -----------------------------
(***************************************************************************)
(* server/Server.cpp and the connections of networking/: run(), which may  *)
(* be called again and may throw between any two of its steps, stop() and  *)
(* the destructor.  The two packet queues are held by shared pointers of   *)
(* the server, the connection keeps weak ones.                             *)
(*                                                                         *)
(* A queue is an identity here: what it does is CircularBuffer.  TCP and   *)
(* UDP connections are alike, neither has threads yet.                     *)
(***************************************************************************)
EXTENDS Naturals

CONSTANTS
  Queues,   \* where the queues that are alive or still referred to can be
  None      \* no queue, no connection

\* What a connection has: its type and its weak pointers.
Connections == [type : {"UDP", "TCP"}, in : Queues \cup {None}, out : Queues \cup {None}]

ASSUME NoneAssumption == None \notin Queues \cup Connections

VARIABLES
  phase,                   \* of the server's life and of run()
  connectionType_,         \* what it was constructed with
  connection_,
  inPackets_, outPackets_,
  uses                     \* per queue: the use count of its control block

serverVars == <<phase, connectionType_, connection_, inPackets_, outPackets_, uses>>

Types == {"Default", "UDP", "TCP"}

NoServer ==
  /\ phase = "none" /\ connectionType_ = "Default"
  /\ connection_ = None /\ inPackets_ = None /\ outPackets_ = None
  /\ uses = [q \in Queues |-> 0]

Live(q) == q \in Queues /\ uses[q] > 0

\* A control block stays as long as a weak pointer refers to it.
Referred(q) == connection_ # None /\ q \in {connection_.in, connection_.out}

Unused == {q \in Queues : ~Live(q) /\ ~Referred(q)}

\* The use counts after a shared pointer let go of one queue for another.
Reseated(from, to) ==
  [q \in Queues |-> IF q = to THEN uses[q] + 1
                    ELSE IF q = from THEN uses[q] - 1 ELSE uses[q]]

-----------------------------------------------------------------------------
Construct(type) ==
  /\ phase = "none"
  /\ phase' = "idle" /\ connectionType_' = type
  /\ UNCHANGED <<connection_, inPackets_, outPackets_, uses>>

\* It may be called before stop(), on a server that runs.
Run ==
  /\ phase \in {"idle", "running", "threw"}
  /\ phase' = "in"
  /\ UNCHANGED <<connectionType_, connection_, inPackets_, outPackets_, uses>>

\* Either new may throw, and so may the connection's: what was done so far
\* stays done.
RunThrows ==
  /\ phase \in {"in", "out", "connect"}
  /\ phase' = "threw"
  /\ UNCHANGED <<connectionType_, connection_, inPackets_, outPackets_, uses>>

\* reset() takes the new queue before it lets go of the old one.
ResetIn ==
  /\ phase = "in"
  /\ \E q \in Unused : inPackets_' = q /\ uses' = Reseated(inPackets_, q)
  /\ phase' = "out"
  /\ UNCHANGED <<connectionType_, connection_, outPackets_>>

ResetOut ==
  /\ phase = "out"
  /\ \E q \in Unused : outPackets_' = q /\ uses' = Reseated(outPackets_, q)
  /\ phase' = "connect"
  /\ UNCHANGED <<connectionType_, connection_, inPackets_>>

\* Default falls through to UDP.  A new connection refers to nothing.
ResetConnection ==
  /\ phase = "connect"
  /\ connection_' = [type |-> IF connectionType_ = "TCP" THEN "TCP" ELSE "UDP",
                     in |-> None, out |-> None]
  /\ phase' = "create"
  /\ UNCHANGED <<connectionType_, inPackets_, outPackets_, uses>>

\* Mutant: the queues are handed over the wrong way round.
CreateSwapped ==
  /\ phase = "create"
  /\ connection_' = [connection_ EXCEPT !.in = outPackets_, !.out = inPackets_]
  /\ phase' = "running"
  /\ UNCHANGED <<connectionType_, inPackets_, outPackets_, uses>>

\* Mutant: the connection keeps shared pointers.
CreateShared ==
  /\ phase = "create"
  /\ connection_' = [connection_ EXCEPT !.in = inPackets_, !.out = outPackets_]
  /\ uses' = [q \in Queues |-> IF q \in {inPackets_, outPackets_}
                               THEN uses[q] + 1 ELSE uses[q]]
  /\ phase' = "running"
  /\ UNCHANGED <<connectionType_, inPackets_, outPackets_>>

\* The shared pointers it is given by value go when it returns.
Create ==
  /\ phase = "create"
  /\ connection_' = [connection_ EXCEPT !.in = inPackets_, !.out = outPackets_]
  /\ phase' = "running"
  /\ UNCHANGED <<connectionType_, inPackets_, outPackets_, uses>>

\* Mutant: the queues are released, the pointers to them stay.
ResetKeepsPointers ==
  /\ connection_' = None
  /\ UNCHANGED <<inPackets_, outPackets_>>
  /\ uses' = [q \in Queues |-> IF q \in {inPackets_, outPackets_}
                               THEN uses[q] - 1 ELSE uses[q]]

\* All three pointers are reset; nobody else holds a queue.
Reset ==
  /\ connection_' = None /\ inPackets_' = None /\ outPackets_' = None
  /\ uses' = [q \in Queues |-> IF q \in {inPackets_, outPackets_}
                               THEN uses[q] - 1 ELSE uses[q]]

Stop ==
  /\ phase \in {"idle", "running", "threw"}
  /\ Reset
  /\ phase' = "idle"
  /\ UNCHANGED connectionType_

\* The members go in the opposite order, the connection last.
Destroy ==
  /\ phase \in {"idle", "running", "threw"}
  /\ Reset
  /\ phase' = "destroyed"
  /\ UNCHANGED connectionType_

Running == ResetIn \/ ResetOut \/ ResetConnection \/ Create

-----------------------------------------------------------------------------
(* Correctness *)

\* Queues live as long as the server refers to them, in every phase, and no
\* longer: neither a run() that throws nor the connection keeps one alive
\* (lines 30-31 and 55-57 of Server.cpp).
QueuesFollowServer == \A q \in Queues : Live(q) <=> q \in {inPackets_, outPackets_}

\* What the connection gets from a weak pointer is the queue the server has on
\* that side, or nothing; and once run() has returned it gets both, although
\* the server may have run before or failed half way (lines 26-48).
ConnectionSeesQueues ==
  /\ connection_ # None =>
       /\ Live(connection_.in) => connection_.in = inPackets_
       /\ Live(connection_.out) => connection_.out = outPackets_
  /\ phase = "running" =>
       /\ connection_ # None
       /\ Live(connection_.in) /\ Live(connection_.out)
       /\ connection_.in # connection_.out
=============================================================================

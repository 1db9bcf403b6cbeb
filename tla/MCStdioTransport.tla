-------------------------- MODULE MCStdioTransport --------------------------
(* Instances of StdioTransport for TLC. *)
EXTENDS StdioTransport

CONSTANTS q1, q2, q3, one

\* A client that uses one id for everything it has in flight.
MCIdOf == [q \in Request |-> one]

\* One line of each kind.
MCKinds == [q \in Request |->
               IF q = q1 THEN "call" ELSE IF q = q2 THEN "setLevel" ELSE "malformed"]
=============================================================================

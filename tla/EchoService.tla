---------------------------- MODULE EchoService ----------------------------
(***************************************************************************)
(* What the server of the hot upgrade demo promises to the programs on the *)
(* other end of its connections, and all they can see of it: on a          *)
(* connection, a request that was sent in full is answered once, in full,  *)
(* and the next request comes after the answer was read.  There are no     *)
(* processes here: a hot upgrade is invisible when the servers that        *)
(* perform it implement this specification.                                *)
(***************************************************************************)
CONSTANT Conns

VARIABLE phase      \* of each connection: "idle", "asked", "answered"

Init == phase = [c \in Conns |-> "idle"]

Ask(c) == phase[c] = "idle" /\ phase' = [phase EXCEPT ![c] = "asked"]

Answer(c) == phase[c] = "asked" /\ phase' = [phase EXCEPT ![c] = "answered"]

Receive(c) == phase[c] = "answered" /\ phase' = [phase EXCEPT ![c] = "idle"]

Next == \E c \in Conns : Ask(c) \/ Answer(c) \/ Receive(c)

\* No answer without a request, no second answer, no request before the answer was read.
Safety == Init /\ [][Next]_phase

\* Every request is answered; clients may stop asking.
Spec == Safety /\ \A c \in Conns : WF_phase(Answer(c))
=============================================================================

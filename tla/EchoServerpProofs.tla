------------------------- MODULE EchoServerpProofs -------------------------
(***************************************************************************)
(* The forking echo server for any set of clients and any limit on         *)
(* processes: descriptors are held by whoever uses them, and no zombie is  *)
(* forgotten.                                                              *)
(***************************************************************************)
EXTENDS EchoServerp, TLAPS

\* The parent has a connection in hand exactly between accept and close.
ConnfdOK ==
    IF pc = "accept" THEN connfd = "none" ELSE connfd \in Clients

\* The invariant every step of the parent, of its handler and of its children preserves.
Inv == TypeOK /\ ConnfdOK /\ HeldByUser /\ ZombieIsKnown

\* accept takes the oldest connection from the queue; connect adds one.
LEMMA QueueFacts ==
    /\ backlog \in Seq(Clients) /\ backlog # <<>> =>
          Head(backlog) \in Clients /\ Tail(backlog) \in Seq(Clients)
    /\ \A c \in Clients : backlog \in Seq(Clients) => Append(backlog, c) \in Seq(Clients)
OBVIOUS

\* Before the first connection there is neither a descriptor nor a child.
LEMMA InitInv == Init => Inv
<1> SUFFICES ASSUME Init PROVE Inv
  OBVIOUS
<1>1. TypeOK
  <2>1. pc \in {"accept", "fork", "close"} /\ backlog \in Seq(Clients)
    BY DEF Init
  <2>2. /\ child \in [Clients -> {"none", "start", "echo", "close", "exit", "zombie", "reaped"}]
        /\ cl \in [Clients -> {"new", "up", "closed"}]
    BY DEF Init
  <2>3. held \in [Clients -> SUBSET Clients] /\ parent \subseteq Clients /\ listening \subseteq Clients
    BY DEF Init
  <2> QED  BY <2>1, <2>2, <2>3, Zenon DEF Init, TypeOK
<1>2. ConnfdOK /\ ZombieIsKnown
  BY DEF Init, ConnfdOK, ZombieIsKnown, Zombies
<1>3. HeldByUser
  BY EchoServerpAssumption DEF Init, HeldByUser
<1> QED  BY <1>1, <1>2, <1>3 DEF Inv

\* The statements of the parent's loop preserve the invariant.  fork copies a table that
\* has one connection in it, because connfd is the only one the parent has.
LEMMA ParentInv ==
    ASSUME Inv, Accept \/ Fork \/ ForkFails \/ CloseConnfd PROVE Inv'
<1> USE EchoServerpAssumption DEF Inv, TypeOK, ConnfdOK, HeldByUser, ZombieIsKnown, Zombies
<1>1. CASE Accept
  BY <1>1, QueueFacts DEF Accept
<1>2. CASE Fork
  <2>1. connfd \in Clients /\ parent = {connfd}
    BY <1>2 DEF Fork
  <2>2. TypeOK' /\ ConnfdOK'
    BY <1>2, <2>1 DEF Fork
  <2>3. HeldByUser'
    BY <1>2, <2>1 DEF Fork
  <2>4. ZombieIsKnown'
    BY <1>2, <2>1 DEF Fork
  <2> QED  BY <2>2, <2>3, <2>4
<1>3. CASE ForkFails
  BY <1>3 DEF ForkFails
<1>4. CASE CloseConnfd
  BY <1>4 DEF CloseConnfd
<1> QED  BY <1>1, <1>2, <1>3, <1>4

\* sigchld_handler preserves the invariant: it returns only when no zombie is left.
LEMMA HandlerInv ==
    ASSUME Inv, Deliver \/ Reap \/ Return PROVE Inv'
<1> USE EchoServerpAssumption DEF Inv, TypeOK, ConnfdOK, HeldByUser, ZombieIsKnown, Zombies
<1>1. CASE Deliver
  BY <1>1, Zenon DEF Deliver
<1>2. CASE Reap
  BY <1>2 DEF Reap
<1>3. CASE Return
  BY <1>3, Zenon DEF Return
<1> QED  BY <1>1, <1>2, <1>3

\* A child preserves the invariant: it gives up listenfd first and its connection when
\* echo is over, and its end posts the signal.
LEMMA ChildInv ==
    ASSUME Inv, NEW c \in Clients, Child(c) PROVE Inv'
<1> USE EchoServerpAssumption DEF Inv, TypeOK, ConnfdOK, HeldByUser, ZombieIsKnown, Zombies
<1>1. CASE ChildStart(c)
  BY <1>1 DEF ChildStart
<1>2. CASE ChildEcho(c)
  BY <1>2 DEF ChildEcho
<1>3. CASE ChildClose(c)
  BY <1>3 DEF ChildClose
<1>4. CASE ChildExit(c)
  BY <1>4 DEF ChildExit
<1> QED  BY <1>1, <1>2, <1>3, <1>4 DEF Child

\* Clients only touch the queue of listenfd.
LEMMA ClientInv ==
    ASSUME Inv, NEW c \in Clients, Connect(c) \/ Disconnect(c) PROVE Inv'
<1> USE DEF Inv, TypeOK, ConnfdOK, HeldByUser, ZombieIsKnown, Zombies
<1>1. CASE Connect(c)
  BY <1>1, QueueFacts DEF Connect
<1>2. CASE Disconnect(c)
  BY <1>2 DEF Disconnect
<1> QED  BY <1>1, <1>2

(***************************************************************************)
(* The invariant of echo_serverp.cc holds however the parent, its handler, *)
(* its children and the clients interleave and however many signals are    *)
(* lost.                                                                   *)
(***************************************************************************)
THEOREM EchoServerpInvariant == Spec => []Inv
<1>1. Inv /\ [Next]_vars => Inv'
  <2> SUFFICES ASSUME Inv, [Next]_vars PROVE Inv'
    OBVIOUS
  <2>1. CASE UNCHANGED vars
    BY <2>1 DEF vars, Inv, TypeOK, ConnfdOK, HeldByUser, ZombieIsKnown, Zombies
  <2>2. CASE Main
    BY <2>2, ParentInv, HandlerInv, Zenon DEF Main
  <2>3. ASSUME NEW c \in Clients, Child(c) \/ Connect(c) \/ Disconnect(c) PROVE Inv'
    BY <2>3, ChildInv, ClientInv, Zenon
  <2> QED  BY <2>1, <2>2, <2>3, Zenon DEF Next, Quiet
<1> QED  BY InitInv, <1>1, PTL DEF Spec

\* The state of echo_serverp.cc stays within its types.
THEOREM TypeCorrect == Spec => []TypeOK
BY EchoServerpInvariant, PTL DEF Inv

(***************************************************************************)
(* A connection is open in the parent from accept to close, in its own     *)
(* child until echo is over, and nowhere else, so that a client sees the   *)
(* end of its connection when its child closes it (echo_serverp.cc:61-73). *)
(***************************************************************************)
THEOREM HeldOnlyByUser == Spec => []HeldByUser
BY EchoServerpInvariant, PTL DEF Inv

(***************************************************************************)
(* While there is a zombie, SIGCHLD is pending or sigchld_handler will     *)
(* call waitpid again (echo_serverp.cc:42-45).                             *)
(***************************************************************************)
THEOREM NoZombieForgotten == Spec => []ZombieIsKnown
BY EchoServerpInvariant, PTL DEF Inv
=============================================================================

---------------------------- MODULE EchoServerp ----------------------------
(***************************************************************************)
(* The process-based echo server of                                        *)
(* csapp/concurrent_program/echo_serverp.cc: the parent accepts and forks, *)
(* a child serves one connection and exits, and a handler for SIGCHLD      *)
(* reaps.  The handler may interrupt the parent between any two of its     *)
(* system calls; SIGCHLD is one bit while pending and is blocked while its *)
(* handler runs (the kernel is external).  What the child echoes is the    *)
(* subject of Rio and EchoServers: here echo() lasts until its client      *)
(* closes.                                                                 *)
(***************************************************************************)
EXTENDS Naturals, Sequences, FiniteSets

CONSTANTS
    Clients,    \* each opens one connection, named after it
    MaxProcs    \* limit of the system on children, zombies included

ASSUME EchoServerpAssumption == MaxProcs \in Nat \ {0} /\ "none" \notin Clients

VARIABLES
    pc,         \* the parent: "accept", "fork", "close"
    connfd,     \* its local variable: a connection, or "none"
    parent,     \* connections open in the parent
    child,      \* of the child for each connection: its state
    held,       \* connections open in each child
    listening,  \* children that hold listenfd
    pending,    \* SIGCHLD is pending
    handling,   \* the parent is in sigchld_handler
    backlog,    \* kernel: connections waiting in listenfd
    cl          \* each client: "new", "up", "closed"

vars == <<pc, connfd, parent, child, held, listening, pending, handling, backlog, cl>>

\* The parent, its children and their descriptors.
TypeOK ==
    /\ pc \in {"accept", "fork", "close"}
    /\ connfd \in Clients \cup {"none"}
    /\ parent \subseteq Clients
    /\ child \in [Clients -> {"none", "start", "echo", "close", "exit", "zombie", "reaped"}]
    /\ held \in [Clients -> SUBSET Clients]
    /\ listening \subseteq Clients
    /\ pending \in BOOLEAN /\ handling \in BOOLEAN
    /\ backlog \in Seq(Clients)
    /\ cl \in [Clients -> {"new", "up", "closed"}]

Zombies == {c \in Clients : child[c] = "zombie"}
Procs == {c \in Clients : child[c] \notin {"none", "reaped"}}
Open(c) == c \in parent \/ \E d \in Clients : c \in held[d]
-----------------------------------------------------------------------------
(* The parent: main, when no handler runs *)

\* Mutant: accept is interrupted by the handler and its -1 is used.
Accept_Interrupted ==
    /\ ~handling /\ pc = "accept"
    /\ parent' = parent \cup {"none"}
    /\ pc' = "close"
    /\ UNCHANGED <<connfd, child, held, listening, pending, handling, backlog, cl>>

\* accept is restarted after a handler: signal() of glibc sets SA_RESTART.
Accept ==
    /\ ~handling /\ pc = "accept" /\ backlog # <<>>
    /\ connfd' = Head(backlog) /\ backlog' = Tail(backlog)
    /\ parent' = parent \cup {Head(backlog)}
    /\ pc' = "fork"
    /\ UNCHANGED <<child, held, listening, pending, handling, cl>>

\* fork copies the descriptor table, listenfd included.
Fork ==
    /\ ~handling /\ pc = "fork" /\ Cardinality(Procs) < MaxProcs
    /\ child' = [child EXCEPT ![connfd] = "start"]
    /\ held' = [held EXCEPT ![connfd] = parent]
    /\ listening' = listening \cup {connfd}
    /\ pc' = "close"
    /\ UNCHANGED <<connfd, parent, pending, handling, backlog, cl>>

\* fork returns -1, which is not 0: the parent goes on as if there were a child.
ForkFails ==
    /\ ~handling /\ pc = "fork" /\ Cardinality(Procs) >= MaxProcs
    /\ pc' = "close"
    /\ UNCHANGED <<connfd, parent, child, held, listening, pending, handling, backlog, cl>>

\* Mutant: the parent does not close its copy.
CloseConnfd_Missing ==
    /\ ~handling /\ pc = "close"
    /\ pc' = "accept" /\ connfd' = "none"
    /\ UNCHANGED <<parent, child, held, listening, pending, handling, backlog, cl>>

CloseConnfd ==
    /\ ~handling /\ pc = "close"
    /\ parent' = parent \ {connfd}
    /\ pc' = "accept" /\ connfd' = "none"
    /\ UNCHANGED <<child, held, listening, pending, handling, backlog, cl>>
-----------------------------------------------------------------------------
(* sigchld_handler *)

Deliver ==
    /\ pending /\ ~handling
    /\ pending' = FALSE /\ handling' = TRUE
    /\ UNCHANGED <<pc, connfd, parent, child, held, listening, backlog, cl>>

\* Mutant: one child per signal, as handler1 of signal1.c does.
Reap_One ==
    /\ handling
    /\ \E c \in Zombies : child' = [child EXCEPT ![c] = "reaped"]
    /\ handling' = FALSE
    /\ UNCHANGED <<pc, connfd, parent, held, listening, pending, backlog, cl>>

\* waitpid(-1, 0, WNOHANG) > 0: any zombie, and again
Reap ==
    /\ handling
    /\ \E c \in Zombies : child' = [child EXCEPT ![c] = "reaped"]
    /\ UNCHANGED <<pc, connfd, parent, held, listening, pending, handling, backlog, cl>>

\* waitpid returns 0 or -1: no zombie is left at this moment.
Return ==
    /\ handling /\ Zombies = {}
    /\ handling' = FALSE
    /\ UNCHANGED <<pc, connfd, parent, child, held, listening, pending, backlog, cl>>
-----------------------------------------------------------------------------
(* A child *)

\* close(listenfd)
ChildStart(c) ==
    /\ child[c] = "start"
    /\ listening' = listening \ {c}
    /\ child' = [child EXCEPT ![c] = "echo"]
    /\ UNCHANGED <<pc, connfd, parent, held, pending, handling, backlog, cl>>

\* echo(connfd) returns at end of file
ChildEcho(c) ==
    /\ child[c] = "echo" /\ cl[c] = "closed"
    /\ child' = [child EXCEPT ![c] = "close"]
    /\ UNCHANGED <<pc, connfd, parent, held, listening, pending, handling, backlog, cl>>

\* close(connfd)
ChildClose(c) ==
    /\ child[c] = "close"
    /\ held' = [held EXCEPT ![c] = @ \ {c}]
    /\ child' = [child EXCEPT ![c] = "exit"]
    /\ UNCHANGED <<pc, connfd, parent, listening, pending, handling, backlog, cl>>

\* exit(0): the kernel closes what is open and posts SIGCHLD
ChildExit(c) ==
    /\ child[c] = "exit"
    /\ child' = [child EXCEPT ![c] = "zombie"]
    /\ held' = [held EXCEPT ![c] = {}]
    /\ listening' = listening \ {c}
    /\ pending' = TRUE
    /\ UNCHANGED <<pc, connfd, parent, handling, backlog, cl>>
-----------------------------------------------------------------------------
Connect(c) ==
    /\ cl[c] = "new"
    /\ cl' = [cl EXCEPT ![c] = "up"]
    /\ backlog' = Append(backlog, c)
    /\ UNCHANGED <<pc, connfd, parent, child, held, listening, pending, handling>>

Disconnect(c) ==
    /\ cl[c] = "up"
    /\ cl' = [cl EXCEPT ![c] = "closed"]
    /\ UNCHANGED <<pc, connfd, parent, child, held, listening, pending, handling, backlog>>

Init ==
    /\ pc = "accept" /\ connfd = "none" /\ parent = {}
    /\ child = [c \in Clients |-> "none"] /\ held = [c \in Clients |-> {}]
    /\ listening = {}
    /\ pending = FALSE /\ handling = FALSE
    /\ backlog = <<>>
    /\ cl = [c \in Clients |-> "new"]

Main == Accept \/ Fork \/ ForkFails \/ CloseConnfd \/ Deliver \/ Reap \/ Return

Child(c) == ChildStart(c) \/ ChildEcho(c) \/ ChildClose(c) \/ ChildExit(c)

\* All connections have come and gone: the parent waits in accept.
Quiet ==
    /\ \A c \in Clients : cl[c] = "closed" /\ child[c] \in {"none", "reaped"}
    /\ pc = "accept" /\ backlog = <<>>
    /\ UNCHANGED vars

Next == Main \/ (\E c \in Clients : Child(c) \/ Connect(c) \/ Disconnect(c)) \/ Quiet

Spec == Init /\ [][Next]_vars

\* The scheduler runs the parent and every child; clients do what they like.
FairSpec ==
    /\ Spec
    /\ WF_vars(Main)
    /\ \A c \in Clients : WF_vars(Child(c))
-----------------------------------------------------------------------------
(***************************************************************************)
(* A descriptor is open exactly as long as its holder may still use it: a  *)
(* connection in the parent from accept to its close, in its own child     *)
(* until echo is over, in no other process; listenfd in the parent and in  *)
(* children that have just begun.  So a client sees the end of its         *)
(* connection when its child is done (echo_serverp.cc:61-73).              *)
(***************************************************************************)
HeldByUser ==
    /\ \A c \in Clients :
          /\ c \in parent <=> c = connfd
          /\ \A d \in Clients : c \in held[d] => d = c
          /\ c \in held[c] <=> child[c] \in {"start", "echo", "close"}
    /\ \A c \in listening : child[c] = "start"

(***************************************************************************)
(* No zombie is forgotten: while there is one, a signal is pending or the  *)
(* handler has not made its last call of waitpid, although signals that    *)
(* come while one is pending are lost (echo_serverp.cc:42-45).             *)
(***************************************************************************)
ZombieIsKnown == Zombies # {} => pending \/ handling

(***************************************************************************)
(* Every child that has ended is reaped by the loop of sigchld_handler     *)
(* (echo_serverp.cc:42-45).                                                *)
(***************************************************************************)
AllReaped == \A c \in Clients : child[c] = "zombie" ~> child[c] = "reaped"

(***************************************************************************)
(* An accepted connection does not stay open after its client has closed,  *)
(* whether a child served it or fork failed, and the parent gets back to   *)
(* accept however often it is interrupted (echo_serverp.cc:61-73).         *)
(***************************************************************************)
ConnectionEnds ==
    \A c \in Clients : Open(c) /\ cl[c] = "closed" ~> ~Open(c)
=============================================================================

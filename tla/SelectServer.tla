---------------------------- MODULE SelectServer ----------------------------
(***************************************************************************)
(* csapp/concurrent_program/select.cc: a server that watches its standard  *)
(* input and its listening socket, and serves one connection at a time     *)
(* until its client closes.  It copies read_set to ready_set, has select   *)
(* overwrite read_set, and looks at the copy.  The kernel, the clients and *)
(* the user are external.                                                  *)
(***************************************************************************)
EXTENDS Naturals, Sequences

CONSTANTS
    Clients,    \* each opens one connection, named after it
    Stale       \* of 1 and 2, those that may be in read_set, which is never cleared

STDIN_FILENO == 0
listenfd == 3
NoConn == "none"

VARIABLES
    read_set, ready_set,
    pc,         \* "select", "stdin", "listenfd", "echo", "exit"
    connfd,     \* the connection being served
    typed,      \* standard input: "nothing", "line", "eof"
    backlog,    \* connections waiting in listenfd
    cl          \* each client: "new", "up", "closed"

vars == <<read_set, ready_set, pc, connfd, typed, backlog, cl>>

Readable(fd) ==
    CASE fd = STDIN_FILENO -> {typed # "nothing"}
      [] fd = listenfd -> {backlog # <<>>}
      [] OTHER -> BOOLEAN

\* ready_set = read_set; select(listenfd + 1, &read_set, ...)
Select ==
    /\ pc = "select"
    /\ ready_set' = read_set
    /\ \E r \in SUBSET read_set :
          /\ r # {}
          /\ \A fd \in read_set : (fd \in r) \in Readable(fd)
          /\ read_set' = r
    /\ pc' = "stdin"
    /\ UNCHANGED <<connfd, typed, backlog, cl>>

\* command(), if STDIN_FILENO is in ready_set: fgets waits, and ends the server at
\* end of file
Command ==
    /\ pc = "stdin"
    /\ STDIN_FILENO \in ready_set => typed # "nothing"
    /\ IF STDIN_FILENO \in ready_set
       THEN /\ pc' = IF typed = "eof" THEN "exit" ELSE "listenfd"
            /\ typed' = IF typed = "eof" THEN "eof" ELSE "nothing"
       ELSE pc' = "listenfd" /\ UNCHANGED typed
    /\ UNCHANGED <<read_set, ready_set, connfd, backlog, cl>>

\* accept, if listenfd is in ready_set: it waits for a connection
Accept ==
    /\ pc = "listenfd"
    /\ IF listenfd \in ready_set
       THEN /\ backlog # <<>>
            /\ connfd' = Head(backlog) /\ backlog' = Tail(backlog)
            /\ pc' = "echo"
       ELSE pc' = "select" /\ UNCHANGED <<connfd, backlog>>
    /\ UNCHANGED <<read_set, ready_set, typed, cl>>

\* echo(connfd) returns at end of file; close(connfd)
Echo ==
    /\ pc = "echo" /\ cl[connfd] = "closed"
    /\ connfd' = NoConn /\ pc' = "select"
    /\ UNCHANGED <<read_set, ready_set, typed, backlog, cl>>

Type ==
    /\ typed = "nothing" /\ typed' \in {"line", "eof"}
    /\ UNCHANGED <<read_set, ready_set, pc, connfd, backlog, cl>>

Connect(c) ==
    /\ cl[c] = "new"
    /\ cl' = [cl EXCEPT ![c] = "up"] /\ backlog' = Append(backlog, c)
    /\ UNCHANGED <<read_set, ready_set, pc, connfd, typed>>

Disconnect(c) ==
    /\ cl[c] = "up"
    /\ cl' = [cl EXCEPT ![c] = "closed"]
    /\ UNCHANGED <<read_set, ready_set, pc, connfd, typed, backlog>>

Init ==
    /\ \E s \in SUBSET Stale : read_set = s \cup {STDIN_FILENO, listenfd}
    /\ ready_set = {}
    /\ pc = "select" /\ connfd = NoConn
    /\ typed = "nothing" /\ backlog = <<>>
    /\ cl = [c \in Clients |-> "new"]

Server == Select \/ Command \/ Accept \/ Echo

Next == Server \/ Type \/ \E c \in Clients : Connect(c) \/ Disconnect(c)

\* The server runs, the user goes on typing, and a client closes in the end.
FairSpec ==
    /\ Init /\ [][Next]_vars
    /\ WF_vars(Server) /\ WF_vars(Type)
    /\ \A c \in Clients : WF_vars(Disconnect(c))
-----------------------------------------------------------------------------
(***************************************************************************)
(* The set is an input and an output of select and is initialized again    *)
(* before each call (concurrent_program_practice.cc:39-40), so that the    *)
(* server goes on watching both descriptors: a connection that waits is    *)
(* accepted, unless the user has ended the server (select.cc:69-83).       *)
(***************************************************************************)
ConnectionAccepted ==
    \A c \in Clients :
        (\E n \in DOMAIN backlog : backlog[n] = c) ~> connfd = c \/ pc = "exit"
=============================================================================

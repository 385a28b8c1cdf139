--------------------------- MODULE HotUpgradeInv ---------------------------
(***************************************************************************)
(* The inductive invariant of HotUpgrade.  OneReader, ReplyMatches and     *)
(* AcceptNeverBlocks are not inductive: they rest on what a descriptor     *)
(* number stands for, on the events still to be handled being about open   *)
(* descriptors, and on where in its loop Old is when a message is on the   *)
(* UNIX socket.  Each conjunct below is one of these facts.                *)
(***************************************************************************)
EXTENDS HotUpgrade

\* Which of the two command lines each process was started with.
RolesOK ==
    /\ srv[New].pc \in {"down", "loop", "exit"}
    /\ srv[New].unix_client = NoFd
    /\ srv[New].pc = "down" => srv[New].unix_listen_fd = NoFd
    /\ srv[Old].unix_listen_fd = NoFd /\ srv[Old].unix_conn_fd = NoFd

\* GetRequest never leaves a complete request in read_buf_.
BufferOK == \A p \in Server, fd \in Fd : conn[p][fd].last_read_pos < ReqLen

\* What the numbers in main and Epoll stand for; epoll entries and descriptors agree.
NamesOK ==
    \A p \in Server, fd \in Fd :
        /\ ep[p][fd].file # NoFile => ep[p][fd].file = fdt[p][fd]
        /\ ep[p][fd].file # UnixClient
        /\ fdt[p][fd] = InetListen => fd = srv[p].inet_listen_fd
        /\ fdt[p][fd] = UnixListen => fd = srv[p].unix_listen_fd
        /\ fdt[p][fd] = UnixConn => fd = srv[p].unix_conn_fd
        /\ fdt[p][fd] \in Conns /\ ep[p][fd].mask # "OUT" => conn[p][fd].reply = 0

\* A fired event is about an open descriptor, and what it reports is still so.
FiredOK ==
    \A p \in Server : \A fe \in fired[p] :
        /\ ep[p][fe.fd].file # NoFile
        /\ \A ge \in fired[p] : ge.fd = fe.fd => ge = fe
        /\ fe.mask = "IN" /\ fdt[p][fe.fd] \in Conns => conn[p][fe.fd].reply = 0
        /\ fe.fd = srv[p].inet_listen_fd => backlog # <<>>

\* inet_listen_fd is the listening socket.  Before and during its transfer Old has
\* it; New has it only while Old waits for the reply, or when Old has let go of it.
ListenOK ==
    /\ \A p \in Server :
          srv[p].inet_listen_fd # NoFd /\ srv[p].pc # "exit"
          => fdt[p][srv[p].inet_listen_fd] = InetListen
    /\ \/ ~srv[Old].unix_socket_init
       \/ srv[Old].pc \in {"send_listen", "reply_listen"}
       => srv[Old].inet_listen_fd # NoFd
    /\ srv[Old].pc \in {"send_listen", "reply_listen"} => fired[Old] = {}
    /\ srv[Old].inet_listen_fd # NoFd /\ srv[Old].pc # "reply_listen"
       => srv[New].inet_listen_fd = NoFd

\* The session Old waits for is one of its sessions, at a request boundary.
SessionOK ==
    srv[Old].pc = "reply_session" =>
        /\ srv[Old].session_fd \in inet_conn_map[Old]
        /\ fdt[Old][srv[Old].session_fd] \in Conns
        /\ conn[Old][srv[Old].session_fd] = NewConn
        /\ \A fe \in fired[Old] : fe.fd # srv[Old].session_fd

\* There is one UNIX connection, and what is on it is what Old waits for.
UnixOK ==
    /\ unix.queued => srv[New].unix_conn_fd = NoFd
    /\ ~srv[Old].unix_socket_init => ~unix.queued /\ srv[New].unix_conn_fd = NoFd
    /\ srv[Old].pc \in {"send_listen", "reply_listen", "reply_session"}
       => srv[Old].unix_socket_init
    /\ srv[Old].unix_client # NoFd => srv[Old].unix_socket_init
    /\ ~NewEndOpen => unix.msgs = <<>>
    /\ unix.msgs # <<>> =>
          \/ /\ srv[Old].pc = "reply_listen"
             /\ unix.msgs = <<[type |-> "kTransferListenFd", file |-> InetListen]>>
             /\ srv[New].inet_listen_fd = NoFd
          \/ /\ srv[Old].pc = "reply_session"
             /\ unix.msgs = <<[type |-> "kTransferSessionFd",
                               file |-> fdt[Old][srv[Old].session_fd]]>>

\* A connection is not open yet, or waits in the backlog, or is with the servers.
BacklogOK ==
    /\ \A i, j \in DOMAIN backlog : backlog[i] = backlog[j] => i = j
    /\ \A i \in DOMAIN backlog : peer[backlog[i]] # "none"
    /\ \A c \in Conns :
          peer[c] = "none" \/ (\E i \in DOMAIN backlog : backlog[i] = c) => ~Referenced(c)
    /\ \A k \in Clients :
          /\ cl[k].i \in DOMAIN ClientFds[k]
          /\ cl[k].pc = "connect" =>
                \A j \in DOMAIN ClientFds[k] : cl[k].i <= j => peer[ClientFds[k][j]] = "none"

\* The invariant every step preserves: the main loop of server.cc, the transfer protocol
\* of unix_client.cc and unix_conn.cc, and the epoll and descriptor tables stay in step.
IInv ==
    /\ TypeOK /\ RolesOK /\ BufferOK /\ NamesOK /\ FiredOK /\ ListenOK /\ SessionOK
    /\ UnixOK /\ BacklogOK /\ OneReader /\ ReplyMatches
-----------------------------------------------------------------------------
(***************************************************************************)
(* What SessionsKept rests on.  It is no part of IInv, which also holds    *)
(* after a crash: the facts below hold as long as both processes run.      *)
(***************************************************************************)
AllRun == \A p \in Server : srv[p].pc # "exit"

Open(f) == \E p \in Server, fd \in Fd : fdt[p][fd] = f

Queued(c) == \E n \in DOMAIN backlog : backlog[n] = c

\* Someone has the listening socket; when New has answered, New has it.
ListenKept ==
    /\ \E p \in Server : srv[p].inet_listen_fd # NoFd
    /\ srv[Old].pc = "reply_listen" /\ unix.msgs = <<>> => srv[New].inet_listen_fd # NoFd
    /\ srv[New].pc = "loop" => \E fd \in Fd : fdt[New][fd] = UnixListen

\* When New has answered to a session, New has that session or its client is gone.
SessionTaken ==
    srv[Old].pc = "reply_session" /\ unix.msgs = <<>> =>
        LET c == fdt[Old][srv[Old].session_fd]
        IN  peer[c] = "up" => \E fd \in Fd : fdt[New][fd] = c

\* The UNIX connection stays, and New knows its end by pointer and by number.
ChannelKept ==
    /\ srv[Old].unix_socket_init => OldEndOpen /\ NewEndOpen
    /\ srv[New].unix_conn_fd # NoFd =>
          srv[New].unix_conn /\ fdt[New][srv[New].unix_conn_fd] = UnixConn

\* EPOLLHUP is only for a session whose client has reset it.
HupOK ==
    \A p \in Server : \A fe \in fired[p] :
        fe.mask = "HUP" => fdt[p][fe.fd] \in Conns /\ peer[fdt[p][fe.fd]] = "rst"

\* Every open session is in inet_conn_map.
MapOK == \A p \in Server, fd \in Fd : fdt[p][fd] \in Conns => fd \in inet_conn_map[p]

\* A client that is there has a session or waits to be accepted.
ClientsKept == \A c \in Conns : peer[c] = "up" => Open(c) \/ Queued(c)

\* While both processes run, main, handle_unix_event and handle_net_event (server.cc)
\* close a session only if its client is gone or the other process has it.
Kept == ListenKept /\ SessionTaken /\ ChannelKept /\ HupOK /\ MapOK /\ ClientsKept
KInv == AllRun => Kept
-----------------------------------------------------------------------------
(***************************************************************************)
(* What NeverDeaf rests on, crashes or not.                                *)
(***************************************************************************)

\* session_fd is the argument of a call: it is set only while Old waits for the reply.
IdleOK ==
    \A p \in Server : srv[p].pc \notin {"reply_session", "exit"} => srv[p].session_fd = NoFd

\* The UNIX listening socket, and the UNIX connection while unix_conn points to it, are
\* what the locals of main say: an event on these numbers is not about a session.
NumbersOK ==
    \A p \in Server : srv[p].pc # "exit" =>
        /\ srv[p].unix_listen_fd # NoFd => fdt[p][srv[p].unix_listen_fd] = UnixListen
        /\ srv[p].unix_conn =>
              srv[p].unix_conn_fd # NoFd /\ fdt[p][srv[p].unix_conn_fd] = UnixConn

\* An entry that waits for EPOLLOUT is level-triggered, so Poll leaves it armed.
ArmedOK ==
    \A p \in Server, fd \in Fd :
        ep[p][fd].mask = "OUT" => ep[p][fd].armed /\ ~ep[p][fd].et

\* An event of the session is still to be handled, or it is being handed over.
Attended(p, fd) == srv[p].session_fd = fd \/ \E fe \in fired[p] : fe.fd = fd

\* What NeverDeaf says of one session.
WantedMask(b) == IF b.reply > 0 THEN "OUT" ELSE "IN"

Unheard(p, fd) ==
    /\ ~ep[p][fd].armed /\ ~Attended(p, fd)
    /\ rx[fdt[p][fd]] > 0 \/ (peer[fdt[p][fd]] # "up" /\ EmptyReadBuf(conn[p][fd]))

\* With IInv, every step preserves it: the epoll entries of server.cc and epoll.cc miss
\* no readiness of a session.
EInv == IdleOK /\ NumbersOK /\ ArmedOK /\ NeverDeaf
-----------------------------------------------------------------------------
(***************************************************************************)
(* What BytesAccounted rests on.  It says nothing of a session that died   *)
(* with a process, and BInv says which sessions these are.                 *)
(***************************************************************************)

\* Between two requests a client has neither written nor read a part of one.
ClientsOK ==
    \A k \in Clients : /\ cl[k].pc = "connect" => cl[k].pos = 0
                       /\ cl[k].pc = "write" => cl[k].pos < ReqLen

\* No byte is on a connection that is not open yet.
FreshOK == \A c \in Conns : peer[c] = "none" => rx[c] = 0 /\ tx[c] = 0

\* The kernel has closed every descriptor of a process that has ended.
ExitedOK == \A p \in Server : srv[p].pc = "exit" => \A fd \in Fd : fdt[p][fd] = NoFile

\* The client is there, and so is whatever was read from it.
Served(c) ==
    /\ peer[c] = "up" /\ srv[New].pc # "exit"
    /\ srv[Old].pc # "exit" \/ (\E fd \in Fd : fdt[New][fd] = c) \/ Queued(c)

\* Bytes of a request of c on their way to the server or in read_buf_, and of the reply
\* unsent or on their way back.
Request(c) == rx[c] + ConnOf(c).last_read_pos
Reply(c) == Unsent(ConnOf(c)) + tx[c]

\* What a client in state s expects of its i-th connection.
Tally(s, i, request, reply) ==
    CASE i = s.i /\ s.pc = "write" -> request = s.pos /\ reply = 0
      [] i = s.i /\ s.pc = "read" ->
           \/ request = ReqLen /\ reply = 0 /\ s.pos = 0
           \/ request = 0 /\ reply + s.pos = MsgLen
      [] OTHER -> request = 0 /\ reply = 0

Accounted ==
    \A k \in Clients : \A i \in DOMAIN ClientFds[k] :
        Served(ClientFds[k][i]) =>
        Tally(cl[k], i, Request(ClientFds[k][i]), Reply(ClientFds[k][i]))

\* With IInv and KInv, every step preserves it: GetRequest and SendReply (inet_conn.cc) and
\* the handover of server.cc neither lose nor duplicate a byte.
BInv == ClientsOK /\ FreshOK /\ ExitedOK /\ MapOK /\ Accounted
-----------------------------------------------------------------------------
(***************************************************************************)
(* What the refinement of EchoService rests on when nothing is killed.     *)
(***************************************************************************)

\* A client goes on, and every connection it has opened is open on its side (client.cc).
ClientsStay ==
    \A k \in Clients :
        /\ cl[k].pc # "exit"
        /\ \A j \in DOMAIN ClientFds[k] :
              cl[k].pc # "connect" \/ j < cl[k].i => peer[ClientFds[k][j]] = "up"
=============================================================================

----------------------------- MODULE HotUpgrade -----------------------------
(***************************************************************************)
(* The hot upgrade demo (hot_upgrade_demo/): the running server Old        *)
(* (./server ./unix_client_trigger) hands its listening socket, and then   *)
(* every client session that becomes readable at a request boundary, to    *)
(* the freshly started server New (./server -u) over a UNIX socket, while  *)
(* the echo clients of client.cc keep sending requests.                    *)
(*                                                                         *)
(* Both servers run the same main loop: look for the trigger file, Poll,   *)
(* handle the fired events one by one.  The kernel (descriptor tables,     *)
(* epoll, sockets) is external and modelled from the calls the code makes: *)
(* descriptors are allocated lowest first, an epoll entry belongs to a     *)
(* file and not to a number, a passed descriptor names the same file, a    *)
(* socket lives as long as someone references it.  Standard descriptors    *)
(* and the epoll descriptor are left out of the tables.                    *)
(***************************************************************************)
EXTENDS InetConn, Sequences

CONSTANTS
    Clients,    \* running instances of ./client
    Conns,      \* the TCP connections they open
    ClientFds,  \* [Clients -> Seq(Conns)]: client_fds of each client
    MsgLen,     \* message.size()
    MaxRounds,  \* bound: passes over client_fds before a client stops asking
    MaxFd,      \* bound: descriptors per process
    Faults      \* what else may happen, a subset of AllFaults

AllFaults == {"early_trigger",  \* the trigger file appears before New listens
              "stale_accept",   \* New accepts Old only after STALE seconds
              "accept_fails",   \* accept() of a client fails, as at the limit of files
              "kill_new", "kill_client",
              "stop_old"}       \* Old is stopped once it has no session left

ASSUME HotUpgradeAssumption ==
    /\ ClientFds \in [Clients -> Seq(Conns)]
    /\ \A k \in Clients : ClientFds[k] # <<>>
    /\ \A k, l \in Clients : \A i \in DOMAIN ClientFds[k], j \in DOMAIN ClientFds[l] :
          ClientFds[k][i] = ClientFds[l][j] => k = l /\ i = j
    /\ \A f \in {"inet_listen", "unix_listen", "unix_conn", "unix_client", "no_file"} :
          f \notin Conns
    /\ MsgLen \in Nat \ {0} /\ HEADER_LEN + MsgLen <= READ_BUFFER_SIZE
    /\ MaxRounds \in Nat \ {0}
    /\ MaxFd \in Nat /\ MaxFd > 0
    /\ Faults \subseteq AllFaults

Old == "old"
New == "new"
Server == {Old, New}

Fd == 1..MaxFd
NoFd == 0           \* the -1 of the code

InetListen == "inet_listen"
UnixListen == "unix_listen"
UnixConn   == "unix_conn"      \* New's end of the UNIX connection
UnixClient == "unix_client"    \* Old's end
NoFile     == "no_file"
File == Conns \cup {InetListen, UnixListen, UnixConn, UnixClient, NoFile}

ReqLen == HEADER_LEN + MsgLen

VARIABLES
    srv,            \* control state and scalars of each server's main and Epoll
    inet_conn_map,  \* keys of each server's Epoll::inet_conn_map
    conn,           \* the InetConn each key points to
    fired,          \* events of the last Poll not handled yet
    fdt,            \* kernel: descriptor table of each server
    ep,             \* kernel: epoll interest list of each server
    unix,           \* kernel: the UNIX connection between Old and New
    backlog,        \* kernel: connections waiting in the listening socket
    rx, tx,         \* kernel: bytes waiting for the server, for the client
    peer,           \* kernel: the client's end of each connection
    cl,             \* each client's position in client.cc
    trigger         \* does the file ./unix_client_trigger exist?

procs == <<srv, inet_conn_map, conn, fired>>
kernel == <<fdt, ep, unix, backlog, rx, tx, peer>>
vars == <<srv, inet_conn_map, conn, fired, fdt, ep, unix, backlog, rx, tx,
          peer, cl, trigger>>

SrvState ==
    [pc : {"down", "loop", "send_listen", "reply_listen", "reply_session", "exit"},
     session_fd : Fd \cup {NoFd},       \* argument of TransferSessionFd
     inet_listen_fd : Fd \cup {NoFd},
     unix_listen_fd : Fd \cup {NoFd},
     unix_conn_fd : Fd \cup {NoFd},     \* the local of main
     unix_conn : BOOLEAN,               \* is the global pointer set?
     unix_client : Fd \cup {NoFd},
     unix_socket_init : BOOLEAN]

Watch == [file : File, mask : {"NONE", "IN", "OUT"}, et : BOOLEAN, armed : BOOLEAN]
NoWatch == [file |-> NoFile, mask |-> "NONE", et |-> FALSE, armed |-> FALSE]

FiredEvent == [fd : Fd, mask : {"IN", "OUT", "HUP"}]

Message == [type : {"kTransferListenFd", "kTransferSessionFd"}, file : File]

ClientState == [pc : {"connect", "write", "read", "done", "exit"},
                i : Nat, pos : Nat, round : Nat]

(***************************************************************************)
(* The type invariant: descriptors, interest lists, connection objects and *)
(* buffers of both servers, of the kernel and of the clients stay within   *)
(* what inet_conn.h, epoll.h and client.cc declare; no buffer runs over.   *)
(***************************************************************************)
TypeOK ==
    /\ srv \in [Server -> SrvState]
    /\ inet_conn_map \in [Server -> SUBSET Fd]
    /\ conn \in [Server -> [Fd -> Conn]]
    /\ \A p \in Server, fd \in Fd :
          /\ conn[p][fd].last_read_pos < READ_BUFFER_SIZE
          /\ conn[p][fd].last_write_pos <= conn[p][fd].reply
    /\ fired \in [Server -> SUBSET FiredEvent]
    /\ fdt \in [Server -> [Fd -> File]]
    /\ ep \in [Server -> [Fd -> Watch]]
    /\ unix \in [queued : BOOLEAN, msgs : Seq(Message), replies : Nat]
    /\ backlog \in Seq(Conns)
    /\ rx \in [Conns -> Nat] /\ tx \in [Conns -> Nat]
    /\ peer \in [Conns -> {"none", "up", "fin", "rst"}]
    /\ cl \in [Clients -> ClientState]
    /\ trigger \in BOOLEAN
-----------------------------------------------------------------------------
(* Kernel: descriptors, epoll, sockets *)

LowestFree(p, fd) ==
    /\ fdt[p][fd] = NoFile
    /\ \A g \in Fd : g < fd => fdt[p][g] # NoFile

AddEvent(p, fd, file, et) ==
    [ep EXCEPT ![p][fd] = [file |-> file, mask |-> "IN", et |-> et, armed |-> TRUE]]

\* EPOLL_CTL_MOD replaces the flags: EPOLLET is gone from then on.
ModEvent(p, fd, mask) ==
    [ep EXCEPT ![p][fd] = [file |-> @.file, mask |-> mask, et |-> FALSE, armed |-> TRUE]]

DelEvent(p, fd) == [ep EXCEPT ![p][fd] = NoWatch]

InFlight(f) == \E n \in DOMAIN unix.msgs : unix.msgs[n].file = f

Referenced(f) == InFlight(f) \/ \E p \in Server, fd \in Fd : fdt[p][fd] = f

\* The server side of an established connection still exists.
Alive(c) ==
    \/ Referenced(c)
    \/ Referenced(InetListen) /\ \E n \in DOMAIN backlog : backlog[n] = c

NewEndOpen == unix.queued \/ \E fd \in Fd : fdt[New][fd] = UnixConn
OldEndOpen == \E fd \in Fd : fdt[Old][fd] = UnixClient

\* The events a file has pending for an interest mask.
Pending(f, mask) ==
    CASE f = InetListen -> IF backlog # <<>> THEN {"IN"} ELSE {}
      [] f = UnixListen -> IF unix.queued THEN {"IN"} ELSE {}
      [] f = UnixConn   -> IF ~OldEndOpen THEN {"HUP"}
                           ELSE IF unix.msgs # <<>> THEN {"IN"} ELSE {}
      [] f \in Conns    -> IF peer[f] = "rst" THEN {"HUP"}
                           ELSE IF mask = "OUT" THEN {"OUT"}
                           ELSE IF rx[f] > 0 \/ peer[f] = "fin" THEN {"IN"} ELSE {}
      [] OTHER -> {}

Ready(p) == {fe \in FiredEvent :
                /\ ep[p][fe.fd].armed
                /\ fe.mask \in Pending(ep[p][fe.fd].file, ep[p][fe.fd].mask)}

\* Something new on a socket of S rearms the edge-triggered entries for it.
Rearm(S) ==
    [p \in Server |-> [fd \in Fd |->
        IF ep[p][fd].file \in S THEN [ep[p][fd] EXCEPT !.armed = TRUE] ELSE ep[p][fd]]]
-----------------------------------------------------------------------------
(* server.cc main: start, trigger file, poll *)

Handled(p, fe) == fired' = [fired EXCEPT ![p] = @ \ {fe}]

\* socket, bind, listen; accept; connect: each makes the lowest free descriptor
UnixServerListen(p, fd) == LowestFree(p, fd) /\ fdt' = [fdt EXCEPT ![p][fd] = UnixListen]

UnixServerAccept(p, fd) ==
    /\ unix.queued
    /\ LowestFree(p, fd)
    /\ fdt' = [fdt EXCEPT ![p][fd] = UnixConn]
    /\ unix' = [unix EXCEPT !.queued = FALSE]

UnixClientConn(p, fd) ==
    /\ LowestFree(p, fd)
    /\ fdt' = [fdt EXCEPT ![p][fd] = UnixClient]
    /\ unix' = [unix EXCEPT !.queued = TRUE]

InetClientConn(c) == backlog' = Append(backlog, c) /\ peer' = [peer EXCEPT ![c] = "up"]

\* ./server -u: startUnixServer(UNIX_SOCKET_LOCK_FILE)
StartNew ==
    /\ srv[New].pc = "down"
    /\ \E fd \in Fd :
          /\ UnixServerListen(New, fd)
          /\ srv' = [srv EXCEPT ![New].pc = "loop", ![New].unix_listen_fd = fd]
          /\ ep' = AddEvent(New, fd, UnixListen, FALSE)
    /\ UNCHANGED <<inet_conn_map, conn, fired, unix, backlog, rx, tx, peer, cl, trigger>>

\* The operator creates the file Old looks for.
CreateTrigger ==
    /\ ~trigger
    /\ srv[New].pc = "loop" \/ "early_trigger" \in Faults
    /\ trigger' = TRUE
    /\ UNCHANGED <<procs, kernel, cl>>

AtTop(p) == srv[p].pc = "loop" /\ fired[p] = {}

SeesTrigger(p) == p = Old /\ trigger /\ ~srv[p].unix_socket_init

\* exit(-1), or a kill: the kernel closes every descriptor of p.
Exit(p) ==
    /\ srv' = [srv EXCEPT ![p].pc = "exit"]
    /\ inet_conn_map' = [inet_conn_map EXCEPT ![p] = {}]
    /\ conn' = [conn EXCEPT ![p] = [fd \in Fd |-> NewConn]]
    /\ fired' = [fired EXCEPT ![p] = {}]
    /\ fdt' = [fdt EXCEPT ![p] = [fd \in Fd |-> NoFile]]
    /\ ep' = [ep EXCEPT ![p] = [fd \in Fd |-> NoWatch]]
    /\ unix' = IF p = New THEN [unix EXCEPT !.queued = FALSE, !.msgs = <<>>] ELSE unix
    /\ UNCHANGED <<backlog, rx, tx, peer, cl, trigger>>

\* The trigger file is there: connect, new UnixClient
MeetNew(p) ==
    /\ AtTop(p) /\ SeesTrigger(p)
    /\ \E fd \in Fd : fdt[New][fd] = UnixListen
    /\ \E fd \in Fd :
          /\ UnixClientConn(p, fd)
          /\ srv' = [srv EXCEPT ![p].pc = "send_listen", ![p].unix_client = fd,
                                ![p].unix_socket_init = TRUE]
    /\ UNCHANGED <<inet_conn_map, conn, fired, ep, backlog, rx, tx, peer, cl, trigger>>

MeetNewFails(p) ==
    /\ AtTop(p) /\ SeesTrigger(p)
    /\ ~\E fd \in Fd : fdt[New][fd] = UnixListen
    /\ Exit(p)

\* TransferListenFd up to the blocking GetReply; a failed sendmsg is reported only
TransferListenFd(p) ==
    /\ srv[p].pc = "send_listen"
    /\ IF NewEndOpen
       THEN /\ unix' = [unix EXCEPT !.msgs = Append(@,
                          [type |-> "kTransferListenFd",
                           file |-> fdt[p][srv[p].inet_listen_fd]])]
            /\ srv' = [srv EXCEPT ![p].pc = "reply_listen"]
       ELSE srv' = [srv EXCEPT ![p].pc = "loop"] /\ UNCHANGED unix
    /\ UNCHANGED <<inet_conn_map, conn, fired, fdt, ep, backlog, rx, tx, peer, cl, trigger>>

\* Mutant: recvmsg is called again until there is a reply.
GetReply_Insists == unix.replies > 0 /\ unix' = [unix EXCEPT !.replies = @ - 1]

\* GetReply returns on a reply and also, its result ignored, when New is gone.
GetReply ==
    \/ unix.replies > 0 /\ unix' = [unix EXCEPT !.replies = @ - 1]
    \/ unix.replies = 0 /\ ~NewEndOpen /\ UNCHANGED unix

\* Mutant: Old keeps listening after the transfer.
DetachInetListenFd_Forgotten(p) ==
    srv' = [srv EXCEPT ![p].pc = "loop"] /\ UNCHANGED <<ep, fdt>>

DetachInetListenFd(p) ==
    /\ ep' = DelEvent(p, srv[p].inet_listen_fd)
    /\ fdt' = [fdt EXCEPT ![p][srv[p].inet_listen_fd] = NoFile]
    /\ srv' = [srv EXCEPT ![p].pc = "loop", ![p].inet_listen_fd = NoFd]

FinishListenFd(p) ==
    /\ srv[p].pc = "reply_listen"
    /\ GetReply
    /\ DetachInetListenFd(p)
    /\ UNCHANGED <<inet_conn_map, conn, fired, backlog, rx, tx, peer, cl, trigger>>

\* epoll_wait reports the ready entries and disarms the edge-triggered ones.
Poll(p) ==
    /\ AtTop(p) /\ ~SeesTrigger(p)
    /\ Ready(p) # {}
    /\ fired' = [fired EXCEPT ![p] = Ready(p)]
    /\ ep' = [ep EXCEPT ![p] = [fd \in Fd |->
                IF ep[p][fd].et /\ \E fe \in Ready(p) : fe.fd = fd
                THEN [ep[p][fd] EXCEPT !.armed = FALSE] ELSE ep[p][fd]]]
    /\ UNCHANGED <<srv, inet_conn_map, conn, fdt, unix, backlog, rx, tx, peer, cl, trigger>>
-----------------------------------------------------------------------------
(* server.cc main: which branch a fired event takes *)

ForInetListen(p, fe) ==
    /\ srv[p].pc = "loop" /\ fe \in fired[p]
    /\ fe.fd = srv[p].inet_listen_fd

ForUnixListen(p, fe) ==
    /\ srv[p].pc = "loop" /\ fe \in fired[p]
    /\ fe.fd # srv[p].inet_listen_fd /\ fe.fd = srv[p].unix_listen_fd

ForUnixConn(p, fe) ==
    /\ srv[p].pc = "loop" /\ fe \in fired[p]
    /\ fe.fd \notin {srv[p].inet_listen_fd, srv[p].unix_listen_fd}
    /\ fe.fd = srv[p].unix_conn_fd

ForNet(p, fe) ==
    /\ srv[p].pc = "loop" /\ fe \in fired[p]
    /\ fe.fd \notin {srv[p].inet_listen_fd, srv[p].unix_listen_fd, srv[p].unix_conn_fd}

\* Mutant: the session is in the map but not in the interest list.
OpenConn_NoEvent(p, fd, c) ==
    /\ LowestFree(p, fd)
    /\ fdt' = [fdt EXCEPT ![p][fd] = c]
    /\ inet_conn_map' = [inet_conn_map EXCEPT ![p] = @ \cup {fd}]
    /\ conn' = [conn EXCEPT ![p][fd] = NewConn]
    /\ UNCHANGED ep

\* A session enters p: new InetConn, inet_conn_map[fd], AddEvent(EPOLLIN | EPOLLET)
OpenConn(p, fd, c) ==
    /\ LowestFree(p, fd)
    /\ fdt' = [fdt EXCEPT ![p][fd] = c]
    /\ inet_conn_map' = [inet_conn_map EXCEPT ![p] = @ \cup {fd}]
    /\ conn' = [conn EXCEPT ![p][fd] = NewConn]
    /\ ep' = AddEvent(p, fd, c, TRUE)

\* A session leaves p: DelEvent, close, erase, delete
CloseConn(p, fd) ==
    /\ ep' = DelEvent(p, fd)
    /\ fdt' = [fdt EXCEPT ![p][fd] = NoFile]
    /\ inet_conn_map' = [inet_conn_map EXCEPT ![p] = @ \ {fd}]
    /\ conn' = [conn EXCEPT ![p][fd] = NewConn]

\* accept() on the blocking listening socket: no step while the backlog is empty
InetServerAccept == backlog # <<>> /\ backlog' = Tail(backlog)

HandleInetListen(p, fe) ==
    /\ ForInetListen(p, fe)
    /\ InetServerAccept
    /\ \E fd \in Fd : OpenConn(p, fd, Head(backlog))
    /\ Handled(p, fe)
    /\ UNCHANGED <<srv, unix, rx, tx, peer, cl, trigger>>

\* main exits; the connection stays in the backlog.
HandleInetListenFails(p, fe) ==
    /\ ForInetListen(p, fe)
    /\ "accept_fails" \in Faults
    /\ Exit(p)

HandleUnixListen(p, fe) ==
    /\ ForUnixListen(p, fe)
    /\ \E fd \in Fd :
          /\ UnixServerAccept(p, fd)
          /\ ep' = AddEvent(p, fd, UnixConn, FALSE)
          /\ srv' = [srv EXCEPT ![p].unix_conn_fd = fd, ![p].unix_conn = TRUE]
    /\ Handled(p, fe)
    /\ UNCHANGED <<inet_conn_map, conn, backlog, rx, tx, peer, cl, trigger>>

\* The socket file of the caller is older than STALE seconds: main exits.
HandleUnixListenFails(p, fe) ==
    /\ ForUnixListen(p, fe)
    /\ "stale_accept" \in Faults
    /\ Exit(p)
-----------------------------------------------------------------------------
(* server.cc handle_unix_event, unix_conn.cc: New receives descriptors *)

HandleUnixEventFails(p, fe) == fe.mask = "HUP" \/ ~srv[p].unix_conn

MakeCommonReply(u) == [u EXCEPT !.replies = @ + 1]

\* processRecv takes a message; the handlers of both types end with the reply
ProcessRecv(p, fe) ==
    /\ ForUnixConn(p, fe) /\ ~HandleUnixEventFails(p, fe)
    /\ unix.msgs # <<>>
    /\ unix' = MakeCommonReply([unix EXCEPT !.msgs = Tail(@)])
    /\ Handled(p, fe)

AttachInetListenFd(p, fd, file) ==
    /\ srv' = [srv EXCEPT ![p].inet_listen_fd = fd]
    /\ ep' = AddEvent(p, fd, file, FALSE)

\* Mutant: the received descriptor is not kept.
HandleListenFdMsg_DropsFd(p, fe) ==
    /\ ProcessRecv(p, fe)
    /\ Head(unix.msgs).type = "kTransferListenFd"
    /\ UNCHANGED <<srv, inet_conn_map, conn, fdt, ep, backlog, rx, tx, peer, cl, trigger>>

HandleListenFdMsg(p, fe) ==
    /\ ProcessRecv(p, fe)
    /\ Head(unix.msgs).type = "kTransferListenFd"
    /\ \E fd \in Fd :
          /\ LowestFree(p, fd)
          /\ fdt' = [fdt EXCEPT ![p][fd] = Head(unix.msgs).file]
          /\ AttachInetListenFd(p, fd, Head(unix.msgs).file)
    /\ UNCHANGED <<inet_conn_map, conn, backlog, rx, tx, peer, cl, trigger>>

HandleSessionFdMsg(p, fe) ==
    /\ ProcessRecv(p, fe)
    /\ Head(unix.msgs).type = "kTransferSessionFd"
    /\ \E fd \in Fd : OpenConn(p, fd, Head(unix.msgs).file)
    /\ UNCHANGED <<srv, backlog, rx, tx, peer, cl, trigger>>

\* handle_unix_event returns -1: DelEvent, close, unix_conn = NULL.  main's
\* unix_conn_fd keeps its value; the number may come back for another file.
UnixConnClose(p, fe) ==
    /\ ForUnixConn(p, fe) /\ HandleUnixEventFails(p, fe)
    /\ ep' = DelEvent(p, fe.fd)
    /\ fdt' = [fdt EXCEPT ![p][fe.fd] = NoFile]
    /\ srv' = [srv EXCEPT ![p].unix_conn = FALSE]
    /\ unix' = IF fdt[p][fe.fd] = UnixConn THEN [unix EXCEPT !.msgs = <<>>] ELSE unix
    /\ Handled(p, fe)
    /\ UNCHANGED <<inet_conn_map, conn, backlog, rx, tx, peer, cl, trigger>>
-----------------------------------------------------------------------------
(* server.cc handle_net_event: a client session is ready *)

\* Mutant: looks at the other global pointer, which Old never sets.
Transferable_WrongPointer(p, fe) ==
    /\ ForNet(p, fe) /\ fe.mask = "IN" /\ fe.fd \in inet_conn_map[p]
    /\ EmptyReadBuf(conn[p][fe.fd])
    /\ srv[p].unix_conn /\ srv[p].unix_client # NoFd

\* Mutant: hands over in the middle of a request.
Transferable_AnyTime(p, fe) ==
    /\ ForNet(p, fe) /\ fe.mask = "IN" /\ fe.fd \in inet_conn_map[p]
    /\ srv[p].unix_client # NoFd

\* The session is at a request boundary and this server is being replaced.
Transferable(p, fe) ==
    /\ ForNet(p, fe) /\ fe.mask = "IN" /\ fe.fd \in inet_conn_map[p]
    /\ EmptyReadBuf(conn[p][fe.fd])
    /\ srv[p].unix_client # NoFd

\* Mutant: does not wait for the reply.
TransferSessionFd_NoWait(p, fe) ==
    /\ Transferable(p, fe)
    /\ NewEndOpen
    /\ unix' = [unix EXCEPT !.msgs = Append(@,
                  [type |-> "kTransferSessionFd", file |-> fdt[p][fe.fd]])]
    /\ CloseConn(p, fe.fd)
    /\ Handled(p, fe)
    /\ UNCHANGED <<srv, backlog, rx, tx, peer, cl, trigger>>

\* TransferSessionFd up to the blocking GetReply
TransferSessionFd(p, fe) ==
    /\ Transferable(p, fe)
    /\ NewEndOpen
    /\ unix' = [unix EXCEPT !.msgs = Append(@,
                  [type |-> "kTransferSessionFd", file |-> fdt[p][fe.fd]])]
    /\ srv' = [srv EXCEPT ![p].pc = "reply_session", ![p].session_fd = fe.fd]
    /\ Handled(p, fe)
    /\ UNCHANGED <<inet_conn_map, conn, fdt, ep, backlog, rx, tx, peer, cl, trigger>>

\* sendmsg failed: the session is closed all the same.
TransferSessionFdFails(p, fe) ==
    /\ Transferable(p, fe)
    /\ ~NewEndOpen
    /\ CloseConn(p, fe.fd)
    /\ Handled(p, fe)
    /\ UNCHANGED <<srv, unix, backlog, rx, tx, peer, cl, trigger>>

\* Mutant: handle_net_event returns 0 after a transfer.
CloseTransferred_Returns0(p) ==
    /\ srv[p].pc = "reply_session"
    /\ GetReply
    /\ srv' = [srv EXCEPT ![p].pc = "loop", ![p].session_fd = NoFd]
    /\ UNCHANGED <<inet_conn_map, conn, fired, fdt, ep, backlog, rx, tx, peer, cl, trigger>>

\* GetReply, then handle_net_event returns -1
CloseTransferred(p) ==
    /\ srv[p].pc = "reply_session"
    /\ GetReply
    /\ CloseConn(p, srv[p].session_fd)
    /\ srv' = [srv EXCEPT ![p].pc = "loop", ![p].session_fd = NoFd]
    /\ UNCHANGED <<fired, backlog, rx, tx, peer, cl, trigger>>

HandleRead(p, fe) ==
    /\ ForNet(p, fe) /\ fe.mask = "IN" /\ fe.fd \in inet_conn_map[p]
    /\ ~Transferable(p, fe)
    /\ LET c == fdt[p][fe.fd]
           r == GetRequest(conn[p][fe.fd], rx[c], peer[c], MsgLen)
       IN  /\ rx' = [rx EXCEPT ![c] = @ - r.nread]
           /\ \/ /\ r.rs = "kReadAll"
                 /\ conn' = [conn EXCEPT ![p][fe.fd] = r.conn]
                 /\ ep' = ModEvent(p, fe.fd, "OUT")
                 /\ UNCHANGED <<inet_conn_map, fdt>>
              \/ /\ r.rs = "kReadHalf"
                 /\ conn' = [conn EXCEPT ![p][fe.fd] = r.conn]
                 /\ UNCHANGED <<inet_conn_map, ep, fdt>>
              \/ /\ r.rs \in {"kReadClose", "kReadError", "kFullError"}
                 /\ CloseConn(p, fe.fd)
    /\ Handled(p, fe)
    /\ UNCHANGED <<srv, unix, backlog, tx, peer, cl, trigger>>

\* write() takes any part of the reply; a client that is gone answers with a reset.
HandleWrite(p, fe) ==
    /\ ForNet(p, fe) /\ fe.mask = "OUT" /\ fe.fd \in inet_conn_map[p]
    /\ LET c == fdt[p][fe.fd]
       IN  \/ /\ peer[c] # "rst"
              /\ \E n \in 1..Unsent(conn[p][fe.fd]) :
                    LET w == SendReply(conn[p][fe.fd], n)
                    IN  /\ conn' = [conn EXCEPT ![p][fe.fd] = w.conn]
                        /\ tx' = [tx EXCEPT ![c] = @ + n]
                        /\ ep' = IF w.ws = "kWriteAll" THEN ModEvent(p, fe.fd, "IN") ELSE ep
              /\ peer' = [peer EXCEPT ![c] = IF @ = "fin" THEN "rst" ELSE @]
              /\ UNCHANGED <<inet_conn_map, fdt>>
           \/ /\ peer[c] = "rst"
              /\ CloseConn(p, fe.fd)
              /\ UNCHANGED <<tx, peer>>
    /\ Handled(p, fe)
    /\ UNCHANGED <<srv, unix, backlog, rx, cl, trigger>>

\* EPOLLERR or EPOLLHUP, or a descriptor the map does not know
HandleNetError(p, fe) ==
    /\ ForNet(p, fe)
    /\ fe.mask = "HUP" \/ fe.fd \notin inet_conn_map[p]
    /\ CloseConn(p, fe.fd)
    /\ Handled(p, fe)
    /\ UNCHANGED <<srv, unix, backlog, rx, tx, peer, cl, trigger>>

KillNew ==
    /\ "kill_new" \in Faults
    /\ srv[New].pc = "loop"
    /\ Exit(New)

StopOld ==
    /\ "stop_old" \in Faults
    /\ AtTop(Old) /\ srv[Old].unix_client # NoFd /\ inet_conn_map[Old] = {}
    /\ Exit(Old)
-----------------------------------------------------------------------------
(* client.cc *)

CurConn(k) == ClientFds[k][cl[k].i]

NextIndex(k) == IF cl[k].i = Len(ClientFds[k]) THEN 1 ELSE cl[k].i + 1

ClientConnect(k) ==
    /\ cl[k].pc = "connect"
    /\ Referenced(InetListen)
    /\ InetClientConn(CurConn(k))
    /\ cl' = [cl EXCEPT ![k].i = NextIndex(k),
                        ![k].pc = IF NextIndex(k) = 1 THEN "write" ELSE @]
    /\ UNCHANGED <<procs, fdt, ep, unix, rx, tx, trigger>>

\* client_echo_request, write loop: the kernel takes any part of the rest
ClientWrite(k) ==
    /\ cl[k].pc = "write" /\ Alive(CurConn(k))
    /\ \E n \in 1..(ReqLen - cl[k].pos) :
          LET done == cl[k].pos + n = ReqLen
          IN  /\ rx' = [rx EXCEPT ![CurConn(k)] = @ + n]
              /\ cl' = [cl EXCEPT ![k].pos = IF done THEN 0 ELSE @ + n,
                                  ![k].pc = IF done THEN "read" ELSE @]
    /\ ep' = Rearm({CurConn(k)})
    /\ UNCHANGED <<procs, fdt, unix, backlog, tx, peer, trigger>>

\* client_echo_request, read loop; then main moves to the next descriptor
ClientRead(k) ==
    /\ cl[k].pc = "read" /\ tx[CurConn(k)] > 0
    /\ tx' = [tx EXCEPT ![CurConn(k)] = 0]
    /\ LET pos  == cl[k].pos + tx[CurConn(k)]
           wrap == cl[k].i = Len(ClientFds[k])
           round == IF wrap THEN cl[k].round + 1 ELSE cl[k].round
       IN  cl' = [cl EXCEPT ![k] =
                    IF pos < MsgLen THEN [@ EXCEPT !.pos = pos]
                    ELSE [pc |-> IF round = MaxRounds THEN "done" ELSE "write",
                          i |-> NextIndex(k), pos |-> 0, round |-> round]]
    /\ UNCHANGED <<procs, fdt, ep, unix, backlog, rx, peer, trigger>>

\* The process ends: the kernel closes its connections.
ClientEnds(k) ==
    LET mine == {c \in Conns : peer[c] = "up"
                               /\ \E i \in DOMAIN ClientFds[k] : ClientFds[k][i] = c}
    IN  /\ cl' = [cl EXCEPT ![k].pc = "exit"]
        /\ peer' = [c \in Conns |-> IF c \notin mine THEN peer[c]
                                    ELSE IF tx[c] > 0 THEN "rst" ELSE "fin"]
        /\ ep' = Rearm(mine)
        /\ UNCHANGED <<procs, fdt, unix, backlog, rx, tx, trigger>>

\* connect is refused, a write meets a closed connection, or a read one that was
\* reset (unread bytes at the close).
ClientFails(k) ==
    /\ \/ cl[k].pc = "connect" /\ ~Referenced(InetListen)
       \/ cl[k].pc = "write" /\ ~Alive(CurConn(k))
       \/ cl[k].pc = "read" /\ ~Alive(CurConn(k)) /\ rx[CurConn(k)] > 0
    /\ ClientEnds(k)

\* After an orderly close read() returns 0 and the read loop goes on for ever.
ClientSpins(k) ==
    /\ cl[k].pc = "read" /\ tx[CurConn(k)] = 0
    /\ ~Alive(CurConn(k)) /\ rx[CurConn(k)] = 0
    /\ UNCHANGED vars

KillClient(k) ==
    /\ "kill_client" \in Faults
    /\ cl[k].pc \in {"write", "read", "done"}
    /\ ClientEnds(k)
-----------------------------------------------------------------------------
\* The descriptors of Old after inet_server_listen
InetServerListen == [fd \in Fd |-> IF fd = 1 THEN InetListen ELSE NoFile]

(* Old has run startInetServer(9221) and no client has connected yet. *)
Init ==
    /\ srv = [p \in Server |->
                [pc |-> IF p = Old THEN "loop" ELSE "down", session_fd |-> NoFd,
                 inet_listen_fd |-> IF p = Old THEN 1 ELSE NoFd,
                 unix_listen_fd |-> NoFd, unix_conn_fd |-> NoFd, unix_conn |-> FALSE,
                 unix_client |-> NoFd, unix_socket_init |-> FALSE]]
    /\ inet_conn_map = [p \in Server |-> {}]
    /\ conn = [p \in Server |-> [fd \in Fd |-> NewConn]]
    /\ fired = [p \in Server |-> {}]
    /\ fdt = [p \in Server |->
                IF p = Old THEN InetServerListen ELSE [fd \in Fd |-> NoFile]]
    /\ ep = [p \in Server |-> [fd \in Fd |->
                IF p = Old /\ fd = 1
                THEN [file |-> InetListen, mask |-> "IN", et |-> FALSE, armed |-> TRUE]
                ELSE NoWatch]]
    /\ unix = [queued |-> FALSE, msgs |-> <<>>, replies |-> 0]
    /\ backlog = <<>>
    /\ rx = [c \in Conns |-> 0] /\ tx = [c \in Conns |-> 0]
    /\ peer = [c \in Conns |-> "none"]
    /\ cl = [k \in Clients |-> [pc |-> "connect", i |-> 1, pos |-> 0, round |-> 0]]
    /\ trigger = FALSE

Handle(p, fe) ==
    \/ HandleInetListen(p, fe) \/ HandleInetListenFails(p, fe)
    \/ HandleUnixListen(p, fe) \/ HandleUnixListenFails(p, fe)
    \/ HandleListenFdMsg(p, fe) \/ HandleSessionFdMsg(p, fe) \/ UnixConnClose(p, fe)
    \/ TransferSessionFd(p, fe) \/ TransferSessionFdFails(p, fe)
    \/ HandleRead(p, fe) \/ HandleWrite(p, fe) \/ HandleNetError(p, fe)

ServerNext(p) ==
    \/ MeetNew(p) \/ MeetNewFails(p)
    \/ TransferListenFd(p) \/ FinishListenFd(p)
    \/ Poll(p)
    \/ \E fe \in fired[p] : Handle(p, fe)
    \/ CloseTransferred(p)

ClientNext(k) ==
    \/ ClientConnect(k) \/ ClientWrite(k) \/ ClientRead(k)
    \/ ClientFails(k) \/ ClientSpins(k)

\* Every client has stopped: nothing more need happen.
Quiet == (\A k \in Clients : cl[k].pc \in {"done", "exit"}) /\ UNCHANGED vars

Next ==
    \/ StartNew \/ CreateTrigger \/ KillNew \/ StopOld
    \/ \E p \in Server : ServerNext(p)
    \/ \E k \in Clients : ClientNext(k) \/ KillClient(k)
    \/ Quiet

Spec == Init /\ [][Next]_vars

\* The scheduler runs both servers, and every client; the operator need not act.
ServerFairness == \A p \in Server : WF_vars(ServerNext(p))
Fairness == ServerFairness /\ \A k \in Clients : WF_vars(ClientNext(k))

FairSpec == Spec /\ Fairness

\* The same with clients that may stop at any point.
FairServers == Spec /\ ServerFairness
-----------------------------------------------------------------------------
(* Properties *)

Holds(p, fd, c) == fd \in inet_conn_map[p] /\ fdt[p][fd] = c

\* Old waits in GetReply for the session c that it has sent to New.
HandingOver(c) == srv[Old].pc = "reply_session" /\ fdt[Old][srv[Old].session_fd] = c

(***************************************************************************)
(* A session has one reader.  It is held under at most one descriptor of a *)
(* server, and held by both servers, or held while it is in flight, only   *)
(* while Old is blocked in GetReply for it, having read nothing of the     *)
(* next request and owing no reply (server.cc:64-72, 184-193).             *)
(***************************************************************************)
OneReader ==
    \A c \in Conns, fd, g \in Fd :
        /\ \A p \in Server : Holds(p, fd, c) /\ Holds(p, g, c) => fd = g
        /\ Holds(Old, fd, c) /\ (Holds(New, g, c) \/ InFlight(c)) =>
              HandingOver(c) /\ conn[Old][fd] = NewConn
        /\ ~(Holds(New, g, c) /\ InFlight(c))

(***************************************************************************)
(* Request and reply strictly alternate on the UNIX socket, so the 8 bytes *)
(* GetReply takes answer the message sent last: outside of GetReply there  *)
(* is neither an unread message nor an unread reply (unix_client.cc:70-86, *)
(* unix_conn.cc:77-130).                                                   *)
(***************************************************************************)
ReplyMatches ==
    LET outstanding == Len(unix.msgs) + unix.replies
    IN  IF srv[Old].pc \in {"reply_listen", "reply_session"}
        THEN outstanding = (IF NewEndOpen THEN 1 ELSE unix.replies) /\ outstanding <= 1
        ELSE outstanding = 0

(***************************************************************************)
(* accept() on the blocking listening socket never blocks the event loop:  *)
(* when a listen event is handled a connection is still waiting, although  *)
(* for a while both servers hold the socket (server.cc:135-138, 154-156).  *)
(***************************************************************************)
AcceptNeverBlocks ==
    \A p \in Server, fe \in FiredEvent : ForInetListen(p, fe) => backlog # <<>>


\* The connection object that has work in progress for c: OneReader leaves at most one.
ConnOf(c) ==
    LET busy == {b \in {conn[p][fd] : p \in Server, fd \in Fd} :
                   /\ b # NewConn
                   /\ \E p \in Server, fd \in Fd : Holds(p, fd, c) /\ b = conn[p][fd]}
    IN  IF busy = {} THEN NewConn ELSE CHOOSE b \in busy : TRUE

(***************************************************************************)
(* No byte is lost, duplicated or invented while a session moves: what a   *)
(* client has written of its request is in the socket or in one server's   *)
(* read_buf_; then the whole body is owed, unsent in that server, in the   *)
(* socket or read by the client; between requests there is nothing         *)
(* anywhere (inet_conn.cc:30-96, client.cc:18-56).  What New has read dies *)
(* with New.                                                               *)
(***************************************************************************)
BytesAccounted ==
    \A k \in Clients : \A i \in DOMAIN ClientFds[k] :
        LET c       == ClientFds[k][i]
            request == rx[c] + ConnOf(c).last_read_pos
            reply   == Unsent(ConnOf(c)) + tx[c]
        IN  peer[c] = "up" /\ Alive(c) /\ srv[New].pc # "exit" =>
              CASE i = cl[k].i /\ cl[k].pc = "write" -> request = cl[k].pos /\ reply = 0
                [] i = cl[k].i /\ cl[k].pc = "read" ->
                     \/ request = ReqLen /\ reply = 0 /\ cl[k].pos = 0
                     \/ request = 0 /\ reply + cl[k].pos = MsgLen
                [] OTHER -> request = 0 /\ reply = 0

(***************************************************************************)
(* No session goes deaf: its epoll entry waits for EPOLLOUT exactly while  *)
(* a reply is owed, and an edge-triggered entry that has been reported     *)
(* waits with unread bytes in the socket only while the event is still to  *)
(* be handled or the session is being handed over.  The reads of           *)
(* GetRequest stop short of EAGAIN (server.cc:74-88, 164,                  *)
(* inet_conn.cc:30-77), so the same is true of a client's close only at a  *)
(* request boundary: a close that comes with the last bytes of an          *)
(* unfinished request is never reported again.                             *)
(***************************************************************************)
NeverDeaf ==
    \A p \in Server : \A fd \in inet_conn_map[p] :
        LET c == fdt[p][fd]
        IN  c \in Conns =>
            /\ ep[p][fd].file = c
            /\ ep[p][fd].mask = (IF conn[p][fd].reply > 0 THEN "OUT" ELSE "IN")
            /\ ~ep[p][fd].armed
               /\ (rx[c] > 0 \/ (peer[c] # "up" /\ EmptyReadBuf(conn[p][fd])))
               => srv[p].session_fd = fd \/ \E fe \in fired[p] : fe.fd = fd

(***************************************************************************)
(* The upgrade drops nobody: the listening socket stays open, and so does  *)
(* every connection whose client is still there (server.cc:92-199; the     *)
(* echo loop of client.cc:42 takes every reply to come for granted).       *)
(***************************************************************************)
SessionsKept ==
    Referenced(InetListen) /\ \A c \in Conns : peer[c] = "up" => Alive(c)

(***************************************************************************)
(* When servers and clients may die at any moment, a client that is still  *)
(* there, or the listening socket, is lost only if a server process has    *)
(* ended: no interleaving of the handover alone loses one.                 *)
(***************************************************************************)
LossOnlyByCrash == SessionsKept \/ \E p \in Server : srv[p].pc = "exit"

(***************************************************************************)
(* What a server that is left alone may still lose.  Except in the step in *)
(* which a process ends, the connection of a client that is there is       *)
(* closed only at rest, nothing read of a request and no reply owed: by    *)
(* Old, which goes on handing over when New has ended (server.cc:64-72),   *)
(* or by New under the number of the UNIX connection that Old's end has    *)
(* closed (server.cc:175-182).  A request that was begun is answered.  The *)
(* listening socket is lost only when New ends while Old waits for the     *)
(* reply to it, which GetReply takes for one (unix_client.cc:37).          *)
(***************************************************************************)
DroppedAtRest ==
    [][\/ \E p \in Server : srv[p].pc # "exit" /\ srv'[p].pc = "exit"
       \/ /\ \A c \in Conns : peer[c] = "up" /\ Referenced(c) /\ ~Referenced(c)' =>
                \E p \in Server, fd \in Fd :
                    /\ Holds(p, fd, c) /\ conn[p][fd] = NewConn
                    /\ \/ p = Old /\ srv[Old].unix_client # NoFd /\ srv[New].pc = "exit"
                       \/ p = New /\ fd = srv[New].unix_conn_fd /\ srv[Old].pc = "exit"
          /\ Referenced(InetListen) /\ ~Referenced(InetListen)' =>
                srv[Old].pc = "reply_listen" /\ srv[New].pc = "exit"]_vars

(***************************************************************************)
(* Once Old has a UnixClient it only finishes requests it has begun: no    *)
(* step of Old reads into an empty read buffer any more (server.cc:64).    *)
(***************************************************************************)
OldOnlyFinishes ==
    [][\A fd \in Fd :
          srv[Old].unix_client # NoFd /\ EmptyReadBuf(conn[Old][fd])
          => EmptyReadBuf(conn'[Old][fd]) /\ conn'[Old][fd].reply <= conn[Old][fd].reply]_vars

(***************************************************************************)
(* Handing over is live: once Old has a UnixClient, a session that rests   *)
(* at a request boundary and whose client sends ends up outside of Old     *)
(* (server.cc:64-72).                                                      *)
(***************************************************************************)
Drains ==
    \A c \in Conns :
        (/\ srv[Old].unix_client # NoFd /\ rx[c] > 0
         /\ \E fd \in Fd : Holds(Old, fd, c) /\ conn[Old][fd] = NewConn)
        ~> ~\E fd \in Fd : Holds(Old, fd, c)

(***************************************************************************)
(* Old never hangs in GetReply: New answers, or its end of the UNIX        *)
(* connection goes away and recvmsg returns (unix_client.cc:22-39).        *)
(***************************************************************************)
OldReturns ==
    srv[Old].pc \in {"reply_listen", "reply_session"} ~> srv[Old].pc = "loop"

\* What a client sees of connection c.
Phase(c) ==
    IF \E k \in Clients : cl[k].pc = "read" /\ CurConn(k) = c /\ tx[c] + cl[k].pos < MsgLen
    THEN "asked"
    ELSE IF \E k \in Clients : cl[k].pc = "read" /\ CurConn(k) = c
    THEN "answered"
    ELSE "idle"

Service == INSTANCE EchoService WITH phase <- [c \in Conns |-> Phase(c)]

(***************************************************************************)
(* The two servers together implement the echo service, liveness included: *)
(* a client cannot tell that an upgrade takes place (markdown/             *)
(* pmedis-architecture.md:33 promises this of the technique).              *)
(***************************************************************************)
Invisible == Service!Spec
=============================================================================

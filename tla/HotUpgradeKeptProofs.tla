------------------------ MODULE HotUpgradeKeptProofs ------------------------
(***************************************************************************)
(* What a session keeps.  While both processes run every step keeps the    *)
(* facts gathered in HotUpgradeInv!Kept, and, whoever runs, those of EInv; *)
(* one lemma per action.                                                   *)
(***************************************************************************)
EXTENDS HotUpgradeInvProofs

\* An EPOLLHUP that is still to be handled stays true: the descriptor is still the
\* same session and a reset is final.
LEMMA HupKept ==
  ASSUME TypeOK, HupOK, \A c \in Conns : peer[c] = "rst" => peer'[c] = "rst",
         \A q \in Server : \A ge \in fired'[q] :
            ge \in fired[q] /\ fdt'[q][ge.fd] = fdt[q][ge.fd]
  PROVE  HupOK'
<1>1. \A q \in Server : \A ge \in fired[q] :
         ge.mask = "HUP" => fdt[q][ge.fd] \in Conns /\ peer[fdt[q][ge.fd]] = "rst"
  BY Zenon DEF HupOK
<1>2. \A q \in Server : \A ge \in fired'[q] :
         ge.mask = "HUP" => fdt'[q][ge.fd] \in Conns /\ peer'[fdt'[q][ge.fd]] = "rst"
  BY <1>1, Zenon
<1> QED BY <1>2, Zenon DEF HupOK

\* Steps that change no descriptor, no main-loop state and nothing on the UNIX socket
\* lose nothing: a client that connects is in the queue of the listening socket.
LEMMA SameTablesKept ==
  ASSUME IInv, IInv', Kept, HupOK', UNCHANGED <<srv, fdt, unix, inet_conn_map>>,
         \A c \in Conns : /\ peer'[c] = "up" => peer[c] = "up" \/ Queued(c)'
                          /\ Queued(c) => Queued(c)'
  PROVE  Kept'
<1>1. ListenKept' /\ ChannelKept' /\ MapOK'
  BY Zenon DEF Kept, ListenKept, ChannelKept, MapOK, OldEndOpen, NewEndOpen
<1>2. ClientsKept'
  <2> SUFFICES ASSUME NEW c \in Conns, peer'[c] = "up"
               PROVE  Open(c)' \/ Queued(c)'
    BY Zenon DEF ClientsKept
  <2>1. CASE peer[c] = "up" /\ Open(c)
    BY <2>1, Zenon DEF Open
  <2>2. CASE peer[c] = "up" /\ Queued(c)
    BY <2>2, Zenon
  <2> QED BY <2>1, <2>2, Zenon DEF Kept, ClientsKept
<1>3. SessionTaken'
  <2> SUFFICES ASSUME srv[Old].pc = "reply_session", unix.msgs = <<>>,
                      NEW c, c = fdt[Old][srv[Old].session_fd], peer'[c] = "up"
               PROVE  \E fd \in Fd : fdt[New][fd] = c
    BY Zenon DEF SessionTaken
  <2>1. c \in Conns /\ srv[Old].session_fd \in Fd
    BY Names, Zenon DEF IInv, SessionOK, TypeOK
  <2>2. Referenced(c)'
    BY <2>1, Names, Zenon DEF Referenced
  <2>3. ~Queued(c)'
    BY <2>1, <2>2, Zenon DEF IInv, BacklogOK, Queued
  <2> QED BY <2>1, <2>3, Zenon DEF Kept, SessionTaken
<1> QED BY <1>1, <1>2, <1>3, Zenon DEF Kept

\* Closing a session whose client is gone loses nothing.
LEMMA CloseKept ==
  ASSUME IInv, Kept, HupOK', NEW p \in Server, NEW fd \in Fd, CloseConn(p, fd),
         srv[p].pc = "loop", fdt[p][fd] \in Conns, peer[fdt[p][fd]] # "up",
         UNCHANGED <<srv, unix, backlog, peer>>
  PROVE  Kept'
<1>1. /\ fdt' = [fdt EXCEPT ![p][fd] = NoFile]
      /\ inet_conn_map' = [inet_conn_map EXCEPT ![p] = @ \ {fd}]
      /\ TypeOK /\ SessionOK
  BY Zenon DEF CloseConn, IInv
<1>2. \A q \in Server, g \in Fd : fdt'[q][g] = IF q = p /\ g = fd THEN NoFile ELSE fdt[q][g]
  BY <1>1, Zenon DEF TypeOK
<1>3. \A q \in Server, g \in Fd :
         g \in inet_conn_map'[q] <=> g \in inet_conn_map[q] /\ ~(q = p /\ g = fd)
  BY <1>1, Zenon DEF TypeOK
<1>4. \A q \in Server, g \in Fd : fdt[q][g] # fdt[p][fd] => fdt'[q][g] = fdt[q][g]
  BY <1>2, Zenon
<1>5. ListenKept'
  BY <1>4, Names, SMT, Zenon, SMTT(30) DEF Kept, ListenKept
<1>6. ChannelKept'
  <2>1. srv[New].unix_conn_fd \in Fd \cup {NoFd}
    BY <1>1, SrvTypes, Names, ZenonT(60)
  <2> QED BY <1>4, <2>1, Names, SMT, Zenon, SMTT(30)
              DEF Kept, ChannelKept, OldEndOpen, NewEndOpen
<1>7. MapOK'
  BY <1>2, <1>3, Names, SMT, Zenon, SMTT(30) DEF Kept, MapOK
<1>8. ClientsKept'
  BY <1>4, SMT, Zenon, SMTT(30) DEF Kept, ClientsKept, Open, Queued
<1>9. SessionTaken'
  <2> SUFFICES ASSUME srv[Old].pc = "reply_session", unix.msgs = <<>>,
                      NEW c, c = fdt'[Old][srv[Old].session_fd], peer[c] = "up"
               PROVE  \E g \in Fd : fdt'[New][g] = c
    BY Zenon DEF SessionTaken
  <2>1. srv[Old].session_fd \in Fd
    BY <1>1, Names, Zenon DEF SessionOK, TypeOK
  <2>2. p # Old
    BY Zenon
  <2>3. c = fdt[Old][srv[Old].session_fd]
    BY <1>2, <2>1, <2>2, Names, Zenon
  <2>4. PICK g \in Fd : fdt[New][g] = c
    BY <2>3, Zenon DEF Kept, SessionTaken
  <2> QED BY <1>4, <2>4, Names, Zenon
<1> QED BY <1>5, <1>6, <1>7, <1>8, <1>9, Zenon DEF Kept

\* What is left of the fired events after one was handled is kept.
LEMMA HandledHup ==
  ASSUME IInv, HupOK, NEW p \in Server, NEW fe \in fired[p], Handled(p, fe),
         \A c \in Conns : peer[c] = "rst" => peer'[c] = "rst",
         \A q \in Server, g \in Fd : fdt'[q][g] = fdt[q][g] \/ (q = p /\ g = fe.fd)
  PROVE  HupOK'
<1>1. \A q \in Server : \A ge \in fired'[q] :
            ge \in fired[q] /\ ge.fd \in Fd /\ (q = p => ge.fd # fe.fd)
  BY HandledFacts, ZenonT(60)
<1>2. \A q \in Server : \A ge \in fired'[q] : ge \in fired[q] /\ fdt'[q][ge.fd] = fdt[q][ge.fd]
  BY <1>1, ZenonT(60)
<1> QED BY <1>2, HupKept, Zenon DEF IInv

\* Closing on error or end of file: server.cc:184-193 with a client that is gone.
LEMMA NetCloseKept ==
  ASSUME IInv, Kept, NEW p \in Server, NEW fe \in fired[p], ForNet(p, fe), Handled(p, fe),
         CloseConn(p, fe.fd), peer[fdt[p][fe.fd]] # "up",
         UNCHANGED <<srv, unix, backlog, peer>>
  PROVE  Kept'
<1>1. fe.fd \in Fd /\ fdt[p][fe.fd] \in Conns /\ srv[p].pc = "loop"
  BY NetFile, Zenon
<1>2. \A q \in Server, g \in Fd : fdt'[q][g] = fdt[q][g] \/ (q = p /\ g = fe.fd)
  BY <1>1, Zenon DEF CloseConn, IInv, TypeOK
<1>3. HupOK'
  BY <1>2, HandledHup, Zenon DEF Kept
<1> QED BY <1>1, <1>3, CloseKept, Zenon

\* A step for an open session that leaves the descriptors alone loses nothing.
LEMMA NetSameKept ==
  ASSUME IInv, IInv', Kept, NEW p \in Server, NEW fe \in fired[p], Handled(p, fe),
         \A c \in Conns : /\ peer[c] = "rst" => peer'[c] = "rst"
                          /\ peer'[c] = "up" => peer[c] = "up",
         UNCHANGED <<srv, fdt, unix, inet_conn_map, backlog>>
  PROVE  Kept'
<1>1. HupOK'
  BY HandledHup, Zenon DEF Kept
<1>2. \A c : Queued(c)' = Queued(c)
  BY Zenon DEF Queued
<1> QED BY <1>1, <1>2, SameTablesKept, Zenon

\* A read closes a session only if its client has closed or reset it.
LEMMA HandleReadKept ==
  ASSUME IInv, IInv', Kept, NEW p \in Server, NEW fe \in fired[p], HandleRead(p, fe)
  PROVE  Kept'
<1>1. /\ ForNet(p, fe) /\ Handled(p, fe)
      /\ UNCHANGED <<srv, unix, backlog, tx, peer, cl, trigger>>
  BY Zenon DEF HandleRead
<1>2. CASE UNCHANGED <<inet_conn_map, fdt>>
  BY <1>1, <1>2, NetSameKept, Zenon
<1>3. CASE ~UNCHANGED <<inet_conn_map, fdt>>
  <2>1. PICK b, n, c : b = conn[p][fe.fd] /\ c = fdt[p][fe.fd] /\ n = rx[c]
    BY Zenon
  <2>2. /\ CloseConn(p, fe.fd)
        /\ GetRequest(b, n, peer[c], MsgLen).rs \in {"kReadClose", "kReadError", "kFullError"}
    BY <1>3, <2>1, Zenon DEF HandleRead
  <2>3. fe.fd \in Fd /\ c \in Conns
    BY <1>1, <2>1, NetFile, Zenon
  <2>4. b \in Conn /\ n \in Nat /\ b.last_read_pos < ReqLen
    BY <2>1, <2>3, SMT, Zenon, SMTT(30) DEF IInv, TypeOK, BufferOK
  <2>5. peer[c] # "up"
    BY <2>2, <2>4, ReadKeepsUp, Zenon
  <2> QED BY <1>1, <2>1, <2>2, <2>5, NetCloseKept, Zenon
<1> QED BY <1>2, <1>3, Zenon

\* A write closes a session only if its client has reset it.
LEMMA HandleWriteKept ==
  ASSUME IInv, IInv', Kept, NEW p \in Server, NEW fe \in fired[p], HandleWrite(p, fe)
  PROVE  Kept'
<1>1. ForNet(p, fe) /\ Handled(p, fe) /\ UNCHANGED <<srv, unix, backlog, rx, cl, trigger>>
  BY Zenon DEF HandleWrite
<1>2. CASE /\ peer[fdt[p][fe.fd]] = "rst" /\ CloseConn(p, fe.fd) /\ UNCHANGED <<tx, peer>>
  BY <1>1, <1>2, NetCloseKept, Zenon
<1>3. CASE /\ peer' = [peer EXCEPT ![fdt[p][fe.fd]] = IF @ = "fin" THEN "rst" ELSE @]
           /\ UNCHANGED <<inet_conn_map, fdt>>
  <2>1. \A c \in Conns : /\ peer[c] = "rst" => peer'[c] = "rst"
                         /\ peer'[c] = "up" => peer[c] = "up"
    BY <1>3, Zenon DEF IInv, TypeOK
  <2> QED BY <1>1, <1>3, <2>1, NetSameKept, Zenon
<1> QED BY <1>2, <1>3, Zenon DEF HandleWrite

\* EPOLLHUP is for a client that is gone, and every session is in inet_conn_map.
LEMMA HandleNetErrorKept ==
  ASSUME IInv, Kept, NEW p \in Server, NEW fe \in fired[p], HandleNetError(p, fe)
  PROVE  Kept'
<1>1. /\ ForNet(p, fe) /\ Handled(p, fe) /\ CloseConn(p, fe.fd)
      /\ UNCHANGED <<srv, unix, backlog, peer>>
  BY Zenon DEF HandleNetError
<1>2. fe.fd \in inet_conn_map[p]
  BY <1>1, NetFile, Zenon DEF Kept, MapOK
<1>3. peer[fdt[p][fe.fd]] = "rst"
  BY <1>2, Zenon DEF HandleNetError, Kept, HupOK
<1> QED BY <1>1, <1>3, NetCloseKept, Zenon

\* A step of a client changes no server: a client that ends was there before, one that
\* connects is put into the queue.
LEMMA ClientKept ==
  ASSUME IInv, IInv', Kept, NEW k \in Clients, ClientNext(k) \/ KillClient(k)
  PROVE  Kept'
<1>1. UNCHANGED procs /\ UNCHANGED <<fdt, unix>>
  BY Zenon DEF ClientNext, ClientConnect, ClientWrite, ClientRead, ClientFails,
               ClientSpins, KillClient, ClientEnds, procs, vars
<1>2. UNCHANGED <<srv, inet_conn_map, fired, fdt, unix>> /\ TypeOK /\ BacklogOK /\ HupOK
  BY <1>1, Zenon DEF procs, IInv, Kept
<1>3. CASE ClientConnect(k)
  <2>1. PICK c : c = CurConn(k)
    BY Zenon
  <2>2. /\ backlog' = Append(backlog, c) /\ peer' = [peer EXCEPT ![c] = "up"]
        /\ cl[k].pc = "connect"
    BY <1>3, <2>1, Zenon DEF ClientConnect, InetClientConn
  <2>3. c \in Conns /\ peer[c] = "none"
    BY <1>2, <2>1, <2>2, HotUpgradeAssumption, SMT, Zenon, SMTT(30)
       DEF BacklogOK, CurConn, TypeOK, ClientState
  <2>4. Queued(c)' /\ \A d \in Conns : Queued(d) => Queued(d)'
    <3>1. /\ \A n \in DOMAIN backlog : n \in DOMAIN backlog' /\ backlog'[n] = backlog[n]
          /\ Len(backlog) + 1 \in DOMAIN backlog' /\ backlog'[Len(backlog) + 1] = c
      <4>1. backlog \in Seq(Conns)
        BY <1>2, Zenon DEF TypeOK
      <4> QED BY <4>1, <2>2, <2>3, SMT, Zenon, SMTT(30)
    <3> QED BY <3>1, Zenon DEF Queued
  <2>5. \A d \in Conns : peer'[d] = IF d = c THEN "up" ELSE peer[d]
    BY <1>2, <2>2, <2>3, Zenon DEF TypeOK
  <2>6. HupOK'
    BY <1>2, <2>3, <2>5, HupKept, Zenon
  <2> QED BY <1>2, <2>4, <2>5, <2>6, SameTablesKept, Zenon
<1>4. CASE ClientEnds(k)
  <2>1. \A c \in Conns : /\ peer[c] = "rst" => peer'[c] = "rst"
                         /\ peer'[c] = "up" => peer[c] = "up"
    BY <1>2, <1>4, Zenon DEF ClientEnds, TypeOK
  <2>2. \A c : Queued(c)' = Queued(c)
    BY <1>4, Zenon DEF ClientEnds, Queued
  <2>3. HupOK'
    BY <1>2, <2>1, HupKept, Zenon
  <2> QED BY <1>2, <2>1, <2>2, <2>3, SameTablesKept, Zenon
<1>5. CASE UNCHANGED <<peer, backlog>>
  <2>1. HupOK'
    BY <1>2, <1>5, HupKept, Zenon
  <2>2. \A c : Queued(c)' = Queued(c)
    BY <1>5, Zenon DEF Queued
  <2> QED BY <1>2, <1>5, <2>1, <2>2, SameTablesKept, Zenon
<1> QED BY <1>3, <1>4, <1>5, Zenon DEF ClientNext, ClientWrite, ClientRead, ClientFails,
                                      ClientSpins, KillClient, vars

\* epoll_wait reports EPOLLHUP for a session only after a reset, and never for the UNIX
\* connection, whose other end is open.
LEMMA PollKept ==
  ASSUME IInv, IInv', Kept, NEW p \in Server, Poll(p) PROVE Kept'
<1>1. /\ fired' = [fired EXCEPT ![p] = Ready(p)] /\ TypeOK /\ NamesOK /\ UnixOK /\ RolesOK
      /\ UNCHANGED <<srv, inet_conn_map, fdt, unix, backlog, peer>>
  BY Zenon DEF Poll, IInv
<1>2. ASSUME NEW fe \in Ready(p), fe.mask = "HUP"
      PROVE  fdt[p][fe.fd] \in Conns /\ peer[fdt[p][fe.fd]] = "rst"
  <2>1. PICK f, m : f = ep[p][fe.fd].file /\ m = ep[p][fe.fd].mask
    BY Zenon
  <2>2. fe.fd \in Fd /\ "HUP" \in Pending(f, m)
    BY <1>2, <2>1, Zenon DEF Ready, FiredEvent
  <2>3. f \in File
    BY <1>1, <2>1, <2>2, WatchTypes, Zenon
  <2>4. (f = UnixConn /\ ~OldEndOpen) \/ (f \in Conns /\ peer[f] = "rst")
    BY <2>2, <2>3, Names, Zenon DEF Pending, File
  <2>5. f = fdt[p][fe.fd]
    BY <1>1, <2>1, <2>2, <2>4, Names, Zenon DEF NamesOK
  <2>6. f # UnixConn
    <3> SUFFICES ASSUME f = UnixConn PROVE FALSE
      BY Zenon
    <3>1. srv[p].unix_conn_fd \in Fd
      BY <1>1, <2>2, <2>5, SMT, Zenon, SMTT(30) DEF NamesOK
    <3>2. p = New
      BY <3>1, <1>1, Names, Zenon DEF RolesOK
    <3>3. srv[Old].unix_socket_init
      BY <3>1, <3>2, <1>1, Names, Zenon DEF UnixOK
    <3> QED BY <3>3, <2>4, Names, Zenon DEF Kept, ChannelKept
  <2> QED BY <2>4, <2>5, <2>6, Zenon
<1>3. \A q \in Server : \A fe \in fired'[q] : fe \in fired[q] \/ (q = p /\ fe \in Ready(p))
  BY <1>1, Zenon DEF TypeOK
<1>4. HupOK'
  BY <1>1, <1>2, <1>3, ZenonT(60) DEF Kept, HupOK
<1>5. \A c : Queued(c)' = Queued(c)
  BY <1>1, Zenon DEF Queued
<1> QED BY <1>1, <1>4, <1>5, SameTablesKept, Zenon

\* A new descriptor takes nothing away: the sessions, what EPOLLHUP reports and
\* inet_conn_map are as before, or the new session is in the map.
LEMMA OpenedKept ==
  ASSUME IInv, Kept, NEW p \in Server, NEW fd \in Fd, NEW f, fdt[p][fd] = NoFile,
         fdt' = [fdt EXCEPT ![p][fd] = f], UNCHANGED peer,
         \A q \in Server : fired'[q] \subseteq fired[q]
                           /\ inet_conn_map[q] \subseteq inet_conn_map'[q],
         f \in Conns => fd \in inet_conn_map'[p],
         \A c \in Conns : Queued(c) => c = f \/ Queued(c)'
  PROVE  /\ HupOK' /\ MapOK' /\ ClientsKept' /\ fdt'[p][fd] = f
         /\ \A q \in Server, g \in Fd : fdt[q][g] # NoFile => fdt'[q][g] = fdt[q][g]
<1>1. TypeOK /\ \A q \in Server : \A ge \in fired[q] : ge.fd \in Fd
  BY FiredFd, Zenon DEF IInv
<1>2. /\ fdt'[p][fd] = f
      /\ \A q \in Server, g \in Fd : fdt'[q][g] = IF q = p /\ g = fd THEN f ELSE fdt[q][g]
  BY <1>1, Zenon DEF TypeOK
<1>3. \A q \in Server, g \in Fd : fdt[q][g] # NoFile => fdt'[q][g] = fdt[q][g]
  BY <1>2, SMT, Zenon, SMTT(30)
<1>4. HupOK'
  <2> SUFFICES ASSUME NEW q \in Server, NEW ge \in fired'[q], ge.mask = "HUP"
               PROVE  fdt'[q][ge.fd] \in Conns /\ peer'[fdt'[q][ge.fd]] = "rst"
    BY Zenon DEF HupOK
  <2>1. ge.fd \in Fd /\ fdt[q][ge.fd] \in Conns /\ peer[fdt[q][ge.fd]] = "rst"
    BY <1>1, Zenon DEF Kept, HupOK
  <2>2. fdt'[q][ge.fd] = fdt[q][ge.fd]
    BY <1>3, <2>1, Names, Zenon
  <2> QED BY <2>1, <2>2, Zenon
<1>5. MapOK'
  BY <1>2, SMT, Zenon, SMTT(30) DEF Kept, MapOK
<1>6. ClientsKept'
  <2> SUFFICES ASSUME NEW c \in Conns, peer[c] = "up"
               PROVE  Open(c)' \/ Queued(c)'
    BY Zenon DEF ClientsKept
  <2>1. CASE Open(c)
    BY <1>3, <2>1, Names, SMT, Zenon, SMTT(30) DEF Open
  <2>2. CASE Queued(c)
    <3>1. c = f \/ Queued(c)'
      BY <2>2, Zenon
    <3> QED BY <3>1, <1>2, SMT, Zenon, SMTT(30) DEF Open
  <2> QED BY <2>1, <2>2, Zenon DEF Kept, ClientsKept
<1> QED BY <1>2, <1>3, <1>4, <1>5, <1>6, Zenon

\* New starts with a listening UNIX socket and nothing else.
LEMMA StartNewKept == ASSUME IInv, Kept, StartNew PROVE Kept'
<1>1. TypeOK /\ SessionOK /\ Old \in Server /\ New \in Server /\ Old # New
  BY Names, Zenon DEF IInv
<1>2. PICK fd \in Fd :
         /\ fdt[New][fd] = NoFile /\ fdt' = [fdt EXCEPT ![New][fd] = UnixListen]
         /\ srv' = [srv EXCEPT ![New].pc = "loop", ![New].unix_listen_fd = fd]
  BY Zenon DEF StartNew, UnixServerListen, LowestFree
<1>3. /\ UNCHANGED <<inet_conn_map, fired, unix, backlog, peer>>
      /\ UnixListen \notin Conns /\ \A c : Queued(c)' = Queued(c)
  BY Names, Zenon DEF StartNew, Queued
<1>4. /\ HupOK' /\ MapOK' /\ ClientsKept' /\ fdt'[New][fd] = UnixListen
      /\ \A q \in Server, g \in Fd : fdt[q][g] # NoFile => fdt'[q][g] = fdt[q][g]
  BY <1>1, <1>2, <1>3, OpenedKept, Zenon
<1> DEFINE r == [srv[New] EXCEPT !.pc = "loop", !.unix_listen_fd = fd]
<1>a. r \in SrvState /\ r.inet_listen_fd = srv[New].inet_listen_fd
      /\ r.unix_conn_fd = srv[New].unix_conn_fd /\ r.unix_conn = srv[New].unix_conn
  BY <1>1, <1>2, SrvTypes, ZenonT(60) DEF SrvState
<1>b. srv' = [srv EXCEPT ![New] = r]
  BY <1>1, <1>2, Zenon DEF TypeOK
<1> HIDE DEF r
<1>5. /\ srv'[Old] = srv[Old] /\ srv'[New].inet_listen_fd = srv[New].inet_listen_fd
      /\ srv'[New].unix_conn_fd = srv[New].unix_conn_fd
      /\ srv'[New].unix_conn = srv[New].unix_conn
  BY <1>1, <1>a, <1>b, SrvUpdate, Zenon
<1>6. ListenKept'
  <2>1. \A q \in Server : srv'[q].inet_listen_fd = srv[q].inet_listen_fd
    BY <1>5, Names, Zenon
  <2> QED BY <1>3, <1>4, <1>5, <2>1, Zenon DEF Kept, ListenKept
<1>7. ChannelKept'
  <2>1. srv[New].unix_conn_fd \in Fd \cup {NoFd}
    BY <1>1, SrvTypes, Zenon
  <2> QED BY <1>1, <1>3, <1>4, <1>5, <2>1, Names, SMT, Zenon, SMTT(30)
              DEF Kept, ChannelKept, OldEndOpen, NewEndOpen
<1>8. SessionTaken'
  <2>1. srv[Old].pc = "reply_session" =>
           srv[Old].session_fd \in Fd /\ fdt[Old][srv[Old].session_fd] \in Conns
    BY <1>1, Zenon DEF SessionOK, TypeOK
  <2> QED BY <1>1, <1>3, <1>4, <1>5, <2>1, Names, SMT, Zenon, SMTT(30)
             DEF Kept, SessionTaken
<1> QED BY <1>4, <1>6, <1>7, <1>8, Zenon DEF Kept

\* connect() puts Old's end into the table and New's into the queue of New.
LEMMA MeetNewKept == ASSUME IInv, Kept, NEW p \in Server, MeetNew(p) PROVE Kept'
<1>1. TypeOK /\ p = Old /\ Old \in Server /\ New \in Server /\ Old # New
  BY Names, Zenon DEF IInv, MeetNew, SeesTrigger
<1>2. PICK fd \in Fd :
         /\ fdt[Old][fd] = NoFile /\ fdt' = [fdt EXCEPT ![Old][fd] = UnixClient]
         /\ unix' = [unix EXCEPT !.queued = TRUE]
         /\ srv' = [srv EXCEPT ![Old].pc = "send_listen", ![Old].unix_client = fd,
                               ![Old].unix_socket_init = TRUE]
  BY <1>1, Zenon DEF MeetNew, UnixClientConn, LowestFree
<1>3. /\ UNCHANGED <<inet_conn_map, fired, backlog, peer>>
      /\ UnixClient \notin Conns /\ \A c : Queued(c)' = Queued(c)
  BY Names, Zenon DEF MeetNew, Queued
<1>4. /\ HupOK' /\ MapOK' /\ ClientsKept' /\ fdt'[Old][fd] = UnixClient
      /\ \A q \in Server, g \in Fd : fdt[q][g] # NoFile => fdt'[q][g] = fdt[q][g]
  BY <1>1, <1>2, <1>3, OpenedKept, Zenon
<1> DEFINE r == [srv[Old] EXCEPT !.pc = "send_listen", !.unix_client = fd,
                                 !.unix_socket_init = TRUE]
<1>a. r \in SrvState /\ r.inet_listen_fd = srv[Old].inet_listen_fd /\ r.pc = "send_listen"
  BY <1>1, <1>2, SrvTypes, ZenonT(60) DEF SrvState
<1>b. srv' = [srv EXCEPT ![Old] = r]
  BY <1>1, <1>2, Zenon DEF TypeOK
<1> HIDE DEF r
<1>5. /\ srv'[New] = srv[New] /\ srv'[Old].inet_listen_fd = srv[Old].inet_listen_fd
      /\ srv'[Old].pc = "send_listen" /\ unix'.queued
  BY <1>1, <1>2, <1>a, <1>b, SrvUpdate, UnixTypes, Zenon
<1>6. ListenKept'
  BY <1>1, <1>4, <1>5, Names, SMT, Zenon, SMTT(30) DEF Kept, ListenKept
<1>7. ChannelKept'
  <2>1. srv[New].unix_conn_fd \in Fd \cup {NoFd}
    BY <1>1, SrvTypes, Zenon
  <2> QED BY <1>1, <1>4, <1>5, <2>1, Names, SMT, Zenon, SMTT(30)
              DEF Kept, ChannelKept, OldEndOpen, NewEndOpen
<1>8. SessionTaken'
  BY <1>5, Zenon DEF SessionTaken
<1> QED BY <1>4, <1>6, <1>7, <1>8, Zenon DEF Kept

\* A message that was just sent is on the UNIX socket, so nothing is said to be taken.
LEMMA SentKept ==
  ASSUME IInv, IInv', Kept, HupOK', UNCHANGED <<fdt, inet_conn_map, peer, backlog>>,
         NEW m, unix' = [unix EXCEPT !.msgs = Append(@, m)], unix'.msgs # <<>>,
         srv'[New] = srv[New], srv'[Old].inet_listen_fd = srv[Old].inet_listen_fd,
         srv'[Old].unix_socket_init = srv[Old].unix_socket_init
  PROVE  Kept'
<1>1. unix'.queued = unix.queued
  BY UnixTypes, Zenon DEF IInv
<1>2. ListenKept' /\ SessionTaken'
  BY Names, Zenon DEF Kept, ListenKept, SessionTaken
<1>3. ChannelKept' /\ MapOK' /\ ClientsKept'
  BY <1>1, Zenon DEF Kept, ChannelKept, MapOK, ClientsKept, OldEndOpen, NewEndOpen, Open, Queued
<1> QED BY <1>2, <1>3, Zenon DEF Kept

\* Sending the listening socket: the message carries it until New answers.
LEMMA TransferListenFdKept ==
  ASSUME IInv, IInv', Kept, NEW p \in Server, TransferListenFd(p) PROVE Kept'
<1>1. /\ TypeOK /\ UnixOK /\ p = Old /\ Old \in Server /\ New \in Server /\ Old # New
      /\ srv[Old].pc = "send_listen"
  BY Names, Zenon DEF IInv, TransferListenFd, RolesOK
<1>2. NewEndOpen
  BY <1>1, Names, Zenon DEF Kept, ChannelKept, UnixOK
<1>3. PICK m : unix' = [unix EXCEPT !.msgs = Append(@, m)]
  BY <1>2, Zenon DEF TransferListenFd
<1>4. unix'.msgs # <<>>
  BY <1>1, <1>3, UnixTypes, SMT, Zenon, SMTT(30)
<1>5. UNCHANGED <<fdt, inet_conn_map, peer, backlog, fired>>
      /\ srv' = [srv EXCEPT ![Old].pc = "reply_listen"]
  BY <1>1, <1>2, Zenon DEF TransferListenFd
<1>6. /\ srv'[New] = srv[New] /\ srv'[Old].inet_listen_fd = srv[Old].inet_listen_fd
      /\ srv'[Old].unix_socket_init = srv[Old].unix_socket_init
  BY <1>1, <1>5, ZenonT(60) DEF TypeOK, SrvState
<1>7. HupOK'
  BY <1>5, Zenon DEF Kept, HupOK
<1> QED BY <1>3, <1>4, <1>5, <1>6, <1>7, SentKept, Zenon

\* Sending a session: Old keeps its descriptor until New answers.
LEMMA TransferSessionFdKept ==
  ASSUME IInv, IInv', Kept, NEW p \in Server, NEW fe \in fired[p], TransferSessionFd(p, fe)
  PROVE  Kept'
<1>1. TypeOK /\ p = Old /\ Old \in Server /\ New \in Server /\ Old # New
  BY Names, Zenon DEF IInv, TransferSessionFd, Transferable, RolesOK
<1>2. PICK m : unix' = [unix EXCEPT !.msgs = Append(@, m)]
  BY Zenon DEF TransferSessionFd
<1>3. unix'.msgs # <<>>
  BY <1>1, <1>2, UnixTypes, SMT, Zenon, SMTT(30)
<1>4. /\ UNCHANGED <<fdt, inet_conn_map, peer, backlog>> /\ Handled(p, fe)
      /\ srv' = [srv EXCEPT ![Old].pc = "reply_session", ![Old].session_fd = fe.fd]
  BY <1>1, Zenon DEF TransferSessionFd
<1> DEFINE r == [srv[Old] EXCEPT !.pc = "reply_session", !.session_fd = fe.fd]
<1>a. /\ r \in SrvState /\ r.inet_listen_fd = srv[Old].inet_listen_fd
      /\ r.unix_socket_init = srv[Old].unix_socket_init
  <2>1. fe.fd \in Fd
    BY <1>1, FiredFd, Zenon
  <2> QED BY <1>1, <2>1, SrvTypes, ZenonT(60) DEF SrvState
<1>b. srv' = [srv EXCEPT ![Old] = r]
  BY <1>1, <1>4, Zenon DEF TypeOK
<1> HIDE DEF r
<1>5. /\ srv'[New] = srv[New] /\ srv'[Old].inet_listen_fd = srv[Old].inet_listen_fd
      /\ srv'[Old].unix_socket_init = srv[Old].unix_socket_init
  BY <1>1, <1>a, <1>b, SrvUpdate, Zenon
<1>6. HupOK'
  BY <1>4, HandledHup, Zenon DEF Kept
<1> QED BY <1>2, <1>3, <1>4, <1>5, <1>6, SentKept, Zenon

\* Old lets go of the listening socket only when New has it.
LEMMA FinishListenFdKept ==
  ASSUME IInv, Kept, NEW p \in Server, FinishListenFd(p) PROVE Kept'
<1>1. /\ TypeOK /\ UnixOK /\ ListenOK /\ ReplyMatches
      /\ p = Old /\ Old \in Server /\ New \in Server /\ Old # New
      /\ srv[Old].pc = "reply_listen" /\ GetReply
      /\ UNCHANGED <<inet_conn_map, fired, backlog, peer>>
  BY Names, Zenon DEF IInv, FinishListenFd, RolesOK
<1>2. PICK fd : fd = srv[Old].inet_listen_fd
  BY Zenon
<1>3. fd \in Fd /\ fdt[Old][fd] = InetListen /\ fired[Old] = {}
  BY <1>1, <1>2, SrvTypes, Names, Zenon DEF ListenOK
<1>4. unix'.queued = unix.queued /\ unix.msgs = <<>> /\ unix'.msgs = <<>>
  BY <1>1, GetReplyFacts, Zenon
<1>5. /\ fdt' = [fdt EXCEPT ![Old][fd] = NoFile]
      /\ srv' = [srv EXCEPT ![Old].pc = "loop", ![Old].inet_listen_fd = NoFd]
  BY <1>1, <1>2, Zenon DEF FinishListenFd, DetachInetListenFd
<1> DEFINE r == [srv[Old] EXCEPT !.pc = "loop", !.inet_listen_fd = NoFd]
<1>a. /\ r \in SrvState /\ r.pc = "loop" /\ r.unix_socket_init = srv[Old].unix_socket_init
  BY <1>1, SrvTypes, ZenonT(60) DEF SrvState
<1>b. srv' = [srv EXCEPT ![Old] = r]
  BY <1>1, <1>5, Zenon DEF TypeOK
<1> HIDE DEF r
<1>6. /\ srv'[New] = srv[New] /\ srv'[Old].pc = "loop"
      /\ srv'[Old].unix_socket_init = srv[Old].unix_socket_init
  BY <1>1, <1>a, <1>b, SrvUpdate, Zenon
<1>7. \A q \in Server, g \in Fd : fdt'[q][g] = IF q = Old /\ g = fd THEN NoFile ELSE fdt[q][g]
  BY <1>1, <1>3, <1>5, Zenon DEF TypeOK
<1>8. \A q \in Server, g \in Fd : fdt[q][g] # InetListen => fdt'[q][g] = fdt[q][g]
  BY <1>3, <1>7, Zenon
<1>9. ListenKept'
  BY <1>1, <1>4, <1>6, <1>8, Names, SMT, Zenon, SMTT(30) DEF Kept, ListenKept
<1>10. ChannelKept'
  <2>1. srv[New].unix_conn_fd \in Fd \cup {NoFd}
    BY <1>1, SrvTypes, Zenon
  <2> QED BY <1>1, <1>4, <1>6, <1>8, <2>1, Names, SMT, Zenon, SMTT(30)
              DEF Kept, ChannelKept, OldEndOpen, NewEndOpen
<1>11. SessionTaken'
  BY <1>6, Zenon DEF SessionTaken
<1>12. HupOK'
  <2>1. \A q \in Server : \A ge \in fired'[q] : ge \in fired[q] /\ fdt'[q][ge.fd] = fdt[q][ge.fd]
    BY <1>1, <1>3, <1>7, FiredFd, Names, ZenonT(60)
  <2> QED BY <1>1, <2>1, HupKept, Zenon DEF Kept
<1>13. MapOK'
  BY <1>1, <1>7, Names, SMT, Zenon, SMTT(30) DEF Kept, MapOK
<1>14. ClientsKept'
  BY <1>1, <1>8, Names, SMT, Zenon, SMTT(30) DEF Kept, ClientsKept, Open, Queued
<1> QED BY <1>9, <1>10, <1>11, <1>12, <1>13, <1>14, Zenon DEF Kept

\* Old closes a session it has sent only when New has it or its client is gone.
LEMMA CloseTransferredKept ==
  ASSUME IInv, Kept, NEW p \in Server, CloseTransferred(p) PROVE Kept'
<1>1. /\ TypeOK /\ UnixOK /\ SessionOK
      /\ p = Old /\ Old \in Server /\ New \in Server /\ Old # New
      /\ srv[Old].pc = "reply_session" /\ GetReply
      /\ UNCHANGED <<fired, backlog, peer>>
  BY Names, Zenon DEF IInv, CloseTransferred, RolesOK
<1>2. PICK fd, c : fd = srv[Old].session_fd /\ c = fdt[Old][fd]
  BY Zenon
<1>3. fd \in Fd /\ c \in Conns /\ \A fe \in fired[Old] : fe.fd # fd
  BY <1>1, <1>2, Zenon DEF SessionOK, TypeOK
<1>4. unix'.queued = unix.queued /\ unix.msgs = <<>> /\ unix'.msgs = <<>>
  BY <1>1, GetReplyFacts, Zenon
<1>5. /\ fdt' = [fdt EXCEPT ![Old][fd] = NoFile]
      /\ inet_conn_map' = [inet_conn_map EXCEPT ![Old] = @ \ {fd}]
      /\ srv' = [srv EXCEPT ![Old].pc = "loop", ![Old].session_fd = NoFd]
  BY <1>1, <1>2, Zenon DEF CloseTransferred, CloseConn
<1> DEFINE r == [srv[Old] EXCEPT !.pc = "loop", !.session_fd = NoFd]
<1>a. /\ r \in SrvState /\ r.pc = "loop" /\ r.unix_socket_init = srv[Old].unix_socket_init
      /\ r.inet_listen_fd = srv[Old].inet_listen_fd
  BY <1>1, SrvTypes, ZenonT(60) DEF SrvState
<1>b. srv' = [srv EXCEPT ![Old] = r]
  BY <1>1, <1>5, Zenon DEF TypeOK
<1> HIDE DEF r
<1>6. /\ srv'[New] = srv[New] /\ srv'[Old].pc = "loop"
      /\ srv'[Old].unix_socket_init = srv[Old].unix_socket_init
      /\ srv'[Old].inet_listen_fd = srv[Old].inet_listen_fd
  BY <1>1, <1>a, <1>b, SrvUpdate, Zenon
<1>7. \A q \in Server, g \in Fd :
         /\ fdt'[q][g] = IF q = Old /\ g = fd THEN NoFile ELSE fdt[q][g]
         /\ g \in inet_conn_map'[q] <=> g \in inet_conn_map[q] /\ ~(q = Old /\ g = fd)
  BY <1>1, <1>3, <1>5, Zenon DEF TypeOK
<1>8. /\ \A q \in Server, g \in Fd : fdt[q][g] # c => fdt'[q][g] = fdt[q][g]
      /\ \A g \in Fd : fdt'[New][g] = fdt[New][g]
  BY <1>1, <1>2, <1>7, Zenon
<1>9. ListenKept'
  <2>1. \A q \in Server : srv'[q].inet_listen_fd = srv[q].inet_listen_fd
    BY <1>6, Names, ZenonT(60)
  <2> QED BY <2>1, <1>6, <1>8, Zenon DEF Kept, ListenKept
<1>10. ChannelKept'
  <2>1. srv[New].unix_conn_fd \in Fd \cup {NoFd}
    BY <1>1, SrvTypes, Zenon
  <2> QED BY <1>1, <1>3, <1>4, <1>6, <1>8, <2>1, Names, SMT, Zenon, SMTT(30)
              DEF Kept, ChannelKept, OldEndOpen, NewEndOpen
<1>11. SessionTaken'
  BY <1>6, Zenon DEF SessionTaken
<1>12. HupOK'
  <2>1. \A q \in Server : \A ge \in fired'[q] : ge \in fired[q] /\ fdt'[q][ge.fd] = fdt[q][ge.fd]
    BY <1>1, <1>3, <1>7, FiredFd, Names, SMT, Zenon, SMTT(30)
  <2> QED BY <1>1, <2>1, HupKept, Zenon DEF Kept
<1>13. MapOK'
  BY <1>7, Names, Zenon DEF Kept, MapOK
<1>14. ClientsKept'
  <2>1. peer[c] = "up" => \E g \in Fd : fdt'[New][g] = c
    BY <1>1, <1>2, <1>4, <1>8, Zenon DEF Kept, SessionTaken
  <2> QED BY <1>1, <1>8, <2>1, SMT, Zenon, SMTT(30) DEF Kept, ClientsKept, Open, Queued
<1> QED BY <1>9, <1>10, <1>11, <1>12, <1>13, <1>14, Zenon DEF Kept

\* accept() moves a connection from the queue into a descriptor table.
LEMMA HandleInetListenKept ==
  ASSUME IInv, Kept, NEW p \in Server, NEW fe \in fired[p], HandleInetListen(p, fe)
  PROVE  Kept'
<1>1. /\ TypeOK /\ SessionOK /\ Handled(p, fe) /\ backlog # <<>> /\ backlog' = Tail(backlog)
      /\ UNCHANGED <<srv, unix, peer>>
  BY Zenon DEF IInv, HandleInetListen, InetServerAccept
<1>a. PICK c : c = Head(backlog)
  BY Zenon
<1>2. PICK fd \in Fd : OpenConn(p, fd, c)
  BY <1>a, Zenon DEF HandleInetListen
<1>3. /\ fdt[p][fd] = NoFile /\ fdt' = [fdt EXCEPT ![p][fd] = c]
      /\ inet_conn_map' = [inet_conn_map EXCEPT ![p] = @ \cup {fd}]
  BY <1>2, Zenon DEF OpenConn, LowestFree
<1>4. fd \in inet_conn_map'[p] /\ \A q \in Server : fired'[q] \subseteq fired[q]
                                     /\ inet_conn_map[q] \subseteq inet_conn_map'[q]
  BY <1>1, <1>3, HandledFacts, Zenon DEF TypeOK
<1>5. \A d \in Conns : Queued(d) => d = c \/ Queued(d)'
  <2>1. backlog \in Seq(Conns)
    BY <1>1, Zenon DEF TypeOK
  <2>2. \A n \in DOMAIN backlog :
           n = 1 \/ (n - 1 \in DOMAIN backlog' /\ backlog'[n - 1] = backlog[n])
    BY <1>1, <2>1, SMT, Zenon, SMTT(30)
  <2>3. backlog[1] = c
    BY <1>1, <1>a, <2>1, SMT, Zenon, SMTT(30)
  <2> QED BY <2>2, <2>3, Zenon DEF Queued
<1>6. /\ HupOK' /\ MapOK' /\ ClientsKept'
      /\ \A q \in Server, g \in Fd : fdt[q][g] # NoFile => fdt'[q][g] = fdt[q][g]
  <2>1. UNCHANGED peer
    BY <1>1, Zenon
  <2> QED BY <2>1, <1>3, <1>4, <1>5, OpenedKept, Zenon
<1>7. ListenKept'
  BY <1>1, <1>6, Names, Zenon DEF Kept, ListenKept
<1>8. ChannelKept'
  <2>1. srv[New].unix_conn_fd \in Fd \cup {NoFd}
    BY <1>1, SrvTypes, Names, ZenonT(60)
  <2> QED BY <1>1, <1>6, <2>1, Names, Zenon
              DEF Kept, ChannelKept, OldEndOpen, NewEndOpen
<1>9. SessionTaken'
  <2>1. srv[Old].pc = "reply_session" =>
           srv[Old].session_fd \in Fd /\ fdt[Old][srv[Old].session_fd] \in Conns
    BY <1>1, Names, Zenon DEF SessionOK, TypeOK
  <2> QED BY <1>1, <1>6, <2>1, Names, SMT, Zenon, SMTT(30) DEF Kept, SessionTaken
<1> QED BY <1>6, <1>7, <1>8, <1>9, Zenon DEF Kept

\* New accepts Old: the queued end of the connection gets a descriptor.
LEMMA HandleUnixListenKept ==
  ASSUME IInv, Kept, NEW p \in Server, NEW fe \in fired[p], HandleUnixListen(p, fe)
  PROVE  Kept'
<1>1. /\ TypeOK /\ SessionOK /\ Handled(p, fe) /\ fe.fd \in Fd /\ fe.fd = srv[p].unix_listen_fd
      /\ UNCHANGED <<inet_conn_map, backlog, peer>>
  BY FiredFd, Zenon DEF IInv, HandleUnixListen, ForUnixListen
<1>2. p = New /\ Old \in Server /\ New \in Server /\ Old # New
  BY <1>1, Names, Zenon DEF IInv, RolesOK
<1>3. PICK fd \in Fd :
         /\ fdt[New][fd] = NoFile /\ fdt' = [fdt EXCEPT ![New][fd] = UnixConn]
         /\ unix' = [unix EXCEPT !.queued = FALSE]
         /\ srv' = [srv EXCEPT ![New].unix_conn_fd = fd, ![New].unix_conn = TRUE]
  BY <1>2, Zenon DEF HandleUnixListen, UnixServerAccept, LowestFree
<1>4. /\ UnixConn \notin Conns /\ \A q \in Server : fired'[q] \subseteq fired[q]
      /\ \A c : Queued(c)' = Queued(c)
  BY <1>1, HandledFacts, Names, Zenon DEF Queued
<1>5. /\ HupOK' /\ MapOK' /\ ClientsKept' /\ fdt'[New][fd] = UnixConn
      /\ \A q \in Server, g \in Fd : fdt[q][g] # NoFile => fdt'[q][g] = fdt[q][g]
  BY <1>1, <1>2, <1>3, <1>4, OpenedKept, Zenon
<1> DEFINE r == [srv[New] EXCEPT !.unix_conn_fd = fd, !.unix_conn = TRUE]
<1>a. /\ r \in SrvState /\ r.pc = srv[New].pc /\ r.unix_conn_fd = fd /\ r.unix_conn
      /\ r.inet_listen_fd = srv[New].inet_listen_fd
  BY <1>1, <1>2, SrvTypes, ZenonT(60) DEF SrvState
<1>b. srv' = [srv EXCEPT ![New] = r]
  BY <1>1, <1>2, <1>3, Zenon DEF TypeOK
<1> HIDE DEF r
<1>6. /\ srv'[Old] = srv[Old] /\ srv'[New].pc = srv[New].pc /\ srv'[New].unix_conn_fd = fd
      /\ srv'[New].unix_conn /\ srv'[New].inet_listen_fd = srv[New].inet_listen_fd
  BY <1>1, <1>2, <1>a, <1>b, SrvUpdate, Zenon
<1>7. unix'.msgs = unix.msgs
  BY <1>1, <1>3, UnixTypes, Zenon
<1>8. ListenKept'
  <2>1. \A q \in Server : srv'[q].inet_listen_fd = srv[q].inet_listen_fd
    BY <1>6, Names, ZenonT(60)
  <2> QED BY <1>2, <1>5, <1>6, <1>7, <2>1, Names, SMT, Zenon, SMTT(30) DEF Kept, ListenKept
<1>9. ChannelKept'
  BY <1>2, <1>5, <1>6, Names, ZenonT(60)
              DEF Kept, ChannelKept, OldEndOpen, NewEndOpen
<1>10. SessionTaken'
  <2>1. srv[Old].pc = "reply_session" =>
           srv[Old].session_fd \in Fd /\ fdt[Old][srv[Old].session_fd] \in Conns
    BY <1>1, <1>2, Zenon DEF SessionOK, TypeOK
  <2> QED BY <1>1, <1>2, <1>5, <1>6, <1>7, <2>1, Names, SMT, Zenon, SMTT(30)
             DEF Kept, SessionTaken
<1> QED BY <1>5, <1>8, <1>9, <1>10, Zenon DEF Kept

\* What processRecv takes is the one message Old waits for.
LEMMA RecvFacts ==
  ASSUME IInv, NEW p \in Server, NEW fe \in fired[p], ProcessRecv(p, fe)
  PROVE  /\ p = New /\ Handled(p, fe) /\ unix'.queued = unix.queued /\ unix'.msgs = <<>>
         /\ \/ /\ srv[Old].pc = "reply_listen" /\ Head(unix.msgs).file = InetListen
               /\ Head(unix.msgs).type = "kTransferListenFd"
            \/ /\ srv[Old].pc = "reply_session"
               /\ Head(unix.msgs).file = fdt[Old][srv[Old].session_fd]
               /\ Head(unix.msgs).type = "kTransferSessionFd"
<1>1. p = New /\ Handled(p, fe) /\ unix'.queued = unix.queued /\ unix'.msgs = <<>>
  BY ProcessRecvFacts, Zenon DEF ProcessRecv
<1>2. PICK m, f : m = Head(unix.msgs) /\ f = fdt[Old][srv[Old].session_fd]
  BY Zenon
<1>3. \/ srv[Old].pc = "reply_listen" /\ m = [type |-> "kTransferListenFd", file |-> InetListen]
      \/ srv[Old].pc = "reply_session" /\ m = [type |-> "kTransferSessionFd", file |-> f]
  BY <1>2, ProcessRecvFacts, Zenon
<1>4. \/ srv[Old].pc = "reply_listen" /\ m.file = InetListen /\ m.type = "kTransferListenFd"
      \/ srv[Old].pc = "reply_session" /\ m.file = f /\ m.type = "kTransferSessionFd"
  BY <1>3, SMT, Zenon, SMTT(30)
<1> QED BY <1>1, <1>2, <1>4, Zenon

\* New takes the listening socket over.
LEMMA HandleListenFdMsgKept ==
  ASSUME IInv, Kept, NEW p \in Server, NEW fe \in fired[p], HandleListenFdMsg(p, fe)
  PROVE  Kept'
<1>1. /\ TypeOK /\ ProcessRecv(p, fe) /\ Head(unix.msgs).type = "kTransferListenFd"
      /\ UNCHANGED <<inet_conn_map, backlog, peer>>
  BY Zenon DEF IInv, HandleListenFdMsg
<1>2. /\ p = New /\ Handled(p, fe) /\ unix'.queued = unix.queued /\ unix'.msgs = <<>>
      /\ srv[Old].pc = "reply_listen" /\ Head(unix.msgs).file = InetListen
  BY <1>1, RecvFacts, Zenon
<1>3. Old \in Server /\ New \in Server /\ Old # New /\ InetListen \notin Conns
  BY Names, Zenon
<1>4. PICK fd \in Fd :
         /\ fdt[New][fd] = NoFile /\ fdt' = [fdt EXCEPT ![New][fd] = InetListen]
         /\ srv' = [srv EXCEPT ![New].inet_listen_fd = fd]
  BY <1>2, Zenon DEF HandleListenFdMsg, LowestFree, AttachInetListenFd
<1>5. (\A q \in Server : fired'[q] \subseteq fired[q]) /\ \A c : Queued(c)' = Queued(c)
  BY <1>1, <1>2, HandledFacts, Zenon DEF Queued
<1>6. /\ HupOK' /\ MapOK' /\ ClientsKept'
      /\ \A q \in Server, g \in Fd : fdt[q][g] # NoFile => fdt'[q][g] = fdt[q][g]
  BY <1>1, <1>3, <1>4, <1>5, OpenedKept, Zenon
<1> DEFINE r == [srv[New] EXCEPT !.inet_listen_fd = fd]
<1>a. /\ r \in SrvState /\ r.pc = srv[New].pc /\ r.unix_conn_fd = srv[New].unix_conn_fd
      /\ r.unix_conn = srv[New].unix_conn /\ r.inet_listen_fd = fd
  BY <1>1, <1>3, SrvTypes, ZenonT(60) DEF SrvState
<1>b. srv' = [srv EXCEPT ![New] = r]
  BY <1>1, <1>3, <1>4, Zenon DEF TypeOK
<1> HIDE DEF r
<1>7. /\ srv'[Old] = srv[Old] /\ srv'[New].pc = srv[New].pc
      /\ srv'[New].unix_conn_fd = srv[New].unix_conn_fd
      /\ srv'[New].unix_conn = srv[New].unix_conn /\ srv'[New].inet_listen_fd = fd
  BY <1>1, <1>3, <1>a, <1>b, SrvUpdate, Zenon
<1>8. ListenKept'
  BY <1>3, <1>6, <1>7, Names, ZenonT(60) DEF Kept, ListenKept
<1>9. ChannelKept'
  <2>1. srv[New].unix_conn_fd \in Fd \cup {NoFd}
    BY <1>1, <1>3, SrvTypes, Zenon
  <2> QED BY <1>2, <1>3, <1>6, <1>7, <2>1, Names, SMT, Zenon, SMTT(30)
              DEF Kept, ChannelKept, OldEndOpen, NewEndOpen
<1>10. SessionTaken'
  BY <1>2, <1>7, Zenon DEF SessionTaken
<1> QED BY <1>6, <1>8, <1>9, <1>10, Zenon DEF Kept

\* New takes a session over.
LEMMA HandleSessionFdMsgKept ==
  ASSUME IInv, Kept, NEW p \in Server, NEW fe \in fired[p], HandleSessionFdMsg(p, fe)
  PROVE  Kept'
<1>1. /\ TypeOK /\ SessionOK /\ ProcessRecv(p, fe) /\ Head(unix.msgs).type = "kTransferSessionFd"
      /\ UNCHANGED <<srv, backlog, peer>>
  BY Zenon DEF IInv, HandleSessionFdMsg
<1>2. /\ p = New /\ Handled(p, fe) /\ unix'.queued = unix.queued /\ unix'.msgs = <<>>
      /\ srv[Old].pc = "reply_session"
      /\ Head(unix.msgs).file = fdt[Old][srv[Old].session_fd]
  BY <1>1, RecvFacts, Zenon
<1>3. Old \in Server /\ New \in Server /\ Old # New
  BY Names, Zenon
<1>a. PICK c : c = fdt[Old][srv[Old].session_fd]
  BY Zenon
<1>4. PICK fd \in Fd : OpenConn(New, fd, c)
  BY <1>2, <1>a, Zenon DEF HandleSessionFdMsg
<1>5. /\ fdt[New][fd] = NoFile /\ fdt' = [fdt EXCEPT ![New][fd] = c]
      /\ inet_conn_map' = [inet_conn_map EXCEPT ![New] = @ \cup {fd}]
  BY <1>4, Zenon DEF OpenConn, LowestFree
<1>6. fd \in inet_conn_map'[New] /\ \A q \in Server : fired'[q] \subseteq fired[q]
                                       /\ inet_conn_map[q] \subseteq inet_conn_map'[q]
  BY <1>1, <1>2, <1>3, <1>5, HandledFacts, Zenon DEF TypeOK
<1>7. /\ HupOK' /\ MapOK' /\ ClientsKept' /\ fdt'[New][fd] = c
      /\ \A q \in Server, g \in Fd : fdt[q][g] # NoFile => fdt'[q][g] = fdt[q][g]
  <2>1. \A d : Queued(d)' = Queued(d)
    BY <1>1, Zenon DEF Queued
  <2> QED BY <1>1, <1>3, <1>5, <1>6, <2>1, OpenedKept, Zenon
<1>8. ListenKept'
  BY <1>1, <1>2, <1>3, <1>7, Names, ZenonT(60) DEF Kept, ListenKept
<1>9. ChannelKept'
  <2>1. srv[New].unix_conn_fd \in Fd \cup {NoFd}
    BY <1>1, <1>3, SrvTypes, Zenon
  <2> QED BY <1>1, <1>2, <1>3, <1>7, <2>1, Names, SMT, Zenon, SMTT(30)
              DEF Kept, ChannelKept, OldEndOpen, NewEndOpen
<1>10. SessionTaken'
  <2>1. srv[Old].session_fd \in Fd /\ c \in Conns
    BY <1>1, <1>2, <1>3, <1>a, Zenon DEF SessionOK, TypeOK
  <2>2. fdt'[Old][srv[Old].session_fd] = c
    BY <1>3, <1>a, <1>7, <2>1, Names, Zenon
  <2> QED BY <1>1, <1>7, <2>2, Zenon DEF SessionTaken
<1> QED BY <1>7, <1>8, <1>9, <1>10, Zenon DEF Kept

\* exit() and kill end the run of both processes.
LEMMA ExitEnds == ASSUME TypeOK, NEW p \in Server, Exit(p) PROVE ~AllRun'
<1>1. PICK r : r = [srv[p] EXCEPT !.pc = "exit"]
  BY Zenon
<1>2. r \in SrvState /\ r.pc = "exit"
  BY <1>1, SrvTypes, Zenon DEF SrvState
<1>3. srv' = [srv EXCEPT ![p] = r]
  BY <1>1, Zenon DEF Exit, TypeOK
<1>4. srv'[p].pc = "exit"
  BY <1>2, <1>3, SrvUpdate, Zenon
<1> QED BY <1>4, Zenon DEF AllRun

\* Only a process that runs handles an event, and it changes at most its own state.
LEMMA HandleRuns ==
  ASSUME NEW p \in Server, NEW fe \in fired[p], Handle(p, fe)
  PROVE  /\ srv[p].pc = "loop"
         /\ (\E r : srv' = [srv EXCEPT ![p] = r]) \/ UNCHANGED srv \/ Exit(p)
<1>1. CASE \/ HandleInetListen(p, fe) \/ HandleInetListenFails(p, fe)
           \/ HandleUnixListen(p, fe) \/ HandleUnixListenFails(p, fe)
  BY <1>1, Zenon DEF HandleInetListen, HandleInetListenFails, ForInetListen,
                     HandleUnixListen, HandleUnixListenFails, ForUnixListen
<1>2. CASE HandleListenFdMsg(p, fe) \/ HandleSessionFdMsg(p, fe) \/ UnixConnClose(p, fe)
  BY <1>2, Zenon DEF HandleListenFdMsg, HandleSessionFdMsg, ProcessRecv, UnixConnClose,
                     ForUnixConn, AttachInetListenFd
<1>3. CASE TransferSessionFd(p, fe) \/ TransferSessionFdFails(p, fe)
  BY <1>3, Zenon DEF TransferSessionFd, TransferSessionFdFails, Transferable, ForNet
<1>4. CASE HandleRead(p, fe) \/ HandleWrite(p, fe) \/ HandleNetError(p, fe)
  BY <1>4, Zenon DEF HandleRead, HandleWrite, HandleNetError, ForNet
<1> QED BY <1>1, <1>2, <1>3, <1>4, Zenon DEF Handle

\* A process that has ended stays so.
LEMMA ExitStays ==
  ASSUME TypeOK, [Next]_vars, AllRun' PROVE AllRun
<1>1. ASSUME NEW p \in Server, srv[p].pc # "exit", NEW r, srv' = [srv EXCEPT ![p] = r]
      PROVE  AllRun
  BY <1>1, Zenon DEF AllRun, TypeOK
<1>2. CASE UNCHANGED srv
  BY <1>2, Zenon DEF AllRun
<1>3. ASSUME NEW p \in Server, Exit(p) PROVE FALSE
  BY <1>3, ExitEnds, Zenon
<1>4. CASE StartNew \/ CreateTrigger \/ KillNew \/ StopOld
  <2>1. CASE StartNew
    <3>1. PICK r : srv' = [srv EXCEPT ![New] = r]
      BY <2>1, Zenon DEF StartNew
    <3>2. srv[New].pc # "exit"
      BY <2>1, Zenon DEF StartNew
    <3> QED BY <1>1, <3>1, <3>2, Names, Zenon
  <2> QED BY <1>2, <1>3, <1>4, <2>1, Names, Zenon DEF CreateTrigger, KillNew, StopOld, procs
<1>5. ASSUME NEW p \in Server, ServerNext(p) PROVE AllRun
  <2>1. /\ srv[p].pc \in {"loop", "send_listen", "reply_listen", "reply_session"}
        /\ (\E r : srv' = [srv EXCEPT ![p] = r]) \/ UNCHANGED srv \/ Exit(p)
    <3>1. CASE \E fe \in fired[p] : Handle(p, fe)
      BY <3>1, HandleRuns, Zenon
    <3>2. CASE MeetNew(p) \/ MeetNewFails(p) \/ Poll(p)
      BY <3>2, Zenon DEF MeetNew, MeetNewFails, Poll, AtTop
    <3>3. CASE TransferListenFd(p) \/ FinishListenFd(p) \/ CloseTransferred(p)
      BY <3>3, Zenon DEF TransferListenFd, FinishListenFd, CloseTransferred, DetachInetListenFd
    <3> QED BY <1>5, <3>1, <3>2, <3>3, Zenon DEF ServerNext
  <2>2. srv[p].pc # "exit"
    BY <2>1, Zenon
  <2> QED BY <1>1, <1>2, <1>3, <2>1, <2>2, Zenon
<1>6. ASSUME NEW k \in Clients, ClientNext(k) \/ KillClient(k) PROVE AllRun
  <2>1. UNCHANGED srv
    BY <1>6, Zenon DEF ClientNext, ClientConnect, ClientWrite, ClientRead, ClientFails,
                       ClientSpins, KillClient, ClientEnds, procs, vars
  <2> QED BY <1>2, <2>1, Zenon
<1>7. CASE UNCHANGED vars
  BY <1>2, <1>7, Zenon DEF vars
<1> QED BY <1>4, <1>5, <1>6, <1>7, Zenon DEF Next, Quiet

\* As long as both processes run, no step of either, of a client or of the operator
\* loses a session or the listening socket.
LEMMA NextKept ==
  ASSUME IInv, IInv', Kept, [Next]_vars, AllRun' PROVE Kept'
<1>1. TypeOK
  BY Zenon DEF IInv
<1>2. CASE UNCHANGED <<srv, inet_conn_map, fired, fdt, unix, backlog, peer>>
  <2>1. HupOK'
    BY <1>2, Zenon DEF Kept, HupOK
  <2>2. \A c : Queued(c)' = Queued(c)
    BY <1>2, Zenon DEF Queued
  <2> QED BY <1>2, <2>1, <2>2, SameTablesKept, Zenon
<1>3. CASE StartNew
  BY <1>3, StartNewKept, Zenon
<1>4. CASE KillNew \/ StopOld
  BY <1>1, <1>4, ExitEnds, Names, Zenon DEF KillNew, StopOld
<1>5. ASSUME NEW p \in Server, ServerNext(p) PROVE Kept'
  <2>1. CASE MeetNew(p) \/ TransferListenFd(p) \/ FinishListenFd(p) \/ Poll(p)
    BY <2>1, MeetNewKept, TransferListenFdKept, FinishListenFdKept, PollKept, Zenon
  <2>2. CASE MeetNewFails(p)
    BY <1>1, <2>2, ExitEnds, Zenon DEF MeetNewFails
  <2>3. CASE CloseTransferred(p)
    BY <2>3, CloseTransferredKept, Zenon
  <2>4. ASSUME NEW fe \in fired[p], Handle(p, fe) PROVE Kept'
    <3>1. CASE HandleInetListen(p, fe) \/ HandleUnixListen(p, fe)
      BY <3>1, HandleInetListenKept, HandleUnixListenKept, Zenon
    <3>2. CASE HandleInetListenFails(p, fe) \/ HandleUnixListenFails(p, fe)
      BY <1>1, <3>2, ExitEnds, Zenon DEF HandleInetListenFails, HandleUnixListenFails
    <3>3. CASE HandleListenFdMsg(p, fe) \/ HandleSessionFdMsg(p, fe)
      BY <3>3, HandleListenFdMsgKept, HandleSessionFdMsgKept, Zenon
    <3>4. CASE UnixConnClose(p, fe) \/ TransferSessionFdFails(p, fe)
      BY <3>4, UnixConnCloseNever, TransferSessionFdFailsNever, Zenon
    <3>5. CASE TransferSessionFd(p, fe)
      BY <3>5, TransferSessionFdKept, Zenon
    <3>6. CASE HandleRead(p, fe) \/ HandleWrite(p, fe) \/ HandleNetError(p, fe)
      BY <3>6, HandleReadKept, HandleWriteKept, HandleNetErrorKept, Zenon
    <3> QED BY <2>4, <3>1, <3>2, <3>3, <3>4, <3>5, <3>6, Zenon DEF Handle
  <2> QED BY <1>5, <2>1, <2>2, <2>3, <2>4, Zenon DEF ServerNext
<1>6. ASSUME NEW k \in Clients, ClientNext(k) \/ KillClient(k) PROVE Kept'
  BY <1>6, ClientKept, Zenon
<1>7. CASE CreateTrigger \/ UNCHANGED vars
  BY <1>2, <1>7, Zenon DEF CreateTrigger, procs, kernel, vars
<1> QED BY <1>3, <1>4, <1>5, <1>6, <1>7, Zenon DEF Next, Quiet

\* At the start Old listens and no client is there.
LEMMA InitKept == ASSUME Init PROVE Kept
<1>1. \A p \in Server, fd \in Fd : fdt[p][fd] \notin Conns
  BY Names, Zenon DEF Init, InetServerListen
<1>2. /\ srv[Old].inet_listen_fd # NoFd /\ srv[Old].pc = "loop" /\ srv[New].pc = "down"
      /\ ~srv[Old].unix_socket_init /\ srv[New].unix_conn_fd = NoFd
  BY Names, SMT, Zenon, SMTT(30) DEF Init, NoFd, Old, New
<1>3. ListenKept /\ SessionTaken /\ ChannelKept
  BY <1>2, Names, Zenon DEF ListenKept, SessionTaken, ChannelKept
<1>4. HupOK /\ MapOK /\ ClientsKept
  BY <1>1, Zenon DEF Init, HupOK, MapOK, ClientsKept
<1> QED BY <1>3, <1>4, Zenon DEF Kept

\* What is kept is what a client sees.
LEMMA KeptSessions == ASSUME IInv, AllRun, Kept PROVE SessionsKept
<1>1. PICK p \in Server : srv[p].inet_listen_fd # NoFd
  BY Zenon DEF Kept, ListenKept
<1>2. srv[p].inet_listen_fd \in Fd /\ fdt[p][srv[p].inet_listen_fd] = InetListen
  BY <1>1, SrvTypes, Zenon DEF IInv, ListenOK, AllRun
<1>3. Referenced(InetListen)
  BY <1>2, Zenon DEF Referenced
<1>4. \A c \in Conns : peer[c] = "up" => Alive(c)
  BY <1>3, Zenon DEF Kept, ClientsKept, Alive, Referenced, Open, Queued
<1> QED BY <1>3, <1>4, Zenon DEF SessionsKept

\* As long as both processes run, Kept holds: a process that has ended stays ended.
LEMMA NextKInv == ASSUME IInv, IInv', KInv, [Next]_vars PROVE KInv'
<1>1. TypeOK
  BY Zenon DEF IInv
<1> QED BY <1>1, ExitStays, NextKept, Zenon DEF KInv

\* Without the early trigger file there is a New that listens when there is a trigger.
TriggerOK == trigger => srv[New].pc = "loop"

\* A process that changes its own state and does not end goes on running.
LEMMA PcUpdate ==
  ASSUME TypeOK, AllRun, TriggerOK, UNCHANGED trigger, NEW p \in Server, NEW r,
         srv' = [srv EXCEPT ![p] = r], r.pc # "exit", p = New => r.pc = "loop"
  PROVE  AllRun' /\ TriggerOK'
<1>1. \A q \in Server : srv'[q] = IF q = p THEN r ELSE srv[q]
  BY Zenon DEF TypeOK
<1> QED BY <1>1, Names, Zenon DEF AllRun, TriggerOK

\* When only clients are killed both processes go on running.
LEMMA RunsOn ==
  ASSUME Faults \subseteq {"kill_client"}, IInv, Kept, AllRun, TriggerOK, [Next]_vars
  PROVE  AllRun' /\ TriggerOK'
<1>a. TypeOK /\ RolesOK /\ New \in Server /\ Old \in Server /\ Old # New
  BY Names, Zenon DEF IInv
<1>b. /\ "early_trigger" \notin Faults /\ "stale_accept" \notin Faults
      /\ "accept_fails" \notin Faults
      /\ "kill_new" \notin Faults /\ "stop_old" \notin Faults
  BY SMT, Zenon, SMTT(30)
<1>1. CASE UNCHANGED <<srv, trigger>>
  BY <1>1, Zenon DEF AllRun, TriggerOK
<1>2. CASE CreateTrigger
  BY <1>2, <1>b, Zenon DEF CreateTrigger, procs, AllRun, TriggerOK
<1>3. CASE StartNew
  <2>1. PICK fd \in Fd : srv' = [srv EXCEPT ![New].pc = "loop", ![New].unix_listen_fd = fd]
    BY <1>3, Zenon DEF StartNew
  <2>2. PICK r : r = [srv[New] EXCEPT !.pc = "loop", !.unix_listen_fd = fd]
    BY Zenon
  <2>3. srv' = [srv EXCEPT ![New] = r] /\ trigger' = trigger
    BY <1>3, <1>a, <2>1, <2>2, Zenon DEF TypeOK, StartNew
  <2>4. r.pc = "loop"
    BY <2>2, <1>a, SrvTypes, ZenonT(60) DEF SrvState
  <2>5. r.pc # "exit"
    BY <2>4, Zenon
  <2> QED BY <1>a, <2>3, <2>4, <2>5, PcUpdate, Zenon
<1>4. CASE KillNew \/ StopOld
  BY <1>4, <1>b, Zenon DEF KillNew, StopOld
<1>5. ASSUME NEW p \in Server, ServerNext(p) PROVE AllRun' /\ TriggerOK'
  <2>1. CASE MeetNewFails(p)
    BY <1>a, <2>1, Zenon DEF MeetNewFails, SeesTrigger, TriggerOK, Kept, ListenKept
  <2>2. CASE MeetNew(p)
    <3>a. PICK fd : srv' = [srv EXCEPT ![p].pc = "send_listen", ![p].unix_client = fd,
                                       ![p].unix_socket_init = TRUE]
      BY <2>2, Zenon DEF MeetNew
    <3>b. PICK r : r = [srv[p] EXCEPT !.pc = "send_listen", !.unix_client = fd,
                                      !.unix_socket_init = TRUE]
      BY Zenon
    <3>1. srv' = [srv EXCEPT ![p] = r] /\ trigger' = trigger /\ p # New
      BY <1>a, <2>2, <3>a, <3>b, Zenon DEF MeetNew, SeesTrigger, TypeOK
    <3>2. r.pc = "send_listen"
      BY <3>b, <1>a, SrvTypes, ZenonT(60) DEF SrvState
    <3> QED BY <1>a, <3>1, <3>2, PcUpdate, Zenon
  <2>3. CASE TransferListenFd(p)
    <3>1. PICK x \in {"loop", "reply_listen"} : srv' = [srv EXCEPT ![p].pc = x]
      BY <2>3, Zenon DEF TransferListenFd
    <3>2. PICK r : r = [srv[p] EXCEPT !.pc = x]
      BY Zenon
    <3>3. srv' = [srv EXCEPT ![p] = r] /\ trigger' = trigger
      BY <1>a, <2>3, <3>1, <3>2, Zenon DEF TransferListenFd, TypeOK
    <3>4. r.pc = x /\ p # New
      BY <3>2, <1>a, <2>3, SrvTypes, Zenon DEF SrvState, TransferListenFd, RolesOK
    <3> QED BY <1>a, <3>1, <3>3, <3>4, PcUpdate, Zenon
  <2>4. CASE FinishListenFd(p)
    <3>1. PICK r : /\ r = [srv[p] EXCEPT !.pc = "loop", !.inet_listen_fd = NoFd]
                   /\ srv' = [srv EXCEPT ![p] = r] /\ trigger' = trigger
      BY <1>a, <2>4, Zenon DEF FinishListenFd, DetachInetListenFd, TypeOK
    <3>2. r.pc = "loop"
      BY <3>1, <1>a, SrvTypes, ZenonT(60) DEF SrvState
    <3> QED BY <1>a, <3>1, <3>2, PcUpdate, Zenon
  <2>5. CASE CloseTransferred(p)
    <3>1. PICK r : /\ r = [srv[p] EXCEPT !.pc = "loop", !.session_fd = NoFd]
                   /\ srv' = [srv EXCEPT ![p] = r] /\ trigger' = trigger
      BY <1>a, <2>5, Zenon DEF CloseTransferred, TypeOK
    <3>2. r.pc = "loop"
      BY <3>1, <1>a, SrvTypes, ZenonT(60) DEF SrvState
    <3> QED BY <1>a, <3>1, <3>2, PcUpdate, Zenon
  <2>6. CASE Poll(p)
    BY <1>1, <2>6, Zenon DEF Poll
  <2>7. ASSUME NEW fe \in fired[p], Handle(p, fe) PROVE AllRun' /\ TriggerOK'
    <3>1. srv[p].pc = "loop"
      BY <2>7, HandleRuns, Zenon
    <3>2. CASE HandleInetListen(p, fe) \/ HandleSessionFdMsg(p, fe) \/ HandleRead(p, fe)
               \/ HandleWrite(p, fe) \/ HandleNetError(p, fe) \/ TransferSessionFdFails(p, fe)
      BY <1>1, <3>2, Zenon DEF HandleInetListen, HandleSessionFdMsg, HandleRead, HandleWrite,
                               HandleNetError, TransferSessionFdFails
    <3>3. CASE HandleInetListenFails(p, fe) \/ HandleUnixListenFails(p, fe)
      BY <1>b, <3>3, Zenon DEF HandleInetListenFails, HandleUnixListenFails
    <3>4. CASE UnixConnClose(p, fe)
      BY <3>4, UnixConnCloseNever, Zenon
    <3>5. CASE HandleUnixListen(p, fe)
      <4>a. PICK fd : srv' = [srv EXCEPT ![p].unix_conn_fd = fd, ![p].unix_conn = TRUE]
        BY <3>5, Zenon DEF HandleUnixListen
      <4>b. PICK r : r = [srv[p] EXCEPT !.unix_conn_fd = fd, !.unix_conn = TRUE]
        BY Zenon
      <4>1. srv' = [srv EXCEPT ![p] = r] /\ trigger' = trigger
        BY <1>a, <3>5, <4>a, <4>b, Zenon DEF HandleUnixListen, TypeOK
      <4>2. r.pc = "loop"
        BY <4>b, <3>1, <1>a, SrvTypes, ZenonT(60) DEF SrvState
      <4> QED BY <1>a, <4>1, <4>2, PcUpdate, Zenon
    <3>6. CASE HandleListenFdMsg(p, fe)
      <4>1. PICK fd, r : /\ r = [srv[p] EXCEPT !.inet_listen_fd = fd]
                         /\ srv' = [srv EXCEPT ![p] = r] /\ trigger' = trigger
        BY <1>a, <3>6, Zenon DEF HandleListenFdMsg, AttachInetListenFd, TypeOK
      <4>2. r.pc = "loop"
        BY <4>1, <3>1, <1>a, SrvTypes, ZenonT(60) DEF SrvState
      <4> QED BY <1>a, <4>1, <4>2, PcUpdate, Zenon
    <3>7. CASE TransferSessionFd(p, fe)
      <4>1. PICK r : /\ r = [srv[p] EXCEPT !.pc = "reply_session", !.session_fd = fe.fd]
                     /\ srv' = [srv EXCEPT ![p] = r] /\ trigger' = trigger
        BY <1>a, <3>7, Zenon DEF TransferSessionFd, TypeOK
      <4>2. r.pc = "reply_session" /\ p # New
        BY <4>1, <1>a, <3>7, SrvTypes, ZenonT(60) DEF SrvState, TransferSessionFd, Transferable,
                                                      RolesOK
      <4> QED BY <1>a, <4>1, <4>2, PcUpdate, Zenon
    <3> QED BY <2>7, <3>2, <3>3, <3>4, <3>5, <3>6, <3>7, Zenon DEF Handle
  <2> QED BY <1>5, <2>1, <2>2, <2>3, <2>4, <2>5, <2>6, <2>7, Zenon DEF ServerNext
<1>6. ASSUME NEW k \in Clients, ClientNext(k) \/ KillClient(k) PROVE AllRun' /\ TriggerOK'
  <2>1. UNCHANGED <<srv, trigger>>
    BY <1>6, Zenon DEF ClientNext, ClientConnect, ClientWrite, ClientRead, ClientFails,
                       ClientSpins, KillClient, ClientEnds, procs, vars
  <2> QED BY <1>1, <2>1, Zenon
<1>7. CASE UNCHANGED vars
  BY <1>1, <1>7, Zenon DEF vars
<1> QED BY <1>2, <1>3, <1>4, <1>5, <1>6, <1>7, Zenon DEF Next, Quiet

-----------------------------------------------------------------------------
(***************************************************************************)
(* A session is served to the end: every step preserves EInv, with or      *)
(* without crashes (epoll.cc, server.cc).                                  *)
(***************************************************************************)

\* What new data on a socket does to an epoll entry.
LEMMA RearmWatch ==
  ASSUME TypeOK, NEW S, ep' = Rearm(S)
  PROVE  \A q \in Server, g \in Fd :
            /\ ep'[q][g].file = ep[q][g].file /\ ep'[q][g].mask = ep[q][g].mask
            /\ ep'[q][g].et = ep[q][g].et
            /\ ep[q][g].file \in S => ep'[q][g].armed
            /\ ep[q][g].file \notin S => ep'[q][g].armed = ep[q][g].armed
            /\ ep[q][g].armed => ep'[q][g].armed
<1> SUFFICES ASSUME NEW p \in Server, NEW fd \in Fd
             PROVE  /\ ep'[p][fd].file = ep[p][fd].file /\ ep'[p][fd].mask = ep[p][fd].mask
                    /\ ep'[p][fd].et = ep[p][fd].et
                    /\ ep[p][fd].file \in S => ep'[p][fd].armed
                    /\ ep[p][fd].file \notin S => ep'[p][fd].armed = ep[p][fd].armed
                    /\ ep[p][fd].armed => ep'[p][fd].armed
  BY ZenonT(60)
<1>1. ep[p][fd] \in Watch
  BY WatchTypes, Zenon
<1>2. ep'[p][fd] = IF ep[p][fd].file \in S THEN [ep[p][fd] EXCEPT !.armed = TRUE]
                   ELSE ep[p][fd]
  BY Zenon DEF Rearm
<1>3. CASE ep[p][fd].file \in S
  <2>1. ep'[p][fd] = [ep[p][fd] EXCEPT !.armed = TRUE]
    BY <1>2, <1>3, Zenon
  <2> QED BY <1>1, <1>3, <2>1, Zenon DEF Watch
<1>4. CASE ep[p][fd].file \notin S
  BY <1>2, <1>4, ZenonT(60)
<1> QED BY <1>3, <1>4, Zenon

\* NeverDeaf is about each session on its own.
LEMMA NeverDeafIs ==
  NeverDeaf <=> \A p \in Server : \A fd \in inet_conn_map[p] : fdt[p][fd] \in Conns =>
                    /\ ep[p][fd].file = fdt[p][fd]
                    /\ ep[p][fd].mask = WantedMask(conn[p][fd])
                    /\ ~Unheard(p, fd)
BY SMT, Zenon, SMTT(30) DEF NeverDeaf, WantedMask, Unheard, Attended

\* A session that a step does not touch does not go deaf: its entry is as it was or was
\* rearmed, or one of its events is still to be handled.
LEMMA WatchKept ==
  ASSUME TypeOK, TypeOK', NeverDeaf,
         \A q \in Server, g \in Fd : g \in inet_conn_map'[q] /\ fdt'[q][g] \in Conns =>
            \/ /\ ep'[q][g].file = fdt'[q][g] /\ ep'[q][g].mask = WantedMask(conn'[q][g])
               /\ ~Unheard(q, g)'
            \/ /\ g \in inet_conn_map[q] /\ fdt'[q][g] = fdt[q][g]
               /\ conn'[q][g] = conn[q][g]
               /\ ep'[q][g].file = ep[q][g].file /\ ep'[q][g].mask = ep[q][g].mask
               /\ \/ ep'[q][g].armed
                  \/ Attended(q, g)'
                  \/ /\ ep'[q][g].armed = ep[q][g].armed
                     /\ rx'[fdt[q][g]] > 0 => rx[fdt[q][g]] > 0
                     /\ peer'[fdt[q][g]] # "up" => peer[fdt[q][g]] # "up"
                     /\ ~Attended(q, g)
  PROVE  NeverDeaf'
<1> SUFFICES ASSUME NEW p \in Server, NEW fd \in inet_conn_map'[p], fdt'[p][fd] \in Conns
             PROVE  /\ ep'[p][fd].file = fdt'[p][fd]
                    /\ ep'[p][fd].mask = WantedMask(conn'[p][fd])
                    /\ ~Unheard(p, fd)'
  <2>1. NeverDeaf' <=>
          \A q \in Server : \A g \in inet_conn_map'[q] : fdt'[q][g] \in Conns =>
                    /\ ep'[q][g].file = fdt'[q][g]
                    /\ ep'[q][g].mask = WantedMask(conn'[q][g])
                    /\ ~Unheard(q, g)'
    BY SMT, Zenon, SMTT(30) DEF NeverDeaf, WantedMask, Unheard, Attended
  <2> QED BY <2>1, ZenonT(60)
<1>0. fd \in Fd
  BY ZenonT(60) DEF TypeOK
<1>1. CASE /\ ep'[p][fd].file = fdt'[p][fd] /\ ep'[p][fd].mask = WantedMask(conn'[p][fd])
           /\ ~Unheard(p, fd)'
  BY <1>1, Zenon
<1>2. CASE /\ fd \in inet_conn_map[p] /\ fdt'[p][fd] = fdt[p][fd]
           /\ conn'[p][fd] = conn[p][fd]
           /\ ep'[p][fd].file = ep[p][fd].file /\ ep'[p][fd].mask = ep[p][fd].mask
           /\ \/ ep'[p][fd].armed
              \/ Attended(p, fd)'
              \/ /\ ep'[p][fd].armed = ep[p][fd].armed
                 /\ rx'[fdt[p][fd]] > 0 => rx[fdt[p][fd]] > 0
                 /\ peer'[fdt[p][fd]] # "up" => peer[fdt[p][fd]] # "up"
                 /\ ~Attended(p, fd)
  <2>1. /\ ep[p][fd].file = fdt[p][fd]
        /\ ep[p][fd].mask = WantedMask(conn[p][fd])
        /\ ~Unheard(p, fd)
    BY <1>2, NeverDeafIs, Zenon
  <2>2. ~Unheard(p, fd)'
    BY <1>2, <2>1, Zenon DEF Unheard, EmptyReadBuf
  <2> QED BY <1>2, <2>1, <2>2, Zenon
<1> QED BY <1>0, <1>1, <1>2, Zenon

\* What a client does to its sockets rearms the entries for them.
LEMMA WiresEInv ==
  ASSUME IInv, IInv', EInv, UNCHANGED <<srv, inet_conn_map, conn, fired, fdt>>, NEW S,
         \A q \in Server, g \in Fd :
            /\ ep'[q][g].file = ep[q][g].file /\ ep'[q][g].mask = ep[q][g].mask
            /\ ep'[q][g].et = ep[q][g].et
            /\ ep[q][g].file \in S => ep'[q][g].armed
            /\ ep[q][g].file \notin S => ep'[q][g].armed = ep[q][g].armed
            /\ ep[q][g].armed => ep'[q][g].armed,
         \A c \in Conns : c \notin S =>
            rx'[c] = rx[c] /\ (peer'[c] # "up" => peer[c] # "up")
  PROVE  EInv'
<1>1. IdleOK' /\ NumbersOK'
  BY Zenon DEF EInv, IdleOK, NumbersOK
<1>2. ArmedOK'
  BY SMT, Zenon, SMTT(30) DEF EInv, ArmedOK
<1>3. NeverDeaf'
  <2>1. ASSUME NEW q \in Server, NEW g \in Fd, g \in inet_conn_map'[q], fdt'[q][g] \in Conns
        PROVE  /\ g \in inet_conn_map[q] /\ fdt'[q][g] = fdt[q][g]
               /\ conn'[q][g] = conn[q][g]
               /\ ep'[q][g].file = ep[q][g].file /\ ep'[q][g].mask = ep[q][g].mask
               /\ \/ ep'[q][g].armed
                  \/ Attended(q, g)'
                  \/ /\ ep'[q][g].armed = ep[q][g].armed
                     /\ rx'[fdt[q][g]] > 0 => rx[fdt[q][g]] > 0
                     /\ peer'[fdt[q][g]] # "up" => peer[fdt[q][g]] # "up"
                     /\ ~Attended(q, g)
    <3>1. ep[q][g].file = fdt[q][g]
      BY <2>1, NeverDeafIs, Zenon DEF EInv
    <3>2. Attended(q, g)' = Attended(q, g)
      BY Zenon DEF Attended
    <3> QED BY <2>1, <3>1, <3>2, ZenonT(60)
  <2> QED BY <2>1, WatchKept, ZenonT(60) DEF IInv, EInv
<1> QED BY <1>1, <1>2, <1>3, Zenon DEF EInv

\* Clients change no descriptor: whatever a client sends, and its end, is reported.
LEMMA ClientEInv ==
  ASSUME IInv, IInv', EInv, NEW k \in Clients, ClientNext(k) \/ KillClient(k) PROVE EInv'
<1>1. UNCHANGED <<srv, inet_conn_map, conn, fired, fdt>>
  BY Zenon DEF ClientNext, ClientConnect, ClientWrite, ClientRead, ClientFails,
               ClientSpins, KillClient, ClientEnds, procs, vars
<1>2. TypeOK /\ CurConn(k) \in Conns
  BY ClientFacts, Zenon DEF IInv
<1>3. CASE ClientWrite(k)
  <2>1. /\ ep' = Rearm({CurConn(k)}) /\ UNCHANGED peer
        /\ \A c \in Conns : c \notin {CurConn(k)} => rx'[c] = rx[c]
    BY <1>2, <1>3, Zenon DEF ClientWrite, TypeOK
  <2>2. PICK S : S = {CurConn(k)}
    BY Zenon
  <2>3. /\ ep' = Rearm(S) /\ UNCHANGED peer
        /\ \A c \in Conns : c \notin S => rx'[c] = rx[c]
    BY <2>1, <2>2, Zenon
  <2> QED BY <1>1, <1>2, <2>3, RearmWatch, WiresEInv, ZenonT(60)
<1>4. CASE ClientEnds(k)
  <2>1. PICK S : ep' = Rearm(S) /\ rx' = rx /\ \A c \in Conns : c \notin S => peer'[c] = peer[c]
    BY <1>4, Zenon DEF ClientEnds
  <2>2. \A q \in Server, g \in Fd :
            /\ ep'[q][g].file = ep[q][g].file /\ ep'[q][g].mask = ep[q][g].mask
            /\ ep'[q][g].et = ep[q][g].et
            /\ ep[q][g].file \in S => ep'[q][g].armed
            /\ ep[q][g].file \notin S => ep'[q][g].armed = ep[q][g].armed
            /\ ep[q][g].armed => ep'[q][g].armed
    BY <1>2, <2>1, RearmWatch, Zenon
  <2>3. \A c \in Conns : c \notin S => rx'[c] = rx[c] /\ (peer'[c] # "up" => peer[c] # "up")
    BY <2>1, Zenon
  <2> QED BY <1>1, <2>2, <2>3, WiresEInv, Zenon
<1>5. CASE UNCHANGED <<ep, rx>> /\ \A c \in Conns : peer'[c] # "up" => peer[c] # "up"
  <2>1. PICK S : S = {}
    BY Zenon
  <2>2. \A c : c \notin S
    BY <2>1, Zenon
  <2> QED BY <1>1, <1>5, <2>2, WiresEInv, ZenonT(60)
<1>6. CASE ClientConnect(k)
  BY <1>2, <1>5, <1>6, Zenon DEF ClientConnect, InetClientConn, TypeOK
<1>7. CASE ClientRead(k) \/ ClientSpins(k)
  BY <1>5, <1>7, Zenon DEF ClientRead, ClientSpins, vars
<1> QED BY <1>3, <1>4, <1>6, <1>7, Zenon DEF ClientNext, ClientFails, KillClient

\* The numbers in main stay right while the UNIX sockets stay open, and when they are set.
LEMMA NumbersKept ==
  ASSUME TypeOK, NumbersOK,
         \A q \in Server : srv'[q].pc # "exit" =>
            /\ srv[q].pc # "exit"
            /\ \/ srv'[q].unix_listen_fd = srv[q].unix_listen_fd
               \/ fdt'[q][srv'[q].unix_listen_fd] = UnixListen
            /\ srv'[q].unix_conn =>
                  \/ srv[q].unix_conn /\ srv'[q].unix_conn_fd = srv[q].unix_conn_fd
                  \/ srv'[q].unix_conn_fd # NoFd /\ fdt'[q][srv'[q].unix_conn_fd] = UnixConn,
         \A q \in Server, g \in Fd :
            srv'[q].pc # "exit" /\ fdt[q][g] = UnixListen => fdt'[q][g] = UnixListen,
         \A q \in Server, g \in Fd :
            srv'[q].pc # "exit" /\ srv'[q].unix_conn /\ fdt[q][g] = UnixConn
            => fdt'[q][g] = UnixConn
  PROVE  NumbersOK'
<1>1. \A q \in Server : /\ srv[q].unix_listen_fd \in Fd \cup {NoFd}
                        /\ srv[q].unix_conn_fd \in Fd \cup {NoFd}
  BY SrvTypes, Zenon
<1>2. ASSUME NEW q \in Server, srv'[q].pc # "exit", srv'[q].unix_listen_fd # NoFd
      PROVE  fdt'[q][srv'[q].unix_listen_fd] = UnixListen
  BY <1>1, <1>2, SMT, Zenon, SMTT(30) DEF NumbersOK
<1>3. ASSUME NEW q \in Server, srv'[q].pc # "exit", srv'[q].unix_conn
      PROVE  srv'[q].unix_conn_fd # NoFd /\ fdt'[q][srv'[q].unix_conn_fd] = UnixConn
  <2>1. CASE srv[q].unix_conn /\ srv'[q].unix_conn_fd = srv[q].unix_conn_fd
    <3>1. srv[q].unix_conn_fd # NoFd /\ fdt[q][srv[q].unix_conn_fd] = UnixConn
      BY <1>3, <2>1, Zenon DEF NumbersOK
    <3>2. srv[q].unix_conn_fd \in Fd
      BY <1>1, <3>1, Zenon
    <3> QED BY <1>3, <2>1, <3>1, <3>2, Zenon
  <2> QED BY <1>3, <2>1, Zenon
<1> QED BY <1>2, <1>3, Zenon DEF NumbersOK

\* The end of a process takes its sessions with it and leaves the other's alone.
LEMMA ExitEInv ==
  ASSUME IInv, IInv', EInv, NEW p \in Server, Exit(p) PROVE EInv'
<1>1. TypeOK /\ TypeOK' /\ IdleOK /\ NumbersOK /\ ArmedOK /\ NeverDeaf
  BY Zenon DEF IInv, EInv
<1>2. /\ srv'[p].pc = "exit" /\ inet_conn_map'[p] = {}
      /\ \A g \in Fd : ep'[p][g] = NoWatch
      /\ \A q \in Server : q # p => /\ srv'[q] = srv[q] /\ fired'[q] = fired[q]
                                    /\ inet_conn_map'[q] = inet_conn_map[q]
                                    /\ conn'[q] = conn[q] /\ fdt'[q] = fdt[q] /\ ep'[q] = ep[q]
  BY <1>1, SMT, Zenon, SMTT(30) DEF Exit, TypeOK, SrvState
<1>3. IdleOK'
  BY <1>1, <1>2, ZenonT(60) DEF IdleOK
<1>4. NumbersOK'
  BY <1>1, <1>2, SMT, Zenon, SMTT(30) DEF NumbersOK
<1>5. ArmedOK'
  BY <1>1, <1>2, SMT, Zenon, SMTT(30) DEF ArmedOK, NoWatch
<1>6. NeverDeaf'
  <2>1. \A q \in Server, g \in Fd : q # p => Attended(q, g)' = Attended(q, g)
    BY <1>2, Zenon DEF Attended
  <2>2. \A q \in Server, g \in Fd : g \in inet_conn_map'[q] => q # p
    BY <1>2, Zenon
  <2>3. rx' = rx /\ peer' = peer
    BY Zenon DEF Exit
  <2> QED BY <1>1, <1>2, <2>1, <2>2, <2>3, WatchKept, ZenonT(60)
<1> QED BY <1>3, <1>4, <1>5, <1>6, Zenon DEF EInv

\* epoll_wait disarms an edge-triggered entry only if it reports it.
LEMMA PollEInv ==
  ASSUME IInv, IInv', EInv, NEW p \in Server, Poll(p) PROVE EInv'
<1>1. TypeOK /\ TypeOK' /\ IdleOK /\ NumbersOK /\ ArmedOK /\ NeverDeaf
  BY Zenon DEF IInv, EInv
<1>2. /\ srv[p].pc = "loop" /\ fired[p] = {}
      /\ UNCHANGED <<srv, inet_conn_map, conn, fdt, rx, peer>>
      /\ fired'[p] = Ready(p) /\ \A q \in Server : q # p => fired'[q] = fired[q]
  BY <1>1, Zenon DEF Poll, AtTop, TypeOK
<1>3. \A q \in Server, g \in Fd :
         /\ q # p => ep'[q][g] = ep[q][g]
         /\ q = p => ep'[q][g] = IF ep[q][g].et /\ \E fe \in Ready(p) : fe.fd = g
                                 THEN [ep[q][g] EXCEPT !.armed = FALSE] ELSE ep[q][g]
  BY <1>1, ZenonT(60) DEF Poll, TypeOK
<1>4. \A q \in Server, g \in Fd :
         /\ ep'[q][g].file = ep[q][g].file /\ ep'[q][g].mask = ep[q][g].mask
         /\ ep'[q][g].et = ep[q][g].et
         /\ \/ ep'[q][g].armed = ep[q][g].armed
            \/ q = p /\ ep[q][g].et /\ \E fe \in Ready(p) : fe.fd = g
  <2> SUFFICES ASSUME NEW q \in Server, NEW g \in Fd
               PROVE  /\ ep'[q][g].file = ep[q][g].file /\ ep'[q][g].mask = ep[q][g].mask
                      /\ ep'[q][g].et = ep[q][g].et
                      /\ \/ ep'[q][g].armed = ep[q][g].armed
                         \/ q = p /\ ep[q][g].et /\ \E fe \in Ready(p) : fe.fd = g
    BY Zenon
  <2>1. ep[q][g] \in Watch
    BY <1>1, WatchTypes, Zenon
  <2>2. CASE ep'[q][g] = ep[q][g]
    BY <2>2, Zenon
  <2>3. CASE /\ ep'[q][g] = [ep[q][g] EXCEPT !.armed = FALSE]
             /\ q = p /\ ep[q][g].et /\ \E fe \in Ready(p) : fe.fd = g
    BY <2>1, <2>3, ZenonT(60) DEF Watch
  <2> QED BY <1>3, <2>2, <2>3, Zenon
<1>5. IdleOK' /\ NumbersOK'
  BY <1>1, <1>2, Zenon DEF IdleOK, NumbersOK
<1>6. ArmedOK'
  BY <1>1, <1>4, SMT, Zenon, SMTT(30) DEF ArmedOK
<1>7. NeverDeaf'
  <2>1. \A g \in Fd : ~Attended(p, g)
    BY <1>1, <1>2, Names, Zenon DEF Attended, IdleOK
  <2>2. \A q \in Server, g \in Fd :
           /\ q # p => Attended(q, g)' = Attended(q, g)
           /\ q = p /\ (\E fe \in Ready(p) : fe.fd = g) => Attended(q, g)'
    BY <1>2, Zenon DEF Attended
  <2>3. \A q \in Server, g \in Fd :
           \/ ep'[q][g].armed
           \/ Attended(q, g)'
           \/ ep'[q][g].armed = ep[q][g].armed /\ ~Attended(q, g)
    BY <1>4, <2>1, <2>2, ZenonT(60)
  <2>4. ASSUME NEW q \in Server, NEW g \in Fd, g \in inet_conn_map'[q], fdt'[q][g] \in Conns
        PROVE  /\ g \in inet_conn_map[q] /\ fdt'[q][g] = fdt[q][g]
               /\ conn'[q][g] = conn[q][g]
               /\ ep'[q][g].file = ep[q][g].file /\ ep'[q][g].mask = ep[q][g].mask
               /\ \/ ep'[q][g].armed
                  \/ Attended(q, g)'
                  \/ /\ ep'[q][g].armed = ep[q][g].armed
                     /\ rx'[fdt[q][g]] > 0 => rx[fdt[q][g]] > 0
                     /\ peer'[fdt[q][g]] # "up" => peer[fdt[q][g]] # "up"
                     /\ ~Attended(q, g)
    BY <1>2, <1>4, <2>3, <2>4, ZenonT(60)
  <2> QED BY <1>1, <2>4, WatchKept, ZenonT(60)
<1> QED BY <1>5, <1>6, <1>7, Zenon DEF EInv

\* A step that touches descriptor fd of p leaves the other sessions as they are.
OthersKept(p, fd) ==
    \A q \in Server, g \in Fd : ~(q = p /\ g = fd) =>
        /\ fdt'[q][g] = fdt[q][g] /\ ep'[q][g] = ep[q][g] /\ conn'[q][g] = conn[q][g]
        /\ g \in inet_conn_map'[q] => g \in inet_conn_map[q]
        /\ fdt[q][g] \in Conns /\ Attended(q, g) => Attended(q, g)'

\* Nothing arrives in a step of the servers.
NothingNew ==
    \A c \in Conns : (rx'[c] > 0 => rx[c] > 0) /\ (peer'[c] # "up" => peer[c] # "up")

\* After the step the entry of fd is right, for a session or for another file.
HeardAt(p, fd) ==
    /\ ep'[p][fd].mask = "OUT" => ep'[p][fd].armed /\ ~ep'[p][fd].et
    /\ fd \in inet_conn_map'[p] /\ fdt'[p][fd] \in Conns =>
          /\ ep'[p][fd].file = fdt'[p][fd]
          /\ ep'[p][fd].mask = WantedMask(conn'[p][fd])
          /\ ~Unheard(p, fd)'

\* A step that touches one descriptor, and leaves its entry right, preserves EInv.
LEMMA TouchedEInv ==
  ASSUME IInv, IInv', EInv, IdleOK', NumbersOK', NEW p \in Server, NEW fd,
         OthersKept(p, fd), NothingNew, fd \in Fd => HeardAt(p, fd)
  PROVE  EInv'
<1>1. TypeOK /\ TypeOK' /\ ArmedOK /\ NeverDeaf
  BY Zenon DEF IInv, EInv
<1>2. ArmedOK'
  <2> SUFFICES ASSUME NEW q \in Server, NEW g \in Fd, ep'[q][g].mask = "OUT"
               PROVE  ep'[q][g].armed /\ ~ep'[q][g].et
    BY Zenon DEF ArmedOK
  <2>1. CASE q = p /\ g = fd
    BY <2>1, Zenon DEF HeardAt
  <2>2. CASE ~(q = p /\ g = fd)
    BY <1>1, <2>2, Zenon DEF ArmedOK, OthersKept
  <2> QED BY <2>1, <2>2, Zenon
<1>3. ASSUME NEW q \in Server, NEW g \in Fd, g \in inet_conn_map'[q], fdt'[q][g] \in Conns
      PROVE  \/ /\ ep'[q][g].file = fdt'[q][g] /\ ep'[q][g].mask = WantedMask(conn'[q][g])
                /\ ~Unheard(q, g)'
             \/ /\ g \in inet_conn_map[q] /\ fdt'[q][g] = fdt[q][g]
                /\ conn'[q][g] = conn[q][g]
                /\ ep'[q][g].file = ep[q][g].file /\ ep'[q][g].mask = ep[q][g].mask
                /\ \/ ep'[q][g].armed
                   \/ Attended(q, g)'
                   \/ /\ ep'[q][g].armed = ep[q][g].armed
                      /\ rx'[fdt[q][g]] > 0 => rx[fdt[q][g]] > 0
                      /\ peer'[fdt[q][g]] # "up" => peer[fdt[q][g]] # "up"
                      /\ ~Attended(q, g)
  <2>1. CASE q = p /\ g = fd
    BY <1>3, <2>1, Zenon DEF HeardAt
  <2>2. CASE ~(q = p /\ g = fd)
    <3>1. /\ fdt'[q][g] = fdt[q][g] /\ ep'[q][g] = ep[q][g] /\ conn'[q][g] = conn[q][g]
          /\ g \in inet_conn_map[q]
          /\ fdt[q][g] \in Conns /\ Attended(q, g) => Attended(q, g)'
      BY <1>3, <2>2, Zenon DEF OthersKept
    <3> QED BY <1>3, <3>1, Zenon DEF NothingNew
  <2> QED BY <2>1, <2>2, Zenon
<1>4. NeverDeaf'
  BY <1>1, <1>3, WatchKept, ZenonT(60)
<1> QED BY <1>2, <1>4, Zenon DEF EInv

\* Handling an event leaves the events of the other descriptors.
LEMMA AttendedKept ==
  ASSUME IInv, NEW p \in Server, NEW fe \in fired[p], Handled(p, fe),
         \A q \in Server : srv'[q].session_fd = srv[q].session_fd
  PROVE  \A q \in Server, g \in Fd :
            ~(q = p /\ g = fe.fd) /\ Attended(q, g) => Attended(q, g)'
<1>1. \A q \in Server : \A ge \in fired[q] : ge \in fired'[q] \/ (q = p /\ ge = fe)
  BY Zenon DEF Handled, IInv, TypeOK
<1> QED BY <1>1, Zenon DEF Attended

\* Starting New opens a UNIX socket and touches no session.
LEMMA StartNewEInv == ASSUME IInv, IInv', EInv, StartNew PROVE EInv'
<1>1. /\ TypeOK /\ IdleOK /\ NumbersOK /\ New \in Server /\ UnixListen \notin Conns
      /\ NoFile \notin {UnixListen, UnixConn} /\ srv[New].pc = "down"
  BY Names, Zenon DEF IInv, EInv, StartNew
<1>2. PICK fd \in Fd :
         /\ fdt[New][fd] = NoFile /\ fdt' = [fdt EXCEPT ![New][fd] = UnixListen]
         /\ srv' = [srv EXCEPT ![New].pc = "loop", ![New].unix_listen_fd = fd]
         /\ ep' = AddEvent(New, fd, UnixListen, FALSE)
  BY Zenon DEF StartNew, UnixServerListen, LowestFree
<1>3. UNCHANGED <<inet_conn_map, conn, fired, rx, peer>>
  BY Zenon DEF StartNew
<1>4. /\ \A q \in Server : /\ srv'[q].session_fd = srv[q].session_fd
                           /\ q # New => srv'[q] = srv[q]
      /\ srv'[New].unix_conn = srv[New].unix_conn
      /\ srv'[New].unix_conn_fd = srv[New].unix_conn_fd
      /\ srv'[New].unix_listen_fd = fd
  BY <1>1, <1>2, SMT, Zenon, SMTT(30) DEF TypeOK, SrvState
<1>5. /\ fdt'[New][fd] = UnixListen /\ ep'[New][fd].mask = "IN"
      /\ \A q \in Server, g \in Fd : ~(q = New /\ g = fd) =>
            fdt'[q][g] = fdt[q][g] /\ ep'[q][g] = ep[q][g]
  BY <1>1, <1>2, Zenon DEF TypeOK, AddEvent
<1>6. \A q \in Server, g \in Fd : Attended(q, g)' = Attended(q, g)
  BY <1>3, <1>4, Zenon DEF Attended
<1>7. IdleOK'
  BY <1>1, <1>4, ZenonT(60) DEF IdleOK
<1>8. NumbersOK'
  <2>1. ASSUME NEW q \in Server, srv'[q].pc # "exit"
        PROVE  /\ srv[q].pc # "exit" /\ srv'[q].unix_conn_fd = srv[q].unix_conn_fd
               /\ srv'[q].unix_conn = srv[q].unix_conn
               /\ srv'[q].unix_listen_fd = srv[q].unix_listen_fd
                  \/ fdt'[q][srv'[q].unix_listen_fd] = UnixListen
    BY <1>1, <1>4, <1>5, <2>1, Zenon
  <2>2. \A q \in Server, g \in Fd :
           fdt[q][g] \in {UnixListen, UnixConn} => fdt'[q][g] = fdt[q][g]
    BY <1>1, <1>2, <1>5, Zenon
  <2> QED BY <1>1, <2>1, <2>2, NumbersKept, Zenon
<1>9. OthersKept(New, fd) /\ NothingNew
  BY <1>3, <1>5, <1>6, ZenonT(60) DEF OthersKept, NothingNew
<1>10. HeardAt(New, fd)
  BY <1>1, <1>5, SMT, Zenon, SMTT(30) DEF HeardAt
<1> QED BY <1>1, <1>7, <1>8, <1>9, <1>10, TouchedEInv, Zenon

\* Meeting New opens Old's end of the UNIX connection and touches no session.
LEMMA MeetNewEInv ==
  ASSUME IInv, IInv', EInv, NEW p \in Server, MeetNew(p) PROVE EInv'
<1>1. /\ TypeOK /\ IdleOK /\ NumbersOK /\ UnixClient \notin Conns
      /\ NoFile \notin {UnixListen, UnixConn} /\ srv[p].pc = "loop"
  BY Names, Zenon DEF IInv, EInv, MeetNew, AtTop
<1>2. PICK fd \in Fd :
         /\ fdt[p][fd] = NoFile /\ fdt' = [fdt EXCEPT ![p][fd] = UnixClient]
         /\ srv' = [srv EXCEPT ![p].pc = "send_listen", ![p].unix_client = fd,
                               ![p].unix_socket_init = TRUE]
  BY Zenon DEF MeetNew, UnixClientConn, LowestFree
<1>3. UNCHANGED <<inet_conn_map, conn, fired, rx, peer, ep>>
  BY Zenon DEF MeetNew
<1>4. \A q \in Server :
         /\ srv'[q].session_fd = srv[q].session_fd
         /\ srv'[q].unix_listen_fd = srv[q].unix_listen_fd
         /\ srv'[q].unix_conn_fd = srv[q].unix_conn_fd /\ srv'[q].unix_conn = srv[q].unix_conn
         /\ srv'[q].pc = IF q = p THEN "send_listen" ELSE srv[q].pc
  BY <1>1, <1>2, SMT, Zenon, SMTT(30) DEF TypeOK, SrvState
<1>5. /\ fdt'[p][fd] = UnixClient
      /\ \A q \in Server, g \in Fd : ~(q = p /\ g = fd) => fdt'[q][g] = fdt[q][g]
  BY <1>1, <1>2, Zenon DEF TypeOK
<1>6. \A q \in Server, g \in Fd : Attended(q, g)' = Attended(q, g)
  BY <1>3, <1>4, Zenon DEF Attended
<1>7. IdleOK'
  BY <1>1, <1>4, ZenonT(60) DEF IdleOK
<1>8. NumbersOK'
  <2>1. \A q \in Server : srv'[q].pc # "exit" => srv[q].pc # "exit"
    BY <1>1, <1>4, Zenon
  <2>2. \A q \in Server, g \in Fd :
           fdt[q][g] \in {UnixListen, UnixConn} => fdt'[q][g] = fdt[q][g]
    BY <1>1, <1>2, <1>5, Zenon
  <2> QED BY <1>1, <1>4, <2>1, <2>2, NumbersKept, ZenonT(60)
<1>9. ep'[p][fd].mask = "OUT" => ep'[p][fd].armed /\ ~ep'[p][fd].et
  BY <1>3, Zenon DEF EInv, ArmedOK
<1>10. OthersKept(p, fd) /\ NothingNew
  BY <1>3, <1>5, <1>6, Zenon DEF OthersKept, NothingNew
<1>11. HeardAt(p, fd)
  BY <1>1, <1>5, <1>9, Zenon DEF HeardAt
<1> QED BY <1>7, <1>8, <1>10, <1>11, TouchedEInv, Zenon

\* Sending the listening socket, or failing to, changes no entry.
LEMMA TransferListenFdEInv ==
  ASSUME IInv, IInv', EInv, NEW p \in Server, TransferListenFd(p) PROVE EInv'
<1>1. TypeOK /\ IdleOK /\ NumbersOK /\ srv[p].pc = "send_listen" /\ NoFd \notin Fd
  BY Names, Zenon DEF IInv, EInv, TransferListenFd
<1>2. UNCHANGED <<inet_conn_map, conn, fired, fdt, ep, rx, peer>>
  BY Zenon DEF TransferListenFd
<1>3. PICK s \in {"reply_listen", "loop"} : srv' = [srv EXCEPT ![p].pc = s]
  BY Zenon DEF TransferListenFd
<1>4. \A q \in Server :
         /\ srv'[q].session_fd = srv[q].session_fd
         /\ srv'[q].unix_listen_fd = srv[q].unix_listen_fd
         /\ srv'[q].unix_conn_fd = srv[q].unix_conn_fd /\ srv'[q].unix_conn = srv[q].unix_conn
         /\ srv'[q].pc = IF q = p THEN s ELSE srv[q].pc
  BY <1>1, <1>3, SMT, Zenon, SMTT(30) DEF TypeOK, SrvState
<1>5. \A q \in Server, g \in Fd : Attended(q, g)' = Attended(q, g)
  BY <1>2, <1>4, Zenon DEF Attended
<1>6. IdleOK'
  BY <1>1, <1>4, Zenon DEF IdleOK
<1>7. NumbersOK'
  <2>1. \A q \in Server : srv'[q].pc # "exit" => srv[q].pc # "exit"
    BY <1>1, <1>4, Zenon
  <2> QED BY <1>1, <1>2, <1>4, <2>1, NumbersKept, Zenon
<1>8. OthersKept(p, NoFd) /\ NothingNew
  BY <1>2, <1>5, Zenon DEF OthersKept, NothingNew
<1> QED BY <1>1, <1>6, <1>7, <1>8, TouchedEInv, Zenon

\* When the reply is in, Old lets go of the listening socket, which is no session.
LEMMA FinishListenFdEInv ==
  ASSUME IInv, IInv', EInv, NEW p \in Server, FinishListenFd(p) PROVE EInv'
<1>1. /\ TypeOK /\ IdleOK /\ NumbersOK /\ srv[p].pc = "reply_listen" /\ p = Old
      /\ NoFile \notin Conns
  BY Names, Zenon DEF IInv, EInv, FinishListenFd, RolesOK
<1>2. PICK fd : fd = srv[p].inet_listen_fd
  BY Zenon
<1>3. /\ ep' = DelEvent(p, fd) /\ fdt' = [fdt EXCEPT ![p][fd] = NoFile]
      /\ srv' = [srv EXCEPT ![p].pc = "loop", ![p].inet_listen_fd = NoFd]
      /\ UNCHANGED <<inet_conn_map, conn, fired, rx, peer>>
  BY <1>2, Zenon DEF FinishListenFd, DetachInetListenFd
<1>4. fd \in Fd /\ fdt[p][fd] = InetListen
  <2>1. srv[p].inet_listen_fd # NoFd /\ fdt[p][srv[p].inet_listen_fd] = InetListen
    BY <1>1, ZenonT(60) DEF IInv, ListenOK
  <2> QED BY <1>1, <1>2, <2>1, SrvTypes, ZenonT(60)
<1>5. \A q \in Server :
         /\ srv'[q].session_fd = srv[q].session_fd
         /\ srv'[q].unix_listen_fd = srv[q].unix_listen_fd
         /\ srv'[q].unix_conn_fd = srv[q].unix_conn_fd /\ srv'[q].unix_conn = srv[q].unix_conn
         /\ srv'[q].pc = IF q = p THEN "loop" ELSE srv[q].pc
  BY <1>1, <1>3, SMT, Zenon, SMTT(30) DEF TypeOK, SrvState
<1>6. /\ fdt'[p][fd] = NoFile /\ ep'[p][fd].mask = "NONE"
      /\ \A q \in Server, g \in Fd : ~(q = p /\ g = fd) =>
            fdt'[q][g] = fdt[q][g] /\ ep'[q][g] = ep[q][g]
  BY <1>1, <1>3, <1>4, ZenonT(60) DEF TypeOK, DelEvent, NoWatch
<1>7. \A q \in Server, g \in Fd : Attended(q, g)' = Attended(q, g)
  BY <1>3, <1>5, Zenon DEF Attended
<1>8. IdleOK'
  BY <1>1, <1>5, Zenon DEF IdleOK
<1>9. NumbersOK'
  <2>1. \A q \in Server : srv'[q].pc # "exit" => srv[q].pc # "exit"
    BY <1>1, <1>5, Zenon
  <2>2. \A q \in Server, g \in Fd :
           fdt[q][g] \in {UnixListen, UnixConn} => fdt'[q][g] = fdt[q][g]
    BY <1>4, <1>6, Names, Zenon
  <2> QED BY <1>1, <1>5, <2>1, <2>2, NumbersKept, Zenon
<1>10. OthersKept(p, fd) /\ NothingNew
  BY <1>3, <1>6, <1>7, Zenon DEF OthersKept, NothingNew
<1>11. HeardAt(p, fd)
  BY <1>1, <1>6, SMT, Zenon, SMTT(30) DEF HeardAt
<1> QED BY <1>8, <1>9, <1>10, <1>11, TouchedEInv, Zenon

\* A session that enters a process is armed for EPOLLIN and owes nothing.
LEMMA OpenConnEInv ==
  ASSUME IInv, IInv', EInv, NEW p \in Server, NEW fe \in fired[p], Handled(p, fe),
         fdt[p][fe.fd] \notin Conns, NEW fd \in Fd, NEW c \in Conns, OpenConn(p, fd, c),
         UNCHANGED <<srv, rx, peer>>
  PROVE  EInv'
<1>1. TypeOK /\ IdleOK /\ NumbersOK /\ fdt[p][fd] = NoFile
  BY Zenon DEF IInv, EInv, OpenConn, LowestFree
<1>2. /\ fdt'[p][fd] = c /\ conn'[p][fd] = NewConn
      /\ \A q \in Server, g \in Fd : ~(q = p /\ g = fd) =>
            /\ fdt'[q][g] = fdt[q][g] /\ conn'[q][g] = conn[q][g]
            /\ g \in inet_conn_map'[q] => g \in inet_conn_map[q]
  BY <1>1, SMT, Zenon, SMTT(30) DEF TypeOK, OpenConn
<1>3. /\ ep'[p][fd] = [file |-> c, mask |-> "IN", et |-> TRUE, armed |-> TRUE]
      /\ \A q \in Server, g \in Fd : ~(q = p /\ g = fd) => ep'[q][g] = ep[q][g]
  BY <1>1, Zenon DEF TypeOK, OpenConn, AddEvent
<1>4. \A q \in Server, g \in Fd :
         fdt[q][g] \in Conns /\ Attended(q, g) => Attended(q, g)'
  BY AttendedKept, Zenon
<1>5. IdleOK'
  BY <1>1, Zenon DEF IdleOK
<1>6. NumbersOK'
  <2>1. \A q \in Server, g \in Fd :
           fdt[q][g] \in {UnixListen, UnixConn} => fdt'[q][g] = fdt[q][g]
    BY <1>1, <1>2, Names, ZenonT(60)
  <2> QED BY <1>1, <2>1, NumbersKept, Zenon
<1>7. /\ ep'[p][fd].file = c /\ ep'[p][fd].mask = "IN" /\ ep'[p][fd].mask # "OUT"
      /\ WantedMask(conn'[p][fd]) = "IN" /\ ~Unheard(p, fd)'
  <2>1. ~(0 > 0)
    BY SMT, Zenon, SMTT(30)
  <2>2. NewConn.reply = 0
    BY Zenon DEF NewConn
  <2>3. WantedMask(conn'[p][fd]) = "IN"
    BY <2>1, <2>2, <1>2, ZenonT(60) DEF WantedMask
  <2> DEFINE w == [file |-> c, mask |-> "IN", et |-> TRUE, armed |-> TRUE]
  <2>4. w.file = c /\ w.mask = "IN" /\ w.mask # "OUT" /\ w.armed
    BY SMT, Zenon, SMTT(30)
  <2>6. ep'[p][fd] = w
    BY <1>3, Zenon
  <2> HIDE DEF w
  <2>5. ~Unheard(p, fd)'
    BY <2>4, <2>6, Zenon DEF Unheard
  <2> QED BY <2>3, <2>4, <2>5, <2>6, ZenonT(60)
<1>8. OthersKept(p, fd) /\ NothingNew
  BY <1>2, <1>3, <1>4, ZenonT(60) DEF OthersKept, NothingNew
<1>9. HeardAt(p, fd)
  BY <1>2, <1>7, Zenon DEF HeardAt
<1> QED BY <1>5, <1>6, <1>8, <1>9, TouchedEInv, Zenon

\* A session that leaves a process takes its entry with it.
LEMMA CloseConnEInv ==
  ASSUME IInv, IInv', EInv, IdleOK', NumbersOK', NEW p \in Server, NEW fd \in Fd,
         CloseConn(p, fd), NothingNew,
         \A q \in Server, g \in Fd :
            ~(q = p /\ g = fd) /\ Attended(q, g) => Attended(q, g)'
  PROVE  EInv'
<1>1. TypeOK /\ NoFile \notin Conns
  BY Names, Zenon DEF IInv
<1>2. /\ fdt'[p][fd] = NoFile /\ ep'[p][fd].mask = "NONE"
      /\ \A q \in Server, g \in Fd : ~(q = p /\ g = fd) =>
            /\ fdt'[q][g] = fdt[q][g] /\ conn'[q][g] = conn[q][g]
            /\ g \in inet_conn_map'[q] => g \in inet_conn_map[q]
  BY <1>1, ZenonT(60) DEF TypeOK, CloseConn, DelEvent, NoWatch
<1>3. \A q \in Server, g \in Fd : ~(q = p /\ g = fd) => ep'[q][g] = ep[q][g]
  BY <1>1, Zenon DEF TypeOK, CloseConn, DelEvent
<1>4. OthersKept(p, fd)
  BY <1>2, <1>3, Zenon DEF OthersKept
<1>5. HeardAt(p, fd)
  BY <1>1, <1>2, SMT, Zenon, SMTT(30) DEF HeardAt
<1> QED BY <1>4, <1>5, TouchedEInv, Zenon

\* A step that leaves the main-loop state alone and closes at most a session leaves the
\* numbers of main right.
LEMMA SameSrvNumbers ==
  ASSUME TypeOK, IdleOK, NumbersOK, UNCHANGED srv, NEW p \in Server, NEW fd,
         fdt[p][fd] \in Conns,
         \A q \in Server, g \in Fd : ~(q = p /\ g = fd) => fdt'[q][g] = fdt[q][g]
  PROVE  IdleOK' /\ NumbersOK'
<1>1. IdleOK'
  BY Zenon DEF IdleOK
<1>2. \A q \in Server, g \in Fd :
         fdt[q][g] \in {UnixListen, UnixConn} => fdt'[q][g] = fdt[q][g]
  BY Names, SMT, Zenon, SMTT(30)
<1>3. NumbersOK'
  BY <1>2, NumbersKept, Zenon
<1> QED BY <1>1, <1>3, Zenon

\* Closing a session on error, on end of file or because it could not be sent.
LEMMA NetCloseEInv ==
  ASSUME IInv, IInv', EInv, NEW p \in Server, NEW fe \in fired[p], ForNet(p, fe),
         Handled(p, fe), CloseConn(p, fe.fd), UNCHANGED <<srv, peer>>,
         \A c \in Conns : rx'[c] > 0 => rx[c] > 0
  PROVE  EInv'
<1>1. TypeOK /\ IdleOK /\ NumbersOK /\ fe.fd \in Fd /\ fdt[p][fe.fd] \in Conns
  BY NetFile, Zenon DEF IInv, EInv
<1>2. \A q \in Server, g \in Fd : ~(q = p /\ g = fe.fd) => fdt'[q][g] = fdt[q][g]
  BY <1>1, ZenonT(60) DEF TypeOK, CloseConn
<1>3. IdleOK' /\ NumbersOK'
  BY <1>1, <1>2, SameSrvNumbers, SMT, Zenon, SMTT(30)
<1>4. \A q \in Server, g \in Fd :
         ~(q = p /\ g = fe.fd) /\ Attended(q, g) => Attended(q, g)'
  BY AttendedKept, Zenon
<1>5. NothingNew
  BY Zenon DEF NothingNew
<1> QED BY <1>1, <1>3, <1>4, <1>5, CloseConnEInv, Zenon

\* accept() opens a session; the event was about the listening socket.
LEMMA HandleInetListenEInv ==
  ASSUME IInv, IInv', EInv, NEW p \in Server, NEW fe \in fired[p], HandleInetListen(p, fe)
  PROVE  EInv'
<1>1. /\ ForInetListen(p, fe) /\ Handled(p, fe) /\ backlog # <<>>
      /\ UNCHANGED <<srv, rx, peer>>
  BY Zenon DEF HandleInetListen, InetServerAccept
<1>2. PICK fd \in Fd : OpenConn(p, fd, Head(backlog))
  BY Zenon DEF HandleInetListen
<1>3. Head(backlog) \in Conns
  BY <1>1, TailOf, ZenonT(60) DEF IInv, TypeOK
<1>4. fdt[p][fe.fd] = InetListen
  <2>1. fe.fd \in Fd /\ fe.fd = srv[p].inet_listen_fd /\ srv[p].pc = "loop"
    BY <1>1, FiredFd, Zenon DEF ForInetListen, IInv
  <2> QED BY <2>1, Names, ZenonT(60) DEF IInv, ListenOK
<1> QED BY <1>1, <1>2, <1>3, <1>4, Names, OpenConnEInv, Zenon

\* New accepts Old's connection: the event was about its UNIX listening socket.
LEMMA HandleUnixListenEInv ==
  ASSUME IInv, IInv', EInv, NEW p \in Server, NEW fe \in fired[p], HandleUnixListen(p, fe)
  PROVE  EInv'
<1>1. /\ TypeOK /\ IdleOK /\ NumbersOK /\ fe.fd \in Fd /\ srv[p].pc = "loop"
      /\ fe.fd = srv[p].unix_listen_fd /\ Handled(p, fe)
      /\ UNCHANGED <<inet_conn_map, conn, rx, peer>>
  BY FiredFd, Zenon DEF IInv, EInv, HandleUnixListen, ForUnixListen
<1>2. PICK fd \in Fd :
         /\ fdt[p][fd] = NoFile /\ fdt' = [fdt EXCEPT ![p][fd] = UnixConn]
         /\ ep' = AddEvent(p, fd, UnixConn, FALSE)
         /\ srv' = [srv EXCEPT ![p].unix_conn_fd = fd, ![p].unix_conn = TRUE]
  BY Zenon DEF HandleUnixListen, UnixServerAccept, LowestFree
<1>3. fdt[p][fe.fd] \notin Conns
  BY <1>1, Names, Zenon DEF NumbersOK
<1>4. /\ \A q \in Server :
            /\ srv'[q].session_fd = srv[q].session_fd /\ srv'[q].pc = srv[q].pc
            /\ srv'[q].unix_listen_fd = srv[q].unix_listen_fd
            /\ q # p => srv'[q] = srv[q]
      /\ srv'[p].unix_conn_fd = fd
  BY <1>1, <1>2, SMT, Zenon, SMTT(30) DEF TypeOK, SrvState
<1>5. /\ fdt'[p][fd] = UnixConn /\ ep'[p][fd].mask = "IN"
      /\ \A q \in Server, g \in Fd : ~(q = p /\ g = fd) =>
            fdt'[q][g] = fdt[q][g] /\ ep'[q][g] = ep[q][g]
  BY <1>1, <1>2, Zenon DEF TypeOK, AddEvent
<1>6. \A q \in Server, g \in Fd :
         fdt[q][g] \in Conns /\ Attended(q, g) => Attended(q, g)'
  BY <1>1, <1>3, <1>4, AttendedKept, Zenon
<1>7. IdleOK'
  BY <1>1, <1>4, ZenonT(60) DEF IdleOK
<1>8. NumbersOK'
  <2>1. \A q \in Server, g \in Fd :
           fdt[q][g] \in {UnixListen, UnixConn} => fdt'[q][g] = fdt[q][g]
    BY <1>1, <1>2, <1>5, Names, SMT, Zenon, SMTT(30)
  <2>2. \A q \in Server :
           \/ srv'[q].unix_conn = srv[q].unix_conn
              /\ srv'[q].unix_conn_fd = srv[q].unix_conn_fd
           \/ srv'[q].unix_conn_fd # NoFd /\ fdt'[q][srv'[q].unix_conn_fd] = UnixConn
    BY <1>4, <1>5, Names, ZenonT(60)
  <2> QED BY <1>1, <1>4, <2>1, <2>2, NumbersKept, SMT, Zenon, SMTT(30)
<1>9. OthersKept(p, fd) /\ NothingNew
  BY <1>1, <1>5, <1>6, Zenon DEF OthersKept, NothingNew
<1>10. HeardAt(p, fd)
  BY <1>5, Names, SMT, Zenon, SMTT(30) DEF HeardAt
<1> QED BY <1>7, <1>8, <1>9, <1>10, TouchedEInv, Zenon

\* A message is taken for an event of the UNIX connection: unix_conn is set.
LEMMA RecvIsUnix ==
  ASSUME IInv, EInv, NEW p \in Server, NEW fe \in fired[p], ProcessRecv(p, fe)
  PROVE  fdt[p][fe.fd] = UnixConn /\ fe.fd \in Fd /\ Handled(p, fe)
BY FiredFd, Zenon DEF IInv, EInv, NumbersOK, ProcessRecv, ForUnixConn, HandleUnixEventFails

\* New receives the listening socket, which is no session.
LEMMA HandleListenFdMsgEInv ==
  ASSUME IInv, IInv', EInv, NEW p \in Server, NEW fe \in fired[p], HandleListenFdMsg(p, fe)
  PROVE  EInv'
<1>1. /\ TypeOK /\ IdleOK /\ NumbersOK /\ ProcessRecv(p, fe)
      /\ UNCHANGED <<inet_conn_map, conn, rx, peer>>
  BY Zenon DEF IInv, EInv, HandleListenFdMsg
<1>2. Handled(p, fe) /\ fe.fd \in Fd /\ fdt[p][fe.fd] \notin Conns
  BY <1>1, RecvIsUnix, Names, ZenonT(60)
<1>3. Head(unix.msgs).file = InetListen
  BY <1>1, ProcessRecvFacts, SMT, Zenon, SMTT(30) DEF HandleListenFdMsg
<1>4. PICK fd \in Fd :
         /\ fdt[p][fd] = NoFile /\ fdt' = [fdt EXCEPT ![p][fd] = InetListen]
         /\ ep' = AddEvent(p, fd, InetListen, FALSE)
         /\ srv' = [srv EXCEPT ![p].inet_listen_fd = fd]
  BY <1>3, Zenon DEF HandleListenFdMsg, AttachInetListenFd, LowestFree
<1>5. \A q \in Server :
         /\ srv'[q].session_fd = srv[q].session_fd /\ srv'[q].pc = srv[q].pc
         /\ srv'[q].unix_listen_fd = srv[q].unix_listen_fd
         /\ srv'[q].unix_conn_fd = srv[q].unix_conn_fd /\ srv'[q].unix_conn = srv[q].unix_conn
  BY <1>1, <1>4, SMT, Zenon, SMTT(30) DEF TypeOK, SrvState
<1>6. /\ fdt'[p][fd] = InetListen /\ ep'[p][fd].mask = "IN"
      /\ \A q \in Server, g \in Fd : ~(q = p /\ g = fd) =>
            fdt'[q][g] = fdt[q][g] /\ ep'[q][g] = ep[q][g]
  BY <1>1, <1>4, Zenon DEF TypeOK, AddEvent
<1>7. \A q \in Server, g \in Fd :
         fdt[q][g] \in Conns /\ Attended(q, g) => Attended(q, g)'
  BY <1>2, <1>5, AttendedKept, Zenon
<1>8. IdleOK'
  BY <1>1, <1>5, Zenon DEF IdleOK
<1>9. NumbersOK'
  <2>1. \A q \in Server, g \in Fd :
           fdt[q][g] \in {UnixListen, UnixConn} => fdt'[q][g] = fdt[q][g]
    BY <1>1, <1>4, <1>6, Names, Zenon
  <2> QED BY <1>1, <1>5, <2>1, NumbersKept, Zenon
<1>10. OthersKept(p, fd) /\ NothingNew
  BY <1>1, <1>6, <1>7, ZenonT(60) DEF OthersKept, NothingNew
<1>11. HeardAt(p, fd)
  BY <1>6, Names, SMT, Zenon, SMTT(30) DEF HeardAt
<1> QED BY <1>8, <1>9, <1>10, <1>11, TouchedEInv, Zenon

\* New receives a session.
LEMMA HandleSessionFdMsgEInv ==
  ASSUME IInv, IInv', EInv, NEW p \in Server, NEW fe \in fired[p], HandleSessionFdMsg(p, fe)
  PROVE  EInv'
<1>1. ProcessRecv(p, fe) /\ UNCHANGED <<srv, rx, peer>>
  BY Zenon DEF HandleSessionFdMsg
<1>2. Handled(p, fe) /\ fe.fd \in Fd /\ fdt[p][fe.fd] \notin Conns
  BY <1>1, RecvIsUnix, Names, ZenonT(60)
<1>3. Head(unix.msgs).file \in Conns
  BY MovedSession, Zenon DEF IInv, SessionOK
<1>4. PICK fd \in Fd : OpenConn(p, fd, Head(unix.msgs).file)
  BY Zenon DEF HandleSessionFdMsg
<1> QED BY <1>1, <1>2, <1>3, <1>4, OpenConnEInv, Zenon

\* The UNIX connection is closed: its number may name another file by then, but the
\* descriptor of that number is gone with its entry.
LEMMA UnixConnCloseEInv ==
  ASSUME IInv, IInv', EInv, NEW p \in Server, NEW fe \in fired[p], UnixConnClose(p, fe)
  PROVE  EInv'
<1>1. /\ TypeOK /\ IdleOK /\ NumbersOK /\ fe.fd \in Fd /\ Handled(p, fe)
      /\ srv[p].pc = "loop" /\ fe.fd # srv[p].unix_listen_fd
      /\ UNCHANGED <<inet_conn_map, conn, rx, peer>>
      /\ srv' = [srv EXCEPT ![p].unix_conn = FALSE]
  BY FiredFd, Zenon DEF IInv, EInv, UnixConnClose, ForUnixConn
<1>2. \A q \in Server :
         /\ srv'[q].session_fd = srv[q].session_fd /\ srv'[q].pc = srv[q].pc
         /\ srv'[q].unix_listen_fd = srv[q].unix_listen_fd
         /\ srv'[q].unix_conn_fd = srv[q].unix_conn_fd
         /\ srv'[q].unix_conn => srv[q].unix_conn /\ q # p
  BY <1>1, SMT, Zenon, SMTT(30) DEF TypeOK, SrvState
<1>3. /\ fdt'[p][fe.fd] = NoFile /\ ep'[p][fe.fd].mask = "NONE"
      /\ \A q \in Server, g \in Fd : ~(q = p /\ g = fe.fd) =>
            fdt'[q][g] = fdt[q][g] /\ ep'[q][g] = ep[q][g]
  BY <1>1, SMT, Zenon, SMTT(30) DEF TypeOK, UnixConnClose, DelEvent, NoWatch
<1>4. \A q \in Server, g \in Fd :
         ~(q = p /\ g = fe.fd) /\ Attended(q, g) => Attended(q, g)'
  BY <1>2, AttendedKept, <1>1, Zenon
<1>5. IdleOK'
  BY <1>1, <1>2, SMT, Zenon, SMTT(30) DEF IdleOK
<1>6. NumbersOK'
  <2>1. \A q \in Server, g \in Fd : fdt[q][g] = UnixListen => fdt'[q][g] = UnixListen
    <3>1. fdt[p][fe.fd] # UnixListen
      BY <1>1, ZenonT(60) DEF IInv, NamesOK
    <3> QED BY <1>3, <3>1, ZenonT(60)
  <2>2. \A q \in Server, g \in Fd :
           srv'[q].unix_conn /\ fdt[q][g] = UnixConn => fdt'[q][g] = UnixConn
    BY <1>2, <1>3, Zenon
  <2> QED BY <1>1, <1>2, <2>1, <2>2, NumbersKept, Zenon
<1>7. OthersKept(p, fe.fd) /\ NothingNew
  BY <1>1, <1>3, <1>4, ZenonT(60) DEF OthersKept, NothingNew
<1>8. HeardAt(p, fe.fd)
  BY <1>3, Names, SMT, Zenon, SMTT(30) DEF HeardAt
<1> QED BY <1>5, <1>6, <1>7, <1>8, TouchedEInv, Zenon

\* While Old waits for the reply the session is attended to: session_fd is its number.
LEMMA TransferSessionFdEInv ==
  ASSUME IInv, IInv', EInv, NEW p \in Server, NEW fe \in fired[p], TransferSessionFd(p, fe)
  PROVE  EInv'
<1>1. /\ TypeOK /\ IdleOK /\ NumbersOK /\ fe.fd \in Fd /\ Handled(p, fe) /\ NoFd \notin Fd
      /\ srv[p].pc = "loop" /\ srv[p].session_fd = NoFd
      /\ UNCHANGED <<inet_conn_map, conn, fdt, ep, rx, peer>>
      /\ srv' = [srv EXCEPT ![p].pc = "reply_session", ![p].session_fd = fe.fd]
  BY FiredFd, Names, Zenon DEF IInv, EInv, TransferSessionFd, Transferable, ForNet, IdleOK
<1>2. /\ srv'[p].session_fd = fe.fd /\ srv'[p].pc = "reply_session"
      /\ \A q \in Server :
            /\ q # p => srv'[q] = srv[q]
            /\ srv'[q].unix_listen_fd = srv[q].unix_listen_fd
            /\ srv'[q].unix_conn_fd = srv[q].unix_conn_fd /\ srv'[q].unix_conn = srv[q].unix_conn
  BY <1>1, SMT, Zenon, SMTT(30) DEF TypeOK, SrvState
<1>3. \A q \in Server, g \in Fd : Attended(q, g) => Attended(q, g)'
  <2>1. \A q \in Server : \A ge \in fired[q] : ge \in fired'[q] \/ (q = p /\ ge = fe)
    BY <1>1, Zenon DEF Handled, TypeOK
  <2> QED BY <1>1, <1>2, <2>1, ZenonT(60) DEF Attended
<1>4. IdleOK'
  BY <1>1, <1>2, ZenonT(60) DEF IdleOK
<1>5. NumbersOK'
  <2>1. \A q \in Server : srv'[q].pc # "exit" => srv[q].pc # "exit"
    BY <1>1, <1>2, Zenon
  <2> QED BY <1>1, <1>2, <2>1, NumbersKept, Zenon
<1>6. OthersKept(p, NoFd) /\ NothingNew
  BY <1>1, <1>3, Zenon DEF OthersKept, NothingNew
<1> QED BY <1>1, <1>4, <1>5, <1>6, TouchedEInv, Zenon

\* When the reply is in, or New is gone, the session leaves Old.
LEMMA CloseTransferredEInv ==
  ASSUME IInv, IInv', EInv, NEW p \in Server, CloseTransferred(p) PROVE EInv'
<1>1. PICK fd : fd = srv[p].session_fd
  BY Zenon
<1>2. /\ TypeOK /\ IdleOK /\ NumbersOK /\ p = Old /\ srv[p].pc = "reply_session"
      /\ CloseConn(p, fd) /\ UNCHANGED <<fired, rx, peer>>
      /\ srv' = [srv EXCEPT ![p].pc = "loop", ![p].session_fd = NoFd]
  BY <1>1, Names, ZenonT(60) DEF IInv, EInv, CloseTransferred, RolesOK
<1>3. fd \in Fd /\ fdt[p][fd] \in Conns
  BY <1>1, <1>2, Zenon DEF IInv, TypeOK, SessionOK
<1>4. /\ srv'[p].session_fd = NoFd /\ srv'[p].pc = "loop"
      /\ \A q \in Server :
            /\ q # p => srv'[q] = srv[q]
            /\ srv'[q].unix_listen_fd = srv[q].unix_listen_fd
            /\ srv'[q].unix_conn_fd = srv[q].unix_conn_fd /\ srv'[q].unix_conn = srv[q].unix_conn
  BY <1>2, SMT, Zenon, SMTT(30) DEF TypeOK, SrvState
<1>5. \A q \in Server, g \in Fd : ~(q = p /\ g = fd) => fdt'[q][g] = fdt[q][g]
  BY <1>2, <1>3, Zenon DEF TypeOK, CloseConn
<1>6. IdleOK'
  BY <1>2, <1>4, ZenonT(60) DEF IdleOK
<1>7. NumbersOK'
  <2>1. \A q \in Server : srv'[q].pc # "exit" => srv[q].pc # "exit"
    BY <1>2, <1>4, Zenon
  <2>2. \A q \in Server, g \in Fd :
           fdt[q][g] \in {UnixListen, UnixConn} => fdt'[q][g] = fdt[q][g]
    BY <1>3, <1>5, Names, SMT, Zenon, SMTT(30)
  <2>3. \A q \in Server, g \in Fd :
           /\ fdt[q][g] = UnixListen => fdt'[q][g] = UnixListen
           /\ fdt[q][g] = UnixConn => fdt'[q][g] = UnixConn
    BY <2>2, Zenon
  <2> QED BY <1>2, <1>4, <2>1, <2>3, NumbersKept, ZenonT(60)
<1>8. \A q \in Server, g \in Fd : ~(q = p /\ g = fd) /\ Attended(q, g) => Attended(q, g)'
  BY <1>1, <1>2, <1>4, Zenon DEF Attended
<1>9. NothingNew
  BY <1>2, Zenon DEF NothingNew
<1> QED BY <1>2, <1>3, <1>6, <1>7, <1>8, <1>9, CloseConnEInv, Zenon

\* After a read the session waits for EPOLLOUT with a reply to send, or its socket is
\* empty: an edge that was reported and is gone left nothing behind.
LEMMA HandleReadEInv ==
  ASSUME IInv, IInv', EInv, NEW p \in Server, NEW fe \in fired[p], HandleRead(p, fe)
  PROVE  EInv'
<1>1. TypeOK /\ IdleOK /\ NumbersOK /\ ArmedOK /\ NeverDeaf
  BY Zenon DEF IInv, EInv
<1>2. PICK fd : fd = fe.fd
  BY Zenon
<1>3. /\ fd \in Fd /\ fdt[p][fd] \in Conns /\ fd \in inet_conn_map[p]
      /\ ForNet(p, fe) /\ Handled(p, fe) /\ UNCHANGED <<srv, peer>>
      /\ conn[p][fd] \in Conn /\ peer[fdt[p][fd]] # "none"
  BY <1>2, ReadStep, Zenon
<1>4. PICK c \in Conns : c = fdt[p][fd]
  BY <1>3, Zenon
<1>5. PICK r : /\ ReadOutcome(conn[p][fd], rx[c], peer[c], r)
               /\ rx' = [rx EXCEPT ![c] = @ - r.nread]
               /\ \/ /\ r.rs = "kReadAll" /\ conn' = [conn EXCEPT ![p][fd] = r.conn]
                     /\ ep' = ModEvent(p, fd, "OUT") /\ UNCHANGED <<inet_conn_map, fdt>>
                  \/ /\ r.rs = "kReadHalf" /\ conn' = [conn EXCEPT ![p][fd] = r.conn]
                     /\ UNCHANGED <<inet_conn_map, ep, fdt>>
                  \/ CloseConn(p, fd)
  BY <1>2, <1>4, ReadStep, Zenon
<1>6. NothingNew
  BY <1>1, <1>3, <1>5, ReadTakes, Zenon DEF NothingNew
<1>7. CASE CloseConn(p, fd)
  BY <1>2, <1>3, <1>6, <1>7, NetCloseEInv, Zenon DEF NothingNew
<1>8. CASE conn' = [conn EXCEPT ![p][fd] = r.conn] /\ UNCHANGED <<inet_conn_map, fdt>>
  <2>1. /\ conn'[p][fd] = r.conn
        /\ \A q \in Server, g \in Fd : ~(q = p /\ g = fd) => conn'[q][g] = conn[q][g]
    BY <1>1, <1>3, <1>8, Zenon DEF TypeOK
  <2>2. IdleOK' /\ NumbersOK'
    BY <1>1, <1>3, <1>8, SameSrvNumbers, Zenon
  <2>3. \A q \in Server, g \in Fd : ~(q = p /\ g = fd) /\ Attended(q, g) => Attended(q, g)'
    BY <1>2, <1>3, AttendedKept, Zenon
  <2>4. ep[p][fd].file = c /\ ep[p][fd].mask = WantedMask(conn[p][fd])
    BY <1>1, <1>3, <1>4, NeverDeafIs, Zenon
  <2>5. CASE r.rs = "kReadAll" /\ ep' = ModEvent(p, fd, "OUT")
    <3>1. /\ ep'[p][fd] = [file |-> c, mask |-> "OUT", et |-> FALSE, armed |-> TRUE]
          /\ \A q \in Server, g \in Fd : ~(q = p /\ g = fd) => ep'[q][g] = ep[q][g]
      BY <1>1, <1>3, <2>4, <2>5, Zenon DEF TypeOK, ModEvent
    <3>2. WantedMask(conn'[p][fd]) = "OUT"
      BY <1>5, <2>1, <2>5, HotUpgradeAssumption, SMT, Zenon, SMTT(30)
         DEF ReadOutcome, WantedMask
    <3>3. /\ ep'[p][fd].file = c /\ ep'[p][fd].mask = "OUT" /\ ~ep'[p][fd].et
          /\ ep'[p][fd].armed
      BY <3>1, SMT, Zenon, SMTT(30)
    <3>4. ~Unheard(p, fd)'
      BY <3>3, Zenon DEF Unheard
    <3>5. OthersKept(p, fd)
      BY <1>8, <2>1, <2>3, <3>1, Zenon DEF OthersKept
    <3>6. HeardAt(p, fd)
      BY <1>4, <1>8, <3>2, <3>3, <3>4, Zenon DEF HeardAt
    <3> QED BY <1>6, <2>2, <3>5, <3>6, TouchedEInv, Zenon
  <2>6. CASE r.rs = "kReadHalf" /\ UNCHANGED ep
    <3>1. ~(rx'[c] > 0)
      BY <1>1, <1>5, <2>6, ReadTakes, Zenon
    <3>2. peer[c] # "up" => ~EmptyReadBuf(conn'[p][fd])
      <4>1. peer[c] # "up" => peer[c] = "fin"
        BY <1>1, <1>3, <1>4, <1>5, <2>6, Zenon DEF TypeOK, ReadOutcome
      <4> QED BY <1>3, <1>5, <2>1, <2>6, <4>1, SMT, Zenon, SMTT(30)
                 DEF ReadOutcome, EmptyReadBuf, Conn
    <3>3. WantedMask(conn'[p][fd]) = WantedMask(conn[p][fd])
      BY <1>5, <2>1, <2>6, Zenon DEF ReadOutcome, WantedMask
    <3>5. ~Unheard(p, fd)'
      BY <1>3, <1>4, <1>8, <3>1, <3>2, Zenon DEF Unheard
    <3>6. ep[p][fd].mask = "OUT" => ep[p][fd].armed /\ ~ep[p][fd].et
      BY <1>1, <1>3, Zenon DEF ArmedOK
    <3>7. OthersKept(p, fd)
      BY <1>8, <2>1, <2>3, <2>6, Zenon DEF OthersKept
    <3>8. HeardAt(p, fd)
      BY <1>4, <1>8, <2>4, <2>6, <3>3, <3>5, <3>6, Zenon DEF HeardAt
    <3> QED BY <1>6, <2>2, <3>7, <3>8, TouchedEInv, Zenon
  <2> QED BY <1>5, <1>7, <2>5, <2>6, Zenon
<1> QED BY <1>5, <1>7, <1>8, Zenon

\* After a write the session still owes part of the reply and waits for EPOLLOUT, or owes
\* nothing and is rearmed for EPOLLIN.
LEMMA HandleWriteEInv ==
  ASSUME IInv, IInv', EInv, NEW p \in Server, NEW fe \in fired[p], HandleWrite(p, fe)
  PROVE  EInv'
<1>1. TypeOK /\ IdleOK /\ NumbersOK /\ ArmedOK /\ NeverDeaf
  BY Zenon DEF IInv, EInv
<1>2. PICK fd : fd = fe.fd
  BY Zenon
<1>3. /\ fd \in Fd /\ fdt[p][fd] \in Conns /\ fd \in inet_conn_map[p]
      /\ ForNet(p, fe) /\ Handled(p, fe) /\ UNCHANGED <<srv, rx>>
      /\ conn[p][fd] \in Conn /\ conn[p][fd].last_write_pos <= conn[p][fd].reply
  BY <1>2, WriteStep, Zenon
<1>4. PICK c \in Conns : c = fdt[p][fd]
  BY <1>3, Zenon
<1>5. CASE CloseConn(p, fd) /\ UNCHANGED peer
  BY <1>2, <1>3, <1>5, NetCloseEInv, Zenon
<1>6. CASE WritesTo(p, fd, c)
  <2>1. /\ peer' = [peer EXCEPT ![c] = IF @ = "fin" THEN "rst" ELSE @]
        /\ UNCHANGED <<inet_conn_map, fdt>>
    BY <1>6, Zenon DEF WritesTo
  <2>2. PICK n, w :
          /\ n \in 1..Unsent(conn[p][fd]) /\ WriteOutcome(conn[p][fd], n, w)
          /\ conn' = [conn EXCEPT ![p][fd] = w.conn]
          /\ \/ w.ws = "kWriteAll" /\ ep' = ModEvent(p, fd, "IN")
             \/ w.ws # "kWriteAll" /\ UNCHANGED ep
    BY <1>6, Zenon DEF WritesTo
  <2>3. NothingNew
    BY <1>1, <1>3, <2>1, Zenon DEF TypeOK, NothingNew
  <2>4. /\ conn'[p][fd] = w.conn
        /\ \A q \in Server, g \in Fd : ~(q = p /\ g = fd) => conn'[q][g] = conn[q][g]
    BY <1>1, <1>3, <2>2, Zenon DEF TypeOK
  <2>5. IdleOK' /\ NumbersOK'
    BY <1>1, <1>3, <2>1, SameSrvNumbers, Zenon
  <2>6. \A q \in Server, g \in Fd : ~(q = p /\ g = fd) /\ Attended(q, g) => Attended(q, g)'
    BY <1>2, <1>3, AttendedKept, Zenon
  <2>7. ep[p][fd].file = c /\ ep[p][fd].mask = WantedMask(conn[p][fd])
    BY <1>1, <1>3, <1>4, NeverDeafIs, Zenon
  <2>8. conn[p][fd].reply > 0
    BY <1>3, <2>2, SMT, Zenon, SMTT(30) DEF Unsent, Conn
  <2>9. CASE w.ws = "kWriteAll" /\ ep' = ModEvent(p, fd, "IN")
    <3>1. /\ ep'[p][fd] = [file |-> c, mask |-> "IN", et |-> FALSE, armed |-> TRUE]
          /\ \A q \in Server, g \in Fd : ~(q = p /\ g = fd) => ep'[q][g] = ep[q][g]
      BY <1>1, <1>3, <2>7, <2>9, Zenon DEF TypeOK, ModEvent
    <3>2. WantedMask(conn'[p][fd]) = "IN"
      BY <2>2, <2>4, <2>9, SMT, Zenon, SMTT(30) DEF WriteOutcome, WantedMask
    <3>3. /\ ep'[p][fd].file = c /\ ep'[p][fd].mask = "IN" /\ ep'[p][fd].mask # "OUT"
          /\ ep'[p][fd].armed
      BY <3>1, SMT, Zenon, SMTT(30)
    <3>4. ~Unheard(p, fd)'
      BY <3>3, Zenon DEF Unheard
    <3>5. OthersKept(p, fd)
      BY <2>1, <2>4, <2>6, <3>1, Zenon DEF OthersKept
    <3>6. HeardAt(p, fd)
      BY <1>4, <2>1, <3>2, <3>3, <3>4, Zenon DEF HeardAt
    <3> QED BY <2>3, <2>5, <3>5, <3>6, TouchedEInv, Zenon
  <2>10. CASE w.ws # "kWriteAll" /\ UNCHANGED ep
    <3>1. /\ WantedMask(conn'[p][fd]) = WantedMask(conn[p][fd])
          /\ WantedMask(conn[p][fd]) = "OUT"
      BY <2>2, <2>4, <2>8, <2>10, Zenon DEF WriteOutcome, WantedMask
    <3>2. ep[p][fd].mask = "OUT" /\ ep[p][fd].armed /\ ~ep[p][fd].et
      BY <1>1, <1>3, <2>7, <3>1, Zenon DEF ArmedOK
    <3>3. ~Unheard(p, fd)'
      BY <2>10, <3>2, Zenon DEF Unheard
    <3>4. OthersKept(p, fd)
      BY <2>1, <2>4, <2>6, <2>10, Zenon DEF OthersKept
    <3>5. HeardAt(p, fd)
      BY <1>4, <2>1, <2>7, <2>10, <3>1, <3>2, <3>3, Zenon DEF HeardAt
    <3> QED BY <2>3, <2>5, <3>4, <3>5, TouchedEInv, Zenon
  <2> QED BY <2>2, <2>9, <2>10, Zenon
<1> QED BY <1>2, <1>4, <1>5, <1>6, WriteStep, Zenon

\* Every handler of an event of Poll preserves EInv.
LEMMA HandleEInv ==
  ASSUME IInv, IInv', EInv, NEW p \in Server, NEW fe \in fired[p], Handle(p, fe) PROVE EInv'
<1>1. CASE HandleInetListen(p, fe) \/ HandleUnixListen(p, fe)
  BY <1>1, HandleInetListenEInv, HandleUnixListenEInv, Zenon
<1>2. CASE HandleInetListenFails(p, fe) \/ HandleUnixListenFails(p, fe)
  BY <1>2, ExitEInv, Zenon DEF HandleInetListenFails, HandleUnixListenFails
<1>3. CASE HandleListenFdMsg(p, fe) \/ HandleSessionFdMsg(p, fe) \/ UnixConnClose(p, fe)
  BY <1>3, HandleListenFdMsgEInv, HandleSessionFdMsgEInv, UnixConnCloseEInv, Zenon
<1>4. CASE TransferSessionFd(p, fe)
  BY <1>4, TransferSessionFdEInv, Zenon
<1>5. CASE TransferSessionFdFails(p, fe) \/ HandleNetError(p, fe)
  <2>1. /\ ForNet(p, fe) /\ Handled(p, fe) /\ CloseConn(p, fe.fd)
        /\ UNCHANGED <<srv, peer>> /\ rx' = rx
    BY <1>5, Zenon DEF TransferSessionFdFails, Transferable, HandleNetError
  <2> QED BY <2>1, NetCloseEInv, Zenon
<1>6. CASE HandleRead(p, fe) \/ HandleWrite(p, fe)
  BY <1>6, HandleReadEInv, HandleWriteEInv, Zenon
<1> QED BY <1>1, <1>2, <1>3, <1>4, <1>5, <1>6, Zenon DEF Handle

\* A step that changes no table of a server or of the kernel preserves EInv.
LEMMA SameEInv ==
  ASSUME EInv, UNCHANGED <<procs, kernel>> PROVE EInv'
<1>1. UNCHANGED <<srv, inet_conn_map, conn, fired, fdt, ep, rx, peer>>
  BY Zenon DEF procs, kernel
<1>2. IdleOK' /\ NumbersOK' /\ ArmedOK'
  BY <1>1, ZenonT(60) DEF EInv, IdleOK, NumbersOK, ArmedOK
<1>3. NeverDeaf'
  BY <1>1, SMT, Zenon, SMTT(30) DEF EInv, NeverDeaf
<1> QED BY <1>2, <1>3, Zenon DEF EInv

\* Given IInv, every step preserves EInv: with or without crashes.
LEMMA NextEInv == ASSUME IInv, IInv', EInv, [Next]_vars PROVE EInv'
<1>1. CASE StartNew
  BY <1>1, StartNewEInv, Zenon
<1>2. CASE CreateTrigger \/ UNCHANGED vars
  BY <1>2, SameEInv, Zenon DEF CreateTrigger, vars, procs, kernel
<1>3. CASE KillNew \/ StopOld
  BY <1>3, ExitEInv, Names, Zenon DEF KillNew, StopOld
<1>4. ASSUME NEW p \in Server, ServerNext(p) PROVE EInv'
  <2>1. CASE MeetNew(p) \/ TransferListenFd(p) \/ FinishListenFd(p)
    BY <2>1, MeetNewEInv, TransferListenFdEInv, FinishListenFdEInv, Zenon
  <2>2. CASE MeetNewFails(p)
    BY <2>2, ExitEInv, Zenon DEF MeetNewFails
  <2>3. CASE Poll(p) \/ CloseTransferred(p)
    BY <2>3, PollEInv, CloseTransferredEInv, Zenon
  <2>4. CASE \E fe \in fired[p] : Handle(p, fe)
    BY <2>4, HandleEInv, Zenon
  <2> QED BY <1>4, <2>1, <2>2, <2>3, <2>4, Zenon DEF ServerNext
<1>5. ASSUME NEW k \in Clients, ClientNext(k) \/ KillClient(k) PROVE EInv'
  BY <1>5, ClientEInv, Zenon
<1> QED BY <1>1, <1>2, <1>3, <1>4, <1>5, Zenon DEF Next, Quiet

\* At the start no session is open and only Old listens.
LEMMA InitEInv == ASSUME Init PROVE EInv
<1>1. /\ \A p \in Server : /\ srv[p].session_fd = NoFd /\ srv[p].unix_listen_fd = NoFd
                           /\ ~srv[p].unix_conn /\ inet_conn_map[p] = {}
      /\ \A p \in Server, fd \in Fd : ep[p][fd].mask # "OUT"
  BY Zenon DEF Init, NoWatch
<1>2. IdleOK /\ NumbersOK /\ ArmedOK
  BY <1>1, Zenon DEF IdleOK, NumbersOK, ArmedOK
<1>3. NeverDeaf
  BY <1>1, Zenon DEF NeverDeaf
<1> QED BY <1>2, <1>3, Zenon DEF EInv
=============================================================================

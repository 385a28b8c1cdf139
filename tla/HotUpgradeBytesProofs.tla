----------------------- MODULE HotUpgradeBytesProofs ------------------------
(***************************************************************************)
(* Every step preserves BInv: what a client has written and not yet read   *)
(* back is in the socket or in one object, one lemma per action.  It       *)
(* follows that the servers implement EchoService, step by step.           *)
(***************************************************************************)
EXTENDS HotUpgradeInvProofs

\* ConnOf as a function of the tables it looks at.
BusyIn(m, f, b, c) ==
    {x \in {b[p][fd] : p \in Server, fd \in Fd} :
       /\ x # NewConn
       /\ \E p \in Server, fd \in Fd : (fd \in m[p] /\ f[p][fd] = c) /\ x = b[p][fd]}

\* Some element of S, or an object without work.
AnyOf(S) == IF S = {} THEN NewConn ELSE CHOOSE x \in S : TRUE

\* The object that has work in progress for c.
ConnIn(m, f, b, c) == AnyOf(BusyIn(m, f, b, c))

\* ConnOf looks at inet_conn_map, at the descriptors and at the connection objects.
LEMMA ConnOfIs ==
  \A c : /\ ConnOf(c) = ConnIn(inet_conn_map, fdt, conn, c)
         /\ ConnOf(c)' = ConnIn(inet_conn_map', fdt', conn', c)
BY SMT, Zenon, SMTT(30) DEF ConnOf, ConnIn, BusyIn, AnyOf, Holds

\* AnyOf takes a member if there is one.
LEMMA AnyOfIs == ASSUME NEW S PROVE AnyOf(S) \in S \/ (S = {} /\ AnyOf(S) = NewConn)
<1>1. CASE S = {}
  BY <1>1, Zenon DEF AnyOf
<1>2. CASE S # {}
  BY <1>2, Zenon DEF AnyOf
<1> QED BY <1>1, <1>2, Zenon

\* Who is busy with c.
LEMMA BusyInIs ==
  ASSUME NEW m, NEW f, NEW b, NEW c
  PROVE  \A x : x \in BusyIn(m, f, b, c) <=>
            /\ x # NewConn
            /\ \E p \in Server, fd \in Fd : fd \in m[p] /\ f[p][fd] = c /\ x = b[p][fd]
BY SMT, Zenon, SMTT(30) DEF BusyIn

\* Descriptor fd of p is c, and whoever else has c is idle.
Reader(m, f, b, c, p, fd) ==
    /\ fd \in m[p] /\ f[p][fd] = c
    /\ \A q \in Server, g \in Fd :
          g \in m[q] /\ f[q][g] = c => (q = p /\ g = fd) \/ b[q][g] = NewConn

\* A name for an equation, so that a lemma can conclude it.
IsConnIn(m, f, b, c, x) == ConnIn(m, f, b, c) = x

\* The object with work in progress is that of the reader.
LEMMA ConnInHolder ==
  ASSUME NEW m, NEW f, NEW b, NEW c, NEW p \in Server, NEW fd \in Fd,
         Reader(m, f, b, c, p, fd)
  PROVE  IsConnIn(m, f, b, c, b[p][fd])
<1>1. PICK S : S = BusyIn(m, f, b, c)
  BY Zenon
<1>2. \A x \in S : x = b[p][fd]
  BY <1>1, BusyInIs, SMT, Zenon, SMTT(30) DEF Reader
<1>3. b[p][fd] # NewConn => b[p][fd] \in S
  BY <1>1, BusyInIs, Zenon DEF Reader
<1>4. S = {} => b[p][fd] = NewConn
  BY <1>3, Zenon
<1> QED BY <1>1, <1>2, <1>4, AnyOfIs, Zenon DEF ConnIn, IsConnIn

\* The same of ConnOf.
LEMMA ReaderConn ==
  ASSUME NEW c, NEW p \in Server, NEW fd \in Fd
  PROVE  /\ Reader(inet_conn_map, fdt, conn, c, p, fd) => ConnOf(c) = conn[p][fd]
         /\ Reader(inet_conn_map', fdt', conn', c, p, fd) => ConnOf(c)' = conn'[p][fd]
<1>1. Reader(inet_conn_map, fdt, conn, c, p, fd) =>
         IsConnIn(inet_conn_map, fdt, conn, c, conn[p][fd])
  BY ConnInHolder, Zenon
<1>2. Reader(inet_conn_map', fdt', conn', c, p, fd) =>
         IsConnIn(inet_conn_map', fdt', conn', c, conn'[p][fd])
  BY ConnInHolder, Zenon
<1> QED BY <1>1, <1>2, ConnOfIs, Zenon DEF IsConnIn

\* Idle holders do not matter: a session that enters or leaves a process idle has the same
\* work in progress.
LEMMA ConnInSame ==
  ASSUME NEW m, NEW f, NEW b, NEW n, NEW g, NEW d, NEW c,
         \A p \in Server, fd \in Fd :
            fd \in m[p] /\ f[p][fd] = c /\ b[p][fd] # NewConn =>
            fd \in n[p] /\ g[p][fd] = c /\ d[p][fd] = b[p][fd],
         \A p \in Server, fd \in Fd :
            fd \in n[p] /\ g[p][fd] = c /\ d[p][fd] # NewConn =>
            fd \in m[p] /\ f[p][fd] = c /\ d[p][fd] = b[p][fd]
  PROVE  ConnIn(m, f, b, c) = ConnIn(n, g, d, c)
<1>1. PICK S, T : S = BusyIn(m, f, b, c) /\ T = BusyIn(n, g, d, c)
  BY Zenon
<1>2. \A x \in S : x \in T
  BY <1>1, BusyInIs, SMT, Zenon, SMTT(30)
<1>3. \A x \in T : x \in S
  BY <1>1, BusyInIs, SMT, Zenon, SMTT(30)
<1>4. S = T
  BY <1>2, <1>3, Zenon
<1> QED BY <1>1, <1>4, Zenon DEF ConnIn

\* The object is one: its positions are numbers and it has sent no more than the reply.
LEMMA ConnOfType ==
  ASSUME TypeOK, NEW c
  PROVE  ConnOf(c) \in Conn /\ ConnOf(c).last_read_pos \in Nat /\ Unsent(ConnOf(c)) \in Nat
<1>1. NewConn \in Conn /\ NewConn.last_write_pos <= NewConn.reply
  BY SMT, Zenon, SMTT(30) DEF NewConn, Conn
<1>2. \A p \in Server, fd \in Fd :
         conn[p][fd] \in Conn /\ conn[p][fd].last_write_pos <= conn[p][fd].reply
  BY SMT, Zenon, SMTT(30) DEF TypeOK
<1>3. ConnOf(c) = NewConn \/ \E p \in Server, fd \in Fd : ConnOf(c) = conn[p][fd]
  <2>1. ConnOf(c) = AnyOf(BusyIn(inet_conn_map, fdt, conn, c))
    BY ConnOfIs, Zenon DEF ConnIn
  <2>2. CASE ConnOf(c) \in BusyIn(inet_conn_map, fdt, conn, c)
    BY <2>2, BusyInIs, SMT, Zenon, SMTT(30)
  <2> QED BY <2>1, <2>2, AnyOfIs, Zenon
<1>4. ConnOf(c) \in Conn /\ ConnOf(c).last_write_pos <= ConnOf(c).reply
  BY <1>1, <1>2, <1>3, Zenon
<1> QED BY <1>4, SMT, Zenon, SMTT(30) DEF Conn, Unsent

\* The holder that reads or writes is the only one with work in progress.
LEMMA OthersIdle ==
  ASSUME IInv, NEW p \in Server, srv[p].pc = "loop", NEW fd \in Fd, NEW c \in Conns,
         fd \in inet_conn_map[p], fdt[p][fd] = c
  PROVE  \A q \in Server, g \in Fd :
            g \in inet_conn_map[q] /\ fdt[q][g] = c =>
            (q = p /\ g = fd) \/ conn[q][g] = NewConn
<1> SUFFICES ASSUME NEW q \in Server, NEW g \in Fd, g \in inet_conn_map[q], fdt[q][g] = c
             PROVE  (q = p /\ g = fd) \/ conn[q][g] = NewConn
  BY Zenon
<1>1. OneReader /\ Holds(p, fd, c) /\ Holds(q, g, c)
  BY Zenon DEF IInv, Holds
<1>2. CASE q = p
  BY <1>1, <1>2, Zenon DEF OneReader
<1>3. CASE p = Old /\ q = New
  <2>1. srv[Old].pc = "reply_session"
    BY <1>1, <1>3, Zenon DEF OneReader, HandingOver
  <2> QED BY <1>3, <2>1, Zenon
<1>4. CASE p = New /\ q = Old
  BY <1>1, <1>4, Zenon DEF OneReader
<1> QED BY <1>2, <1>3, <1>4, Names, Zenon

\* The step changes the descriptor table only at number fd of p.
FdtOnlyAt(p, fd) ==
    \A q \in Server, g \in Fd : ~(q = p /\ g = fd) => fdt'[q][g] = fdt[q][g]

\* The same for the connection objects and the map.
ConnOnlyAt(p, fd) ==
    \A q \in Server, g \in Fd : ~(q = p /\ g = fd) =>
        /\ conn'[q][g] = conn[q][g]
        /\ g \in inet_conn_map'[q] <=> g \in inet_conn_map[q]

\* A step that touches one descriptor of p, and there only sessions without work in
\* progress or that are served no more, keeps the accounts.
LEMMA MovesBInv ==
  ASSUME IInv, BInv, UNCHANGED cl, NEW p \in Server, srv[p].pc # "exit", NEW fd,
         \A q \in Server : srv'[q].pc = "exit" <=> srv[q].pc = "exit",
         FdtOnlyAt(p, fd), ConnOnlyAt(p, fd),
         fd \in Fd /\ fdt'[p][fd] \in Conns => fd \in inet_conn_map'[p],
         \A c \in Conns : peer'[c] = "none" =>
            peer[c] = "none" /\ rx'[c] = rx[c] /\ tx'[c] = tx[c],
         \A c \in Conns : Served(c)' =>
            /\ Served(c) /\ rx'[c] = rx[c] /\ tx'[c] = tx[c]
            /\ fd \in inet_conn_map[p] /\ fdt[p][fd] = c /\ fd \in Fd => conn[p][fd] = NewConn
            /\ fdt'[p][fd] = c /\ fd \in Fd => conn'[p][fd] = NewConn
  PROVE  BInv'
<1>0. \A q \in Server, g \in Fd : ~(q = p /\ g = fd) =>
         /\ fdt'[q][g] = fdt[q][g] /\ conn'[q][g] = conn[q][g]
         /\ g \in inet_conn_map'[q] <=> g \in inet_conn_map[q]
  BY Zenon DEF FdtOnlyAt, ConnOnlyAt
<1>1. ClientsOK' /\ FreshOK'
  BY Zenon DEF BInv, ClientsOK, FreshOK
<1>2. ExitedOK'
  <2> SUFFICES ASSUME NEW q \in Server, srv'[q].pc = "exit", NEW g \in Fd
               PROVE  fdt'[q][g] = NoFile
    BY Zenon DEF ExitedOK
  <2>1. srv[q].pc = "exit" /\ q # p
    BY ZenonT(60)
  <2> QED BY <1>0, <2>1, ZenonT(60) DEF BInv, ExitedOK
<1>3. MapOK'
  <2> SUFFICES ASSUME NEW q \in Server, NEW g \in Fd, fdt'[q][g] \in Conns
               PROVE  g \in inet_conn_map'[q]
    BY Zenon DEF MapOK
  <2>1. CASE q = p /\ g = fd
    BY <2>1, Zenon
  <2>2. CASE ~(q = p /\ g = fd)
    BY <1>0, <2>2, Zenon DEF BInv, MapOK
  <2> QED BY <2>1, <2>2, Zenon
<1>4. ASSUME NEW c \in Conns, Served(c)'
      PROVE  Served(c) /\ Request(c)' = Request(c) /\ Reply(c)' = Reply(c)
  <2>1. \A q \in Server, g \in Fd :
           g \in inet_conn_map[q] /\ fdt[q][g] = c /\ conn[q][g] # NewConn =>
           g \in inet_conn_map'[q] /\ fdt'[q][g] = c /\ conn'[q][g] = conn[q][g]
    <3> SUFFICES ASSUME NEW q \in Server, NEW g \in Fd,
                        g \in inet_conn_map[q], fdt[q][g] = c, conn[q][g] # NewConn
                 PROVE  g \in inet_conn_map'[q] /\ fdt'[q][g] = c /\ conn'[q][g] = conn[q][g]
      BY Zenon
    <3>1. CASE q = p /\ g = fd
      BY <1>4, <3>1, Zenon
    <3>2. CASE ~(q = p /\ g = fd)
      BY <1>0, <3>2, Zenon
    <3> QED BY <3>1, <3>2, Zenon
  <2>2. \A q \in Server, g \in Fd :
           g \in inet_conn_map'[q] /\ fdt'[q][g] = c /\ conn'[q][g] # NewConn =>
           g \in inet_conn_map[q] /\ fdt[q][g] = c /\ conn'[q][g] = conn[q][g]
    <3> SUFFICES ASSUME NEW q \in Server, NEW g \in Fd,
                        g \in inet_conn_map'[q], fdt'[q][g] = c, conn'[q][g] # NewConn
                 PROVE  g \in inet_conn_map[q] /\ fdt[q][g] = c /\ conn'[q][g] = conn[q][g]
      BY Zenon
    <3>1. CASE q = p /\ g = fd
      BY <1>4, <3>1, Zenon
    <3>2. CASE ~(q = p /\ g = fd)
      BY <1>0, <3>2, Zenon
    <3> QED BY <3>1, <3>2, Zenon
  <2>3. ConnIn(inet_conn_map, fdt, conn, c) = ConnIn(inet_conn_map', fdt', conn', c)
    BY <2>1, <2>2, ConnInSame, SMT, Zenon, SMTT(30)
  <2>4. ConnOf(c)' = ConnOf(c)
    BY <2>3, ConnOfIs, Zenon
  <2> QED BY <1>4, <2>4, Zenon DEF Request, Reply
<1>5. Accounted'
  <2>1. \A k \in Clients : \A i \in DOMAIN ClientFds[k] : ClientFds[k][i] \in Conns
    BY HotUpgradeAssumption, SMT, Zenon, SMTT(30)
  <2> QED BY <1>4, <2>1, Zenon DEF BInv, Accounted
<1> QED BY <1>1, <1>2, <1>3, <1>5, Zenon DEF BInv

\* A step that touches no session keeps the accounts.
LEMMA QuietBInv ==
  ASSUME IInv, BInv, UNCHANGED <<inet_conn_map, conn, backlog, rx, tx, peer, cl>>,
         NEW p \in Server, srv[p].pc # "exit", srv'[p].pc # "exit", NEW fd,
         \A q \in Server : q # p => srv'[q] = srv[q],
         FdtOnlyAt(p, fd), fd \in Fd => fdt[p][fd] \notin Conns /\ fdt'[p][fd] \notin Conns
  PROVE  BInv'
<1>1. \A q \in Server : srv'[q].pc = "exit" <=> srv[q].pc = "exit"
  BY Zenon
<1>2. \A q \in Server, g \in Fd, c \in Conns : fdt'[q][g] = c <=> fdt[q][g] = c
  BY Zenon DEF FdtOnlyAt
<1>3. \A c \in Conns : Served(c)' => Served(c)
  <2>1. \A c \in Conns : Queued(c)' = Queued(c)
    BY Zenon DEF Queued
  <2>2. Old \in Server /\ New \in Server
    BY Names, Zenon
  <2> QED BY <1>1, <1>2, <2>1, <2>2, SMT, Zenon, SMTT(30) DEF Served
<1>4. fd \in Fd /\ fdt'[p][fd] \in Conns => fd \in inet_conn_map'[p]
  BY Zenon
<1>5. \A c \in Conns : Served(c)' =>
            /\ Served(c) /\ rx'[c] = rx[c] /\ tx'[c] = tx[c]
            /\ fd \in inet_conn_map[p] /\ fdt[p][fd] = c /\ fd \in Fd => conn[p][fd] = NewConn
            /\ fdt'[p][fd] = c /\ fd \in Fd => conn'[p][fd] = NewConn
  BY <1>3, Zenon
<1>6. ConnOnlyAt(p, fd)
  BY Zenon DEF ConnOnlyAt
<1> QED BY <1>1, <1>4, <1>5, <1>6, MovesBInv, Zenon

\* Starting New, meeting it, handing over the listening socket and polling touch no session.
LEMMA LoopBInv ==
  ASSUME IInv, IInv', BInv, NEW p \in Server,
         \/ p = New /\ StartNew
         \/ MeetNew(p) \/ TransferListenFd(p) \/ FinishListenFd(p) \/ Poll(p)
  PROVE  BInv'
<1>1. TypeOK /\ NoFile \notin Conns
  BY Names, Zenon DEF IInv
<1>2. CASE p = New /\ StartNew
  <2>1. PICK fd \in Fd :
           /\ fdt[p][fd] = NoFile /\ fdt' = [fdt EXCEPT ![p][fd] = UnixListen]
           /\ srv' = [srv EXCEPT ![p].pc = "loop", ![p].unix_listen_fd = fd]
    BY <1>2, Zenon DEF StartNew, UnixServerListen, LowestFree
  <2>2. /\ srv[p].pc = "down" /\ UNCHANGED <<inet_conn_map, conn, backlog, rx, tx, peer, cl>>
    BY <1>2, Zenon DEF StartNew
  <2>3. srv'[p].pc = "loop" /\ \A q \in Server : q # p => srv'[q] = srv[q]
    BY <1>1, <2>1, SMT, Zenon, SMTT(30) DEF TypeOK, SrvState
  <2>4. /\ fdt'[p][fd] = UnixListen
        /\ FdtOnlyAt(p, fd)
    BY <1>1, <2>1, Zenon DEF TypeOK, FdtOnlyAt
  <2>5. /\ srv[p].pc # "exit" /\ srv'[p].pc # "exit"
        /\ fdt[p][fd] \notin Conns /\ fdt'[p][fd] \notin Conns
    BY <1>1, <2>1, <2>2, <2>3, <2>4, Names, Zenon
  <2> QED BY <2>2, <2>3, <2>4, <2>5, QuietBInv, Zenon
<1>3. CASE MeetNew(p)
  <2>1. PICK fd \in Fd :
           /\ fdt[p][fd] = NoFile /\ fdt' = [fdt EXCEPT ![p][fd] = UnixClient]
           /\ srv' = [srv EXCEPT ![p].pc = "send_listen", ![p].unix_client = fd,
                                 ![p].unix_socket_init = TRUE]
    BY <1>3, Zenon DEF MeetNew, UnixClientConn, LowestFree
  <2>2. /\ srv[p].pc = "loop" /\ UNCHANGED <<inet_conn_map, conn, backlog, rx, tx, peer, cl>>
    BY <1>3, Zenon DEF MeetNew, AtTop
  <2>3. srv'[p].pc = "send_listen" /\ \A q \in Server : q # p => srv'[q] = srv[q]
    BY <1>1, <2>1, SMT, Zenon, SMTT(30) DEF TypeOK, SrvState
  <2>4. /\ fdt'[p][fd] = UnixClient
        /\ FdtOnlyAt(p, fd)
    BY <1>1, <2>1, Zenon DEF TypeOK, FdtOnlyAt
  <2>5. /\ srv[p].pc # "exit" /\ srv'[p].pc # "exit"
        /\ fdt[p][fd] \notin Conns /\ fdt'[p][fd] \notin Conns
    BY <1>1, <2>1, <2>2, <2>3, <2>4, Names, Zenon
  <2> QED BY <2>2, <2>3, <2>4, <2>5, QuietBInv, Zenon
<1>4. CASE TransferListenFd(p)
  <2>1. /\ srv[p].pc = "send_listen" /\ \E s \in {"reply_listen", "loop"} :
                                           srv' = [srv EXCEPT ![p].pc = s]
        /\ UNCHANGED <<inet_conn_map, conn, backlog, rx, tx, peer, cl, fdt>>
    BY <1>4, Zenon DEF TransferListenFd
  <2>2. srv'[p].pc # "exit" /\ \A q \in Server : q # p => srv'[q] = srv[q]
    BY <1>1, <2>1, SMT, Zenon, SMTT(30) DEF TypeOK, SrvState
  <2>3. srv[p].pc # "exit"
    BY <2>1, Zenon
  <2>4. FdtOnlyAt(p, NoFd)
    BY <2>1, Zenon DEF FdtOnlyAt
  <2> QED BY <2>1, <2>2, <2>3, <2>4, Names, QuietBInv, Zenon
<1>5. CASE FinishListenFd(p)
  <2>1. PICK fd : fd = srv[p].inet_listen_fd
    BY Zenon
  <2>2. /\ srv[p].pc = "reply_listen" /\ fdt' = [fdt EXCEPT ![p][fd] = NoFile]
        /\ srv' = [srv EXCEPT ![p].pc = "loop", ![p].inet_listen_fd = NoFd]
        /\ UNCHANGED <<inet_conn_map, conn, backlog, rx, tx, peer, cl>>
    BY <1>5, <2>1, Zenon DEF FinishListenFd, DetachInetListenFd
  <2>3. fd \in Fd /\ fdt[p][fd] \notin Conns
    <3>1. p = Old
      BY <2>2, Names, Zenon DEF IInv, RolesOK
    <3>2. srv[p].inet_listen_fd # NoFd /\ fdt[p][srv[p].inet_listen_fd] = InetListen
      BY <2>2, <3>1, Zenon DEF IInv, ListenOK
    <3> QED BY <1>1, <2>1, <3>2, SrvTypes, Names, Zenon
  <2>4. srv'[p].pc = "loop" /\ \A q \in Server : q # p => srv'[q] = srv[q]
    BY <1>1, <2>2, ZenonT(60) DEF TypeOK, SrvState
  <2>5. /\ fdt'[p][fd] = NoFile
        /\ FdtOnlyAt(p, fd)
    BY <1>1, <2>2, <2>3, Zenon DEF TypeOK, FdtOnlyAt
  <2>6. srv[p].pc # "exit" /\ srv'[p].pc # "exit" /\ fdt'[p][fd] \notin Conns
    BY <1>1, <2>2, <2>4, <2>5, Zenon
  <2> QED BY <2>2, <2>3, <2>4, <2>5, <2>6, QuietBInv, Zenon
<1>6. CASE Poll(p)
  <2>1. /\ srv[p].pc = "loop" /\ UNCHANGED <<srv, fdt>>
        /\ UNCHANGED <<inet_conn_map, conn, backlog, rx, tx, peer, cl>>
    BY <1>6, Zenon DEF Poll, AtTop
  <2>2. srv[p].pc # "exit"
    BY <2>1, Zenon
  <2>3. FdtOnlyAt(p, NoFd)
    BY <2>1, Zenon DEF FdtOnlyAt
  <2> QED BY <2>1, <2>2, <2>3, Names, QuietBInv, Zenon
<1> QED BY <1>2, <1>3, <1>4, <1>5, <1>6, Zenon

\* A session enters a process without work in progress.
LEMMA OpenBInv ==
  ASSUME IInv, BInv, NEW p \in Server, srv[p].pc = "loop", NEW fd \in Fd, NEW c \in Conns,
         OpenConn(p, fd, c), UNCHANGED <<srv, rx, tx, peer, cl>>,
         \A d \in Conns : Queued(d)' => Queued(d),
         srv[Old].pc = "exit" => Queued(c)
  PROVE  BInv'
<1>1. TypeOK /\ fdt[p][fd] = NoFile /\ NoFile \notin Conns /\ Old \in Server /\ New \in Server
  BY Names, Zenon DEF IInv, OpenConn, LowestFree
<1>2. /\ fdt'[p][fd] = c /\ conn'[p][fd] = NewConn /\ fd \in inet_conn_map'[p]
      /\ FdtOnlyAt(p, fd) /\ ConnOnlyAt(p, fd)
  BY <1>1, SMT, Zenon, SMTT(30) DEF TypeOK, OpenConn, FdtOnlyAt, ConnOnlyAt
<1>3. srv[p].pc # "exit"
  BY SMT, Zenon, SMTT(30)
<1>4. \A d \in Conns : Served(d)' => Served(d)
  <2>1. \A d \in Conns, g \in Fd : fdt'[New][g] = d => fdt[New][g] = d \/ d = c
    BY <1>1, <1>2, Zenon DEF FdtOnlyAt
  <2> QED BY <2>1, Zenon DEF Served
<1> QED BY <1>1, <1>2, <1>3, <1>4, MovesBInv, Zenon

\* accept() takes a connection from the backlog.
LEMMA HandleInetListenBInv ==
  ASSUME IInv, BInv, NEW p \in Server, NEW fe \in fired[p], HandleInetListen(p, fe)
  PROVE  BInv'
<1>1. /\ srv[p].pc = "loop" /\ backlog # <<>> /\ backlog' = Tail(backlog)
      /\ UNCHANGED <<srv, rx, tx, peer, cl>>
  BY Zenon DEF HandleInetListen, InetServerAccept, ForInetListen
<1>2. PICK fd \in Fd : OpenConn(p, fd, Head(backlog))
  BY Zenon DEF HandleInetListen
<1>3. Head(backlog) \in Conns /\ Queued(Head(backlog)) /\ \A d \in Conns : Queued(d)' => Queued(d)
  <2>1. backlog \in Seq(Conns)
    BY Zenon DEF IInv, TypeOK
  <2>2. /\ 1 \in DOMAIN backlog /\ Head(backlog) = backlog[1] /\ Head(backlog) \in Conns
        /\ \A i \in DOMAIN Tail(backlog) :
              i + 1 \in DOMAIN backlog /\ Tail(backlog)[i] = backlog[i + 1]
    BY <1>1, <2>1, TailOf, Zenon
  <2> QED BY <1>1, <2>2, Zenon DEF Queued
<1> QED BY <1>1, <1>2, <1>3, OpenBInv, Zenon

\* New receives a session: Old, which waits for the reply, is there.
LEMMA HandleSessionFdMsgBInv ==
  ASSUME IInv, BInv, NEW p \in Server, NEW fe \in fired[p], HandleSessionFdMsg(p, fe)
  PROVE  BInv'
<1>1. /\ ProcessRecv(p, fe) /\ srv[p].pc = "loop" /\ unix.msgs # <<>>
      /\ UNCHANGED <<srv, backlog, rx, tx, peer, cl>>
  BY Zenon DEF HandleSessionFdMsg, ProcessRecv, ForUnixConn
<1>2. Head(unix.msgs).file \in Conns
  BY <1>1, ProcessRecvFacts, SMT, Zenon, SMTT(30) DEF HandleSessionFdMsg, IInv, SessionOK
<1>3. PICK fd \in Fd : OpenConn(p, fd, Head(unix.msgs).file)
  BY Zenon DEF HandleSessionFdMsg
<1>4. srv[Old].pc # "exit"
  BY <1>1, Zenon DEF IInv, UnixOK
<1>5. \A d \in Conns : Queued(d)' => Queued(d)
  BY <1>1, Zenon DEF Queued
<1> QED BY <1>1, <1>2, <1>3, <1>4, <1>5, OpenBInv, Zenon

\* Accepting the UNIX connection, receiving the listening socket and sending a session
\* change no session.
LEMMA UnixBInv ==
  ASSUME IInv, BInv, NEW p \in Server, NEW fe \in fired[p],
         HandleUnixListen(p, fe) \/ HandleListenFdMsg(p, fe) \/ TransferSessionFd(p, fe)
  PROVE  BInv'
<1>1. TypeOK /\ NoFile \notin Conns /\ UnixConn \notin Conns /\ InetListen \notin Conns
  BY Names, Zenon DEF IInv
<1>2. CASE HandleUnixListen(p, fe)
  <2>1. PICK fd \in Fd :
           /\ fdt[p][fd] = NoFile /\ fdt' = [fdt EXCEPT ![p][fd] = UnixConn]
           /\ srv' = [srv EXCEPT ![p].unix_conn_fd = fd, ![p].unix_conn = TRUE]
    BY <1>2, Zenon DEF HandleUnixListen, UnixServerAccept, LowestFree
  <2>2. /\ srv[p].pc = "loop" /\ UNCHANGED <<inet_conn_map, conn, backlog, rx, tx, peer, cl>>
    BY <1>2, Zenon DEF HandleUnixListen, ForUnixListen
  <2>3. srv'[p].pc = srv[p].pc /\ \A q \in Server : q # p => srv'[q] = srv[q]
    BY <1>1, <2>1, SMT, Zenon, SMTT(30) DEF TypeOK, SrvState
  <2>4. fdt'[p][fd] = UnixConn /\ FdtOnlyAt(p, fd)
    BY <1>1, <2>1, Zenon DEF TypeOK, FdtOnlyAt
  <2>5. srv[p].pc # "exit" /\ srv'[p].pc # "exit"
    BY <2>2, <2>3, Zenon
  <2> QED BY <1>1, <2>1, <2>2, <2>3, <2>4, <2>5, QuietBInv, Zenon
<1>3. CASE HandleListenFdMsg(p, fe)
  <2>0. ProcessRecv(p, fe) /\ Head(unix.msgs).file = InetListen
    BY <1>3, ProcessRecvFacts, SMT, Zenon, SMTT(30) DEF HandleListenFdMsg
  <2>1. PICK fd \in Fd :
           /\ fdt[p][fd] = NoFile /\ fdt' = [fdt EXCEPT ![p][fd] = InetListen]
           /\ srv' = [srv EXCEPT ![p].inet_listen_fd = fd]
    BY <1>3, <2>0, Zenon DEF HandleListenFdMsg, AttachInetListenFd, LowestFree
  <2>2. /\ srv[p].pc = "loop" /\ UNCHANGED <<inet_conn_map, conn, backlog, rx, tx, peer, cl>>
    BY <1>3, Zenon DEF HandleListenFdMsg, ProcessRecv, ForUnixConn
  <2>3. srv'[p].pc = srv[p].pc /\ \A q \in Server : q # p => srv'[q] = srv[q]
    BY <1>1, <2>1, SMT, Zenon, SMTT(30) DEF TypeOK, SrvState
  <2>4. fdt'[p][fd] = InetListen /\ FdtOnlyAt(p, fd)
    BY <1>1, <2>1, Zenon DEF TypeOK, FdtOnlyAt
  <2>5. srv[p].pc # "exit" /\ srv'[p].pc # "exit"
    BY <2>2, <2>3, Zenon
  <2> QED BY <1>1, <2>1, <2>2, <2>3, <2>4, <2>5, QuietBInv, Zenon
<1>4. CASE TransferSessionFd(p, fe)
  <2>1. /\ srv[p].pc = "loop" /\ UNCHANGED <<inet_conn_map, conn, backlog, rx, tx, peer, cl>>
        /\ srv' = [srv EXCEPT ![p].pc = "reply_session", ![p].session_fd = fe.fd]
    BY <1>4, Zenon DEF TransferSessionFd, Transferable, ForNet
  <2>2. srv'[p].pc = "reply_session" /\ \A q \in Server : q # p => srv'[q] = srv[q]
    BY <1>1, <2>1, SMT, Zenon, SMTT(30) DEF TypeOK, SrvState
  <2>3. srv[p].pc # "exit" /\ srv'[p].pc # "exit"
    BY <2>1, <2>2, Zenon
  <2>4. FdtOnlyAt(p, NoFd)
    BY <1>4, Zenon DEF FdtOnlyAt, TransferSessionFd
  <2> QED BY <2>1, <2>2, <2>3, <2>4, Names, QuietBInv, Zenon
<1> QED BY <1>2, <1>3, <1>4, Zenon

\* After a crash the process that is left holds a session under one number, and what it
\* closes is nowhere else.
LEMMA ClosedForGood ==
  ASSUME IInv, BInv, ~AllRun, NEW p \in Server, srv[p].pc = "loop",
         \A q \in Server : srv'[q].pc = srv[q].pc, UNCHANGED backlog,
         NEW fd \in Fd, NEW c \in Conns, fdt[p][fd] = c, fdt'[p][fd] = NoFile,
         FdtOnlyAt(p, fd)
  PROVE  ~Served(c)'
<1>1. NoFile \notin Conns /\ Old \in Server /\ New \in Server /\ Server = {Old, New}
  BY Names, Zenon DEF Server
<1>2. srv[p].pc # "exit"
  BY SMT, Zenon, SMTT(30)
<1>3. CASE p = New
  <2>1. srv'[Old].pc = "exit"
    BY <1>1, <1>2, <1>3, Zenon DEF AllRun
  <2>2. ~Queued(c)'
    BY Zenon DEF Queued, IInv, BacklogOK, Referenced
  <2>3. ASSUME NEW g \in Fd, fdt'[New][g] = c PROVE FALSE
    <3>1. g # fd /\ fdt[New][g] = c
      BY <1>1, <1>3, <2>3, Zenon DEF FdtOnlyAt
    <3>2. Holds(New, g, c) /\ Holds(New, fd, c)
      BY <1>1, <1>3, <3>1, Zenon DEF Holds, BInv, MapOK
    <3> QED BY <1>1, <3>1, <3>2, Zenon DEF IInv, OneReader
  <2> QED BY <2>1, <2>2, <2>3, Zenon DEF Served
<1>4. CASE p = Old
  BY <1>1, <1>2, <1>4, Zenon DEF AllRun, Served
<1> QED BY <1>1, <1>3, <1>4, Zenon

\* Closing a session whose client is gone, or after a crash, keeps the accounts.
LEMMA ClosedBInv ==
  ASSUME IInv, KInv, BInv, NEW p \in Server, srv[p].pc = "loop",
         \A q \in Server : srv'[q].pc = srv[q].pc, UNCHANGED <<backlog, tx, peer, cl>>,
         NEW fd \in Fd, NEW c \in Conns, fdt[p][fd] = c, fdt'[p][fd] = NoFile,
         FdtOnlyAt(p, fd), ConnOnlyAt(p, fd),
         Kept => peer[c] # "up",
         \A d \in Conns : d # c => rx'[d] = rx[d]
  PROVE  BInv'
<1>1. NoFile \notin Conns /\ Old \in Server /\ New \in Server
  BY Names, Zenon
<1>2. srv[p].pc # "exit" /\ peer[c] # "none"
  BY Zenon DEF IInv, BacklogOK, Referenced
<1>3. ~Served(c)'
  <2>1. CASE AllRun
    BY <2>1, Zenon DEF KInv, Served
  <2>2. CASE ~AllRun
    BY <2>2, ClosedForGood, Zenon
  <2> QED BY <2>1, <2>2, Zenon
<1>4. \A d \in Conns : Served(d)' => Served(d) /\ d # c
  <2>1. \A d \in Conns, g \in Fd : fdt'[New][g] = d => fdt[New][g] = d
    BY <1>1, Zenon DEF FdtOnlyAt
  <2>2. \A d \in Conns : Queued(d)' = Queued(d)
    BY Zenon DEF Queued
  <2> QED BY <1>1, <1>3, <2>1, <2>2, ZenonT(60) DEF Served
<1>5. \A d \in Conns : Served(d)' =>
            /\ Served(d) /\ rx'[d] = rx[d] /\ tx'[d] = tx[d]
            /\ fd \in inet_conn_map[p] /\ fdt[p][fd] = d /\ fd \in Fd => conn[p][fd] = NewConn
            /\ fdt'[p][fd] = d /\ fd \in Fd => conn'[p][fd] = NewConn
  BY <1>1, <1>4, Zenon
<1>6. \A d \in Conns : peer'[d] = "none" =>
            peer[d] = "none" /\ rx'[d] = rx[d] /\ tx'[d] = tx[d]
  BY <1>2, Zenon
<1>7. \A q \in Server : srv'[q].pc = "exit" <=> srv[q].pc = "exit"
  BY Zenon
<1>8. fd \in Fd /\ fdt'[p][fd] \in Conns => fd \in inet_conn_map'[p]
  BY <1>1, Zenon
<1>9. UNCHANGED cl
  BY Zenon
<1> QED BY <1>2, <1>5, <1>6, <1>7, <1>8, <1>9, MovesBInv, ZenonT(60)

\* handle_net_event returns -1.
LEMMA NetCloseBInv ==
  ASSUME IInv, KInv, BInv, NEW p \in Server, NEW fe \in fired[p], ForNet(p, fe),
         CloseConn(p, fe.fd), UNCHANGED <<srv, backlog, tx, peer, cl>>,
         Kept => peer[fdt[p][fe.fd]] # "up",
         \A d \in Conns : d # fdt[p][fe.fd] => rx'[d] = rx[d]
  PROVE  BInv'
<1>1. TypeOK /\ fe.fd \in Fd /\ fdt[p][fe.fd] \in Conns /\ srv[p].pc = "loop"
  BY NetFile, Zenon DEF IInv, ForNet
<1>2. fdt'[p][fe.fd] = NoFile /\ FdtOnlyAt(p, fe.fd) /\ ConnOnlyAt(p, fe.fd)
  BY <1>1, Zenon DEF TypeOK, CloseConn, FdtOnlyAt, ConnOnlyAt
<1> QED BY <1>1, <1>2, ClosedBInv, Zenon

\* EPOLLHUP, and a session that could not be sent.
LEMMA NetErrorBInv ==
  ASSUME IInv, KInv, BInv, NEW p \in Server, NEW fe \in fired[p],
         HandleNetError(p, fe) \/ TransferSessionFdFails(p, fe)
  PROVE  BInv'
<1>1. /\ ForNet(p, fe) /\ CloseConn(p, fe.fd) /\ UNCHANGED <<srv, backlog, tx, peer, cl>>
      /\ \A d \in Conns : d # fdt[p][fe.fd] => rx'[d] = rx[d]
  BY Zenon DEF HandleNetError, TransferSessionFdFails, Transferable
<1>2. CASE HandleNetError(p, fe)
  <2>1. fe.fd \in inet_conn_map[p]
    BY <1>1, NetFile, Zenon DEF BInv, MapOK
  <2>2. Kept => peer[fdt[p][fe.fd]] = "rst"
    BY <1>2, <2>1, Zenon DEF HandleNetError, Kept, HupOK
  <2>3. Kept => peer[fdt[p][fe.fd]] # "up"
    BY <2>2, Zenon
  <2> QED BY <1>1, <2>3, NetCloseBInv, Zenon
<1>3. CASE TransferSessionFdFails(p, fe)
  BY <1>1, <1>3, TransferSessionFdFailsNever, NetCloseBInv, Zenon
<1> QED BY <1>2, <1>3, Zenon

\* handle_unix_event returns -1: unix_conn_fd is the UNIX socket, or after a crash maybe a
\* session that has got its number.
LEMMA UnixConnCloseBInv ==
  ASSUME IInv, KInv, BInv, NEW p \in Server, NEW fe \in fired[p], UnixConnClose(p, fe)
  PROVE  BInv'
<1>1. /\ TypeOK /\ fe.fd \in Fd /\ srv[p].pc = "loop" /\ NoFile \notin Conns
      /\ UNCHANGED <<inet_conn_map, conn, backlog, rx, tx, peer, cl>>
      /\ srv' = [srv EXCEPT ![p].unix_conn = FALSE]
      /\ fdt' = [fdt EXCEPT ![p][fe.fd] = NoFile]
  BY FiredFd, Names, Zenon DEF IInv, UnixConnClose, ForUnixConn
<1>2. \A q \in Server : /\ srv'[q].pc = srv[q].pc
                        /\ q # p => srv'[q] = srv[q]
  BY <1>1, ZenonT(60) DEF TypeOK, SrvState
<1>3. fdt'[p][fe.fd] = NoFile /\ FdtOnlyAt(p, fe.fd) /\ ConnOnlyAt(p, fe.fd)
  BY <1>1, Zenon DEF TypeOK, FdtOnlyAt, ConnOnlyAt
<1>4. CASE fdt[p][fe.fd] \in Conns
  BY <1>1, <1>2, <1>3, <1>4, UnixConnCloseNever, ClosedBInv, Zenon
<1>5. CASE fdt[p][fe.fd] \notin Conns
  <2>1. srv[p].pc # "exit" /\ srv'[p].pc # "exit"
    BY <1>1, <1>2, Zenon
  <2> QED BY <1>1, <1>2, <1>3, <1>5, <2>1, QuietBInv, Zenon
<1> QED BY <1>4, <1>5, Zenon

\* The session that leaves Old after the reply has no work in progress there.
LEMMA CloseTransferredBInv ==
  ASSUME IInv, BInv, NEW p \in Server, CloseTransferred(p) PROVE BInv'
<1>1. PICK fd : fd = srv[p].session_fd
  BY Zenon
<1>2. /\ TypeOK /\ p = Old /\ srv[p].pc = "reply_session" /\ NoFile \notin Conns
      /\ CloseConn(p, fd) /\ UNCHANGED <<backlog, rx, tx, peer, cl>>
      /\ srv' = [srv EXCEPT ![p].pc = "loop", ![p].session_fd = NoFd]
  BY <1>1, Names, Zenon DEF IInv, CloseTransferred, RolesOK
<1>3. fd \in Fd /\ conn[p][fd] = NewConn
  BY <1>1, <1>2, Zenon DEF IInv, TypeOK, SessionOK
<1>4. srv'[p].pc = "loop" /\ \A q \in Server : q # p => srv'[q] = srv[q]
  BY <1>2, SMT, Zenon, SMTT(30) DEF TypeOK, SrvState
<1>8. srv[p].pc # "exit" /\ srv'[p].pc # "exit"
  BY <1>2, <1>4, Zenon
<1>5. \A q \in Server : srv'[q].pc = "exit" <=> srv[q].pc = "exit"
  BY <1>4, <1>8, Zenon
<1>6. /\ fdt'[p][fd] = NoFile /\ conn'[p][fd] = NewConn
      /\ FdtOnlyAt(p, fd) /\ ConnOnlyAt(p, fd)
  BY <1>2, <1>3, Zenon DEF TypeOK, CloseConn, FdtOnlyAt, ConnOnlyAt
<1>7. \A c \in Conns : Served(c)' => Served(c)
  <2>1. \A c \in Conns, g \in Fd : fdt'[New][g] = c => fdt[New][g] = c
    BY <1>2, <1>6, Names, Zenon DEF FdtOnlyAt
  <2>2. \A c \in Conns : Queued(c)' = Queued(c)
    BY <1>2, Zenon DEF Queued
  <2> QED BY <1>2, <1>5, <2>1, <2>2, Names, ZenonT(60) DEF Served
<1> QED BY <1>2, <1>3, <1>5, <1>6, <1>7, <1>8, MovesBInv, Zenon

\* The accounts of session c when the process that has it reads or writes.
Settled(c, request, reply, request1, reply1) ==
    \A k \in Clients : \A i \in DOMAIN ClientFds[k] :
        ClientFds[k][i] = c /\ Tally(cl[k], i, request, reply) =>
        Tally(cl[k], i, request1, reply1)

\* A step of the reader of one session that settles its account keeps all of them.
LEMMA ReaderBInv ==
  ASSUME IInv, BInv, UNCHANGED <<srv, inet_conn_map, fdt, backlog, cl>>,
         NEW p \in Server, srv[p].pc = "loop", NEW fd \in Fd, NEW c \in Conns,
         fd \in inet_conn_map[p], fdt[p][fd] = c, ConnOnlyAt(p, fd),
         \A d \in Conns : d # c => rx'[d] = rx[d] /\ tx'[d] = tx[d] /\ peer'[d] = peer[d],
         peer'[c] = "up" => peer[c] = "up", peer'[c] # "none",
         Settled(c, rx[c] + conn[p][fd].last_read_pos, Unsent(conn[p][fd]) + tx[c],
                 rx'[c] + conn'[p][fd].last_read_pos, Unsent(conn'[p][fd]) + tx'[c])
  PROVE  BInv'
<1>1. ClientsOK' /\ FreshOK' /\ ExitedOK' /\ MapOK'
  BY Zenon DEF BInv, ClientsOK, FreshOK, ExitedOK, MapOK
<1>2. \A d \in Conns : Served(d)' => Served(d)
  BY Zenon DEF Served, Queued
<1>3. ConnOf(c) = conn[p][fd] /\ ConnOf(c)' = conn'[p][fd]
  <2>1. \A q \in Server, g \in Fd :
           g \in inet_conn_map[q] /\ fdt[q][g] = c =>
           (q = p /\ g = fd) \/ conn[q][g] = NewConn
    BY OthersIdle, Zenon
  <2>2. \A q \in Server, g \in Fd :
           g \in inet_conn_map'[q] /\ fdt'[q][g] = c =>
           (q = p /\ g = fd) \/ conn'[q][g] = NewConn
    BY <2>1, SMT, Zenon, SMTT(30) DEF ConnOnlyAt
  <2>3. fd \in inet_conn_map'[p] /\ fdt'[p][fd] = c
    BY Zenon
  <2>4. Reader(inet_conn_map, fdt, conn, c, p, fd)
    BY <2>1, Zenon DEF Reader
  <2>5. Reader(inet_conn_map', fdt', conn', c, p, fd)
    BY <2>2, <2>3, Zenon DEF Reader
  <2> QED BY <2>4, <2>5, ReaderConn, ZenonT(60)
<1>4. \A d \in Conns : d # c => ConnOf(d)' = ConnOf(d)
  <2> SUFFICES ASSUME NEW d \in Conns, d # c PROVE ConnOf(d)' = ConnOf(d)
    BY Zenon
  <2>1. \A q \in Server, g \in Fd :
           g \in inet_conn_map[q] /\ fdt[q][g] = d =>
           g \in inet_conn_map'[q] /\ fdt'[q][g] = d /\ conn'[q][g] = conn[q][g]
    BY Zenon DEF ConnOnlyAt
  <2>2. \A q \in Server, g \in Fd :
           g \in inet_conn_map'[q] /\ fdt'[q][g] = d =>
           g \in inet_conn_map[q] /\ fdt[q][g] = d /\ conn'[q][g] = conn[q][g]
    BY Zenon DEF ConnOnlyAt
  <2>3. ConnIn(inet_conn_map, fdt, conn, d) = ConnIn(inet_conn_map', fdt', conn', d)
    BY <2>1, <2>2, ConnInSame, SMT, Zenon, SMTT(30)
  <2> QED BY <2>3, ConnOfIs, Zenon
<1>5. Accounted'
  <2> SUFFICES ASSUME NEW k \in Clients, NEW i \in DOMAIN ClientFds[k],
                      Served(ClientFds[k][i])'
               PROVE  Tally(cl[k], i, Request(ClientFds[k][i])', Reply(ClientFds[k][i])')
    BY Zenon DEF Accounted
  <2>1. ClientFds[k][i] \in Conns
    BY HotUpgradeAssumption, SMT, Zenon, SMTT(30)
  <2>2. Tally(cl[k], i, Request(ClientFds[k][i]), Reply(ClientFds[k][i]))
    BY <1>2, <2>1, Zenon DEF BInv, Accounted
  <2>3. CASE ClientFds[k][i] = c
    BY <1>3, <2>2, <2>3, Zenon DEF Settled, Request, Reply
  <2>4. CASE ClientFds[k][i] # c
    BY <1>4, <2>1, <2>2, <2>4, Zenon DEF Request, Reply
  <2> QED BY <2>3, <2>4, Zenon
<1> QED BY <1>1, <1>5, Zenon DEF BInv

\* A complete request that is read becomes a reply that is owed.
LEMMA RequestSettled ==
  ASSUME IInv, ClientsOK, NEW c, NEW request \in Nat, NEW reply \in Nat, request >= ReqLen
  PROVE  Settled(c, request, reply, request - ReqLen, MsgLen + reply)
<1> SUFFICES ASSUME NEW k \in Clients, NEW i \in DOMAIN ClientFds[k],
                    Tally(cl[k], i, request, reply)
             PROVE  Tally(cl[k], i, request - ReqLen, MsgLen + reply)
  BY Zenon DEF Settled
<1>1. ReqLen \in Nat \ {0} /\ MsgLen \in Nat \ {0}
  BY BufferAssumption, HotUpgradeAssumption, SMT, Zenon, SMTT(30) DEF ReqLen
<1>2. /\ cl[k].pc = "write" => cl[k].pos < ReqLen
      /\ cl[k].pos \in Nat
  BY ClientFacts, Zenon DEF ClientsOK, ClientState
<1> QED BY <1>1, <1>2, SMT, Zenon, SMTT(30) DEF Tally

\* GetRequest takes what it has read out of the socket, and a complete request out of
\* read_buf_.
LEMMA HandleReadBInv ==
  ASSUME IInv, KInv, BInv, NEW p \in Server, NEW fe \in fired[p], HandleRead(p, fe)
  PROVE  BInv'
<1>1. PICK fd : fd = fe.fd
  BY Zenon
<1>2. /\ TypeOK /\ fd \in Fd /\ fdt[p][fd] \in Conns /\ fd \in inet_conn_map[p]
      /\ ForNet(p, fe) /\ UNCHANGED <<srv, backlog, tx, peer, cl>> /\ srv[p].pc = "loop"
      /\ conn[p][fd] \in Conn /\ conn[p][fd].reply = 0 /\ conn[p][fd].last_write_pos = 0
      /\ peer[fdt[p][fd]] # "none"
  BY <1>1, ReadStep, ZenonT(60) DEF IInv, ForNet
<1>3. PICK c, b : c \in Conns /\ c = fdt[p][fd] /\ b = conn[p][fd]
  BY <1>2, Zenon
<1>4. PICK r : /\ ReadOutcome(b, rx[c], peer[c], r)
               /\ rx' = [rx EXCEPT ![c] = @ - r.nread]
               /\ \/ /\ r.rs = "kReadAll" /\ conn' = [conn EXCEPT ![p][fd] = r.conn]
                     /\ UNCHANGED <<inet_conn_map, fdt>>
                  \/ /\ r.rs = "kReadHalf" /\ conn' = [conn EXCEPT ![p][fd] = r.conn]
                     /\ UNCHANGED <<inet_conn_map, fdt>>
                  \/ CloseConn(p, fd) /\ peer[c] # "up"
  BY <1>1, <1>3, ReadStep, ZenonT(60)
<1>5. /\ rx'[c] = rx[c] - r.nread /\ rx[c] \in Nat /\ tx[c] \in Nat
      /\ \A d \in Conns : d # c => rx'[d] = rx[d]
  BY <1>2, <1>3, <1>4, Zenon DEF TypeOK
<1>6. CASE CloseConn(p, fd) /\ peer[c] # "up"
  BY <1>1, <1>2, <1>3, <1>5, <1>6, NetCloseBInv, Zenon
<1>7. CASE /\ r.rs = "kReadAll" \/ r.rs = "kReadHalf"
           /\ conn' = [conn EXCEPT ![p][fd] = r.conn] /\ UNCHANGED <<inet_conn_map, fdt>>
  <2>1. conn'[p][fd] = r.conn /\ ConnOnlyAt(p, fd)
    BY <1>2, <1>7, Zenon DEF TypeOK, ConnOnlyAt
  <2>2. ASSUME r.rs = "kReadAll"
        PROVE  /\ rx[c] + b.last_read_pos \in Nat /\ rx[c] + b.last_read_pos >= ReqLen
               /\ Unsent(b) + tx[c] \in Nat
               /\ rx'[c] + r.conn.last_read_pos = (rx[c] + b.last_read_pos) - ReqLen
               /\ Unsent(r.conn) + tx[c] = MsgLen + (Unsent(b) + tx[c])
    <3>1. /\ r.nread \in Nat /\ rx[c] - r.nread \in Nat
          /\ r.conn \in Conn /\ r.conn.last_read_pos = 0 /\ r.conn.last_write_pos = 0
          /\ r.conn.reply = MsgLen /\ b.last_read_pos + r.nread = ReqLen
      BY <1>4, <2>2, Zenon DEF ReadOutcome
    <3>2. Unsent(b) = 0 /\ Unsent(r.conn) = MsgLen
      BY <1>2, <1>3, <3>1, HotUpgradeAssumption, SMT, Zenon, SMTT(30) DEF Unsent
    <3>3. b.last_read_pos \in Nat /\ MsgLen \in Nat
      BY <1>2, <1>3, HotUpgradeAssumption, ZenonT(60) DEF Conn
    <3> QED BY <1>5, <3>1, <3>2, <3>3, SMT, Zenon, SMTT(30)
  <2>3. ASSUME r.rs = "kReadHalf"
        PROVE  /\ rx'[c] + r.conn.last_read_pos = rx[c] + b.last_read_pos
               /\ Unsent(r.conn) = Unsent(b)
    BY <1>2, <1>3, <1>4, <1>5, <2>3, SMT, Zenon, SMTT(30) DEF ReadOutcome, Unsent, Conn
  <2>4. Settled(c, rx[c] + b.last_read_pos, Unsent(b) + tx[c],
                rx'[c] + r.conn.last_read_pos, Unsent(r.conn) + tx'[c])
    <3>1. CASE r.rs = "kReadAll"
      <4>1. ClientsOK
        BY Zenon DEF BInv
      <4> QED BY <1>2, <2>2, <3>1, <4>1, RequestSettled, Zenon
    <3>2. CASE r.rs = "kReadHalf"
      BY <1>2, <2>3, <3>2, Zenon DEF Settled
    <3> QED BY <1>7, <3>1, <3>2, Zenon
  <2> QED BY <1>2, <1>3, <1>5, <1>7, <2>1, <2>4, ReaderBInv, Zenon
<1> QED BY <1>4, <1>6, <1>7, Zenon

\* What SendReply sends leaves the object and is on its way to the client.
LEMMA HandleWriteBInv ==
  ASSUME IInv, KInv, BInv, NEW p \in Server, NEW fe \in fired[p], HandleWrite(p, fe)
  PROVE  BInv'
<1>1. PICK fd : fd = fe.fd
  BY Zenon
<1>2. /\ TypeOK /\ fd \in Fd /\ fdt[p][fd] \in Conns /\ fd \in inet_conn_map[p]
      /\ ForNet(p, fe) /\ UNCHANGED <<srv, backlog, rx, cl>> /\ srv[p].pc = "loop"
      /\ conn[p][fd] \in Conn /\ conn[p][fd].last_write_pos <= conn[p][fd].reply
  BY <1>1, WriteStep, Zenon DEF IInv, ForNet
<1>3. PICK c, b : c \in Conns /\ c = fdt[p][fd] /\ b = conn[p][fd]
  BY <1>2, Zenon
<1>4. CASE peer[c] = "rst" /\ CloseConn(p, fd) /\ UNCHANGED <<tx, peer>>
  <2>1. peer[c] # "up"
    BY <1>4, Zenon
  <2> QED BY <1>1, <1>2, <1>3, <1>4, <2>1, NetCloseBInv, Zenon
<1>5. CASE WritesTo(p, fd, c)
  <2>1. PICK n, w :
          /\ n \in 1..Unsent(b) /\ WriteOutcome(b, n, w)
          /\ conn' = [conn EXCEPT ![p][fd] = w.conn]
          /\ tx' = [tx EXCEPT ![c] = @ + n]
    BY <1>3, <1>5, Zenon DEF WritesTo
  <2>2. /\ peer' = [peer EXCEPT ![c] = IF @ = "fin" THEN "rst" ELSE @]
        /\ UNCHANGED <<inet_conn_map, fdt>>
    BY <1>5, Zenon DEF WritesTo
  <2>3. conn'[p][fd] = w.conn /\ ConnOnlyAt(p, fd)
    BY <1>2, <2>1, <2>2, ZenonT(60) DEF TypeOK, ConnOnlyAt
  <2>4. /\ tx'[c] = tx[c] + n /\ tx[c] \in Nat /\ n \in Nat
        /\ Unsent(b) \in Nat /\ n <= Unsent(b)
        /\ \A d \in Conns : d # c => tx'[d] = tx[d] /\ peer'[d] = peer[d]
    BY <1>2, <1>3, <2>1, <2>2, SMT, Zenon, SMTT(30) DEF TypeOK, Unsent, Conn
  <2>5. peer[c] # "none"
    BY <1>2, <1>3, Zenon DEF IInv, BacklogOK, Referenced
  <2>6. (peer'[c] = "up" => peer[c] = "up") /\ peer'[c] # "none"
    BY <1>2, <2>2, <2>5, SMT, Zenon, SMTT(30) DEF TypeOK
  <2>7. /\ w.conn.last_read_pos = b.last_read_pos
        /\ Unsent(w.conn) + tx'[c] = Unsent(b) + tx[c]
    <3>1. Unsent(w.conn) = Unsent(b) - n /\ w.conn.last_read_pos = b.last_read_pos
      BY <2>1, Zenon DEF WriteOutcome
    <3> QED BY <2>4, <3>1, SMT, Zenon, SMTT(30)
  <2>8. Settled(c, rx[c] + b.last_read_pos, Unsent(b) + tx[c],
                rx'[c] + w.conn.last_read_pos, Unsent(w.conn) + tx'[c])
    BY <1>2, <2>7, Zenon DEF Settled
  <2>9. \A d \in Conns : d # c => rx'[d] = rx[d] /\ tx'[d] = tx[d] /\ peer'[d] = peer[d]
    BY <1>2, <2>4, Zenon
  <2> QED BY <1>2, <1>3, <2>2, <2>3, <2>6, <2>8, <2>9, ReaderBInv, ZenonT(60)
<1> QED BY <1>1, <1>3, <1>4, <1>5, WriteStep, Zenon

\* What a process takes with it when it ends is not served any more; what Old leaves to New
\* or in the backlog it had no work with.
LEMMA ExitBInv ==
  ASSUME IInv, BInv, NEW p \in Server, srv[p].pc = "loop", Exit(p) PROVE BInv'
<1>1. TypeOK /\ NoFile \notin Conns /\ Old \in Server /\ New \in Server /\ Old # New
  BY Names, Zenon DEF IInv
<1>2. /\ srv'[p].pc = "exit" /\ \A q \in Server : q # p => srv'[q] = srv[q]
  BY <1>1, Zenon DEF TypeOK, SrvState, Exit
<1>3. /\ inet_conn_map'[p] = {} /\ \A fd \in Fd : fdt'[p][fd] = NoFile
      /\ \A q \in Server : q # p =>
            /\ inet_conn_map'[q] = inet_conn_map[q] /\ fdt'[q] = fdt[q] /\ conn'[q] = conn[q]
  BY <1>1, Zenon DEF TypeOK, Exit
<1>4. UNCHANGED <<backlog, rx, tx, peer, cl>>
  BY Zenon DEF Exit
<1>5. ClientsOK' /\ FreshOK'
  BY <1>4, Zenon DEF BInv, ClientsOK, FreshOK
<1>6. ExitedOK' /\ MapOK'
  <2>1. ExitedOK /\ MapOK
    BY Zenon DEF BInv
  <2>2. ExitedOK'
    BY <1>2, <1>3, <2>1, SMT, Zenon, SMTT(30) DEF ExitedOK
  <2>3. MapOK'
    BY <1>1, <1>3, <2>1, Zenon DEF MapOK
  <2> QED BY <2>2, <2>3, Zenon
<1>7. ASSUME NEW c \in Conns, Served(c)' PROVE Served(c) /\ ConnOf(c)' = ConnOf(c)
  <2>1. p = Old
    BY <1>1, <1>2, <1>7, Names, Zenon DEF Served
  <2>2. srv[Old].pc # "exit" /\ srv[Old].pc # "reply_session"
    BY <2>1, Zenon
  <2>3. Served(c)
    BY <1>1, <1>2, <1>4, <1>7, <2>1, <2>2, Zenon DEF Served
  <2>4. (\E g \in Fd : fdt[New][g] = c) \/ Queued(c)
    <3>1. srv'[Old].pc = "exit"
      BY <1>2, <2>1, Zenon
    <3>2. (\E g \in Fd : fdt'[New][g] = c) \/ Queued(c)'
      BY <1>7, <3>1, Zenon DEF Served
    <3> QED BY <1>1, <1>3, <1>4, <2>1, <3>2, Zenon DEF Queued
  <2>5. \A g \in Fd : fdt[Old][g] # c
    <3>1. CASE Queued(c)
      BY <1>1, <3>1, Zenon DEF IInv, BacklogOK, Queued, Referenced
    <3>2. ASSUME NEW h \in Fd, fdt[New][h] = c, NEW g \in Fd, fdt[Old][g] = c PROVE FALSE
      <4>1. Holds(New, h, c) /\ Holds(Old, g, c)
        BY <1>1, <3>2, Zenon DEF Holds, BInv, MapOK
      <4> QED BY <2>2, <4>1, Zenon DEF IInv, OneReader, HandingOver
    <3> QED BY <2>4, <3>1, <3>2, Zenon
  <2>6. \A q \in Server, g \in Fd :
           g \in inet_conn_map[q] /\ fdt[q][g] = c =>
           g \in inet_conn_map'[q] /\ fdt'[q][g] = c /\ conn'[q][g] = conn[q][g]
    BY <1>3, <2>1, <2>5, Zenon
  <2>7. \A q \in Server, g \in Fd :
           g \in inet_conn_map'[q] /\ fdt'[q][g] = c =>
           g \in inet_conn_map[q] /\ fdt[q][g] = c /\ conn'[q][g] = conn[q][g]
    BY <1>3, Zenon
  <2>8. ConnIn(inet_conn_map, fdt, conn, c) = ConnIn(inet_conn_map', fdt', conn', c)
    BY <2>6, <2>7, ConnInSame, SMT, Zenon, SMTT(30)
  <2> QED BY <2>3, <2>8, ConnOfIs, Zenon
<1>8. Accounted'
  <2>1. \A k \in Clients : \A i \in DOMAIN ClientFds[k] : ClientFds[k][i] \in Conns
    BY HotUpgradeAssumption, SMT, Zenon, SMTT(30)
  <2> QED BY <1>4, <1>7, <2>1, Zenon DEF BInv, Accounted, Request, Reply
<1> QED BY <1>5, <1>6, <1>8, Zenon DEF BInv

\* The accounts of client k after its step.
OwnAccounts(k) ==
    \A j \in DOMAIN ClientFds[k] :
        Served(ClientFds[k][j])' =>
        Tally(cl'[k], j, rx'[ClientFds[k][j]] + ConnOf(ClientFds[k][j]).last_read_pos,
              Unsent(ConnOf(ClientFds[k][j])) + tx'[ClientFds[k][j]])

\* Connection c after a step that leaves it alone.
Untouched(c) == (Served(c)' => Served(c)) /\ rx'[c] = rx[c] /\ tx'[c] = tx[c]

\* Clients share no connection: the step of one that keeps its own accounts keeps all.
LEMMA ClientSettles ==
  ASSUME BInv, UNCHANGED <<srv, inet_conn_map, conn, fdt>>, NEW k \in Clients,
         \A l \in Clients : l # k =>
            cl'[l] = cl[l] /\ \A j \in DOMAIN ClientFds[l] : Untouched(ClientFds[l][j]),
         ClientsOK', FreshOK', OwnAccounts(k)
  PROVE  BInv'
<1>1. ExitedOK' /\ MapOK'
  BY Zenon DEF BInv, ExitedOK, MapOK
<1>2. \A c : ConnOf(c)' = ConnOf(c)
  BY ConnOfIs, Zenon
<1>3. Accounted'
  <2> SUFFICES ASSUME NEW l \in Clients, NEW j \in DOMAIN ClientFds[l],
                      Served(ClientFds[l][j])'
               PROVE  Tally(cl'[l], j, Request(ClientFds[l][j])', Reply(ClientFds[l][j])')
    BY Zenon DEF Accounted
  <2>1. CASE l = k
    BY <1>2, <2>1, Zenon DEF OwnAccounts, Request, Reply
  <2>2. CASE l # k
    <3>1. Tally(cl[l], j, Request(ClientFds[l][j]), Reply(ClientFds[l][j]))
      BY <2>2, Zenon DEF BInv, Accounted, Untouched
    <3> QED BY <1>2, <2>2, <3>1, Zenon DEF Untouched, Request, Reply
  <2> QED BY <2>1, <2>2, Zenon
<1> QED BY <1>1, <1>3, Zenon DEF BInv

\* A client that ends takes its connections with it.
LEMMA ClientEndsBInv ==
  ASSUME IInv, BInv, NEW k \in Clients, ClientEnds(k) PROVE BInv'
<1>1. /\ TypeOK /\ UNCHANGED <<srv, inet_conn_map, conn, fdt, backlog, rx, tx>>
      /\ cl' = [cl EXCEPT ![k].pc = "exit"]
  BY Zenon DEF IInv, ClientEnds, procs
<1>2. /\ cl'[k].pc = "exit" /\ \A l \in Clients : l # k => cl'[l] = cl[l]
  BY <1>1, Zenon DEF TypeOK, ClientState
<1>3. /\ \A c \in Conns : peer'[c] = "up" => peer[c] = "up"
      /\ \A c \in Conns : peer'[c] = "none" => peer[c] = "none"
      /\ \A j \in DOMAIN ClientFds[k] :
            ClientFds[k][j] \in Conns => peer'[ClientFds[k][j]] # "up"
  BY <1>1, Zenon DEF ClientEnds, TypeOK
<1>4. ClientsOK'
  BY <1>2, Zenon DEF BInv, ClientsOK
<1>5. FreshOK'
  BY <1>1, <1>3, Zenon DEF BInv, FreshOK
<1>6. \A c \in Conns : Untouched(c)
  BY <1>1, <1>3, Zenon DEF Untouched, Served, Queued
<1>7. \A l \in Clients : \A j \in DOMAIN ClientFds[l] : ClientFds[l][j] \in Conns
  BY OneOwner, Zenon
<1>8. OwnAccounts(k)
  BY <1>3, <1>7, Zenon DEF OwnAccounts, Served
<1> QED BY <1>1, <1>2, <1>4, <1>5, <1>6, <1>7, <1>8, ClientSettles, Zenon

\* With neither request nor reply under way, a client that waits for no reply is content.
LEMMA NothingOwed ==
  ASSUME NEW s \in ClientState, s.pos = 0, s.pc # "read", NEW i PROVE Tally(s, i, 0, 0)
BY Zenon DEF Tally, ClientState

\* A connection nobody refers to has no object.
LEMMA NoObject ==
  ASSUME NEW c, \A p \in Server, fd \in Fd : fdt[p][fd] # c PROVE ConnOf(c) = NewConn
<1>1. PICK S : S = BusyIn(inet_conn_map, fdt, conn, c)
  BY Zenon
<1>2. \A x : x \notin S
  BY <1>1, BusyInIs, SMT, Zenon, SMTT(30)
<1> QED BY <1>1, <1>2, AnyOfIs, ConnOfIs, Zenon DEF ConnIn

\* A new connection starts with nothing on it.
LEMMA ClientConnectBInv ==
  ASSUME IInv, BInv, NEW k \in Clients, ClientConnect(k) PROVE BInv'
<1>1. PICK c, i : c = CurConn(k) /\ i = cl[k].i
  BY Zenon
<1>2. /\ TypeOK /\ UNCHANGED <<srv, inet_conn_map, conn, fdt, rx, tx>> /\ cl[k].pc = "connect"
      /\ backlog' = Append(backlog, c) /\ peer' = [peer EXCEPT ![c] = "up"]
      /\ cl' = [cl EXCEPT ![k].i = NextIndex(k),
                          ![k].pc = IF NextIndex(k) = 1 THEN "write" ELSE @]
  BY <1>1, Zenon DEF IInv, ClientConnect, InetClientConn, procs
<1>3. /\ cl[k] \in ClientState /\ i \in DOMAIN ClientFds[k] /\ c \in Conns
      /\ c = ClientFds[k][i] /\ peer[c] = "none" /\ NextIndex(k) \in Nat
      /\ \A l \in Clients : \A j \in DOMAIN ClientFds[l] : ClientFds[l][j] \in Conns
  <2>1. peer[c] = "none"
    BY <1>1, <1>2, ClientFacts, SMT, Zenon, SMTT(30) DEF IInv, BacklogOK, CurConn
  <2> QED BY <1>1, <2>1, ClientFacts, ZenonT(60) DEF CurConn
<1>4. cl[k].pos = 0 /\ rx[c] = 0 /\ tx[c] = 0
  BY <1>2, <1>3, Zenon DEF BInv, ClientsOK, FreshOK
<1>5. /\ cl'[k].pc \in {"connect", "write"} /\ cl'[k].pos = 0 /\ cl'[k] \in ClientState
      /\ \A l \in Clients : l # k => cl'[l] = cl[l]
  <2>1. PICK x, n, s :
           /\ x \in {"connect", "write"} /\ n \in Nat
           /\ s = [cl[k] EXCEPT !.i = n, !.pc = x]
           /\ cl' = [cl EXCEPT ![k] = s]
    BY <1>2, <1>3, ZenonT(60) DEF TypeOK
  <2>2. s \in ClientState /\ s.pc = x /\ s.pos = cl[k].pos
    BY <1>3, <2>1, ZenonT(60) DEF ClientState
  <2>3. cl'[k] = s /\ \A l \in Clients : l # k => cl'[l] = cl[l]
    BY <1>2, <2>1, Zenon DEF TypeOK
  <2> QED BY <1>4, <2>1, <2>2, <2>3, Zenon
<1>6. ConnOf(c) = NewConn
  BY <1>3, NoObject, ZenonT(60) DEF IInv, BacklogOK, Referenced
<1>7. ClientsOK'
  <2>1. ReqLen > 0
    BY BufferAssumption, HotUpgradeAssumption, SMT, Zenon, SMTT(30) DEF ReqLen
  <2> QED BY <1>5, <2>1, Zenon DEF BInv, ClientsOK
<1>8. /\ \A d \in Conns : d # c => peer'[d] = peer[d]
      /\ peer'[c] = "up"
  BY <1>2, <1>3, Zenon DEF TypeOK
<1>9. FreshOK'
  BY <1>2, <1>4, <1>8, Zenon DEF BInv, FreshOK
<1>10. \A d \in Conns : d # c => Untouched(d)
  <2>1. \A d \in Conns : d # c /\ Queued(d)' => Queued(d)
    <3>1. backlog \in Seq(Conns)
      BY <1>2, Zenon DEF TypeOK
    <3>2. \A n \in DOMAIN backlog' :
             backlog'[n] = c \/ (n \in DOMAIN backlog /\ backlog'[n] = backlog[n])
      BY <1>2, <1>3, <3>1, AppendOf, SMT, Zenon, SMTT(30)
    <3> QED BY <3>2, Zenon DEF Queued
  <2> QED BY <1>2, <1>8, <2>1, Zenon DEF Untouched, Served
<1>11. \A l \in Clients : l # k => \A j \in DOMAIN ClientFds[l] : Untouched(ClientFds[l][j])
  BY <1>3, <1>10, OneOwner, Zenon
<1>12. OwnAccounts(k)
  <2> SUFFICES ASSUME NEW j \in DOMAIN ClientFds[k], NEW d, d = ClientFds[k][j], Served(d)'
               PROVE  Tally(cl'[k], j, rx'[d] + ConnOf(d).last_read_pos,
                            Unsent(ConnOf(d)) + tx'[d])
    BY Zenon DEF OwnAccounts
  <2>1. Tally(cl'[k], j, 0, 0)
    <3>1. cl'[k].pc # "read"
      BY <1>5, Zenon
    <3> QED BY <1>5, <3>1, NothingOwed, Zenon
  <2>2. rx'[d] + ConnOf(d).last_read_pos = 0 /\ Unsent(ConnOf(d)) + tx'[d] = 0
    <3>1. CASE j = i
      BY <1>2, <1>3, <1>4, <1>6, <3>1, SMT, Zenon, SMTT(30) DEF NewConn, Unsent
    <3>2. CASE j # i
      <4>1. d \in Conns /\ d # c
        BY <1>3, <3>2, OneOwner, ZenonT(60)
      <4>2. Tally(cl[k], j, Request(d), Reply(d))
        BY <1>10, <4>1, Zenon DEF BInv, Accounted, Untouched
      <4>3. Request(d) = 0 /\ Reply(d) = 0
        BY <1>1, <1>2, <3>2, <4>2, Zenon DEF Tally
      <4> QED BY <1>2, <4>3, Zenon DEF Request, Reply
    <3> QED BY <3>1, <3>2, Zenon
  <2> QED BY <2>1, <2>2, Zenon
<1> QED BY <1>2, <1>5, <1>7, <1>9, <1>11, <1>12, ClientSettles, Zenon

\* What the client writes is on its way to the server.
LEMMA ClientWriteBInv ==
  ASSUME IInv, BInv, NEW k \in Clients, ClientWrite(k) PROVE BInv'
<1>1. PICK c, i, pos : c = CurConn(k) /\ i = cl[k].i /\ pos = cl[k].pos
  BY Zenon
<1>2. /\ TypeOK /\ UNCHANGED <<srv, inet_conn_map, conn, fdt, backlog, tx, peer>>
      /\ cl[k].pc = "write" /\ Alive(c)
  BY <1>1, Zenon DEF IInv, ClientWrite, procs
<1>3. /\ cl[k] \in ClientState /\ i \in DOMAIN ClientFds[k] /\ c \in Conns
      /\ c = ClientFds[k][i]
      /\ \A l \in Clients : \A j \in DOMAIN ClientFds[l] : ClientFds[l][j] \in Conns
  BY <1>1, ClientFacts, ZenonT(60) DEF CurConn
<1>4. PICK n \in Nat : Wrote(k, c, n)
  BY <1>1, ClientWrites, Zenon
<1>5. ReqLen \in Nat \ {0} /\ pos \in Nat /\ n > 0
  <2>1. ReqLen \in Nat \ {0}
    BY BufferAssumption, HotUpgradeAssumption, SMT, Zenon, SMTT(30) DEF ReqLen
  <2> QED BY <1>1, <1>3, <1>4, <2>1, Zenon DEF ClientState, Wrote
<1>6. PICK s \in ClientState :
         /\ cl'[k] = s /\ s.i = i
         /\ \/ pos + n = ReqLen /\ s.pc = "read" /\ s.pos = 0
            \/ pos + n < ReqLen /\ s.pc = "write" /\ s.pos = pos + n
  BY <1>1, <1>4, Zenon DEF Wrote
<1>7. /\ \A l \in Clients : l # k => cl'[l] = cl[l]
      /\ rx'[c] = rx[c] + n /\ rx[c] \in Nat
      /\ \A d \in Conns : d # c => rx'[d] = rx[d]
  BY <1>2, <1>3, <1>4, <1>5, Zenon DEF TypeOK, Wrote
<1>8. ClientsOK'
  BY <1>5, <1>6, <1>7, Zenon DEF BInv, ClientsOK
<1>9. peer[c] # "none"
  <2>1. Referenced(c) \/ \E m \in DOMAIN backlog : backlog[m] = c
    BY <1>2, Zenon DEF Alive
  <2> QED BY <1>3, <2>1, ZenonT(60) DEF IInv, BacklogOK
<1>10. FreshOK'
  BY <1>2, <1>7, <1>9, Zenon DEF BInv, FreshOK
<1>11. \A d \in Conns : (Served(d)' => Served(d)) /\ (d # c => Untouched(d))
  BY <1>2, <1>7, Zenon DEF Untouched, Served, Queued
<1>12. \A l \in Clients : l # k => \A j \in DOMAIN ClientFds[l] : Untouched(ClientFds[l][j])
  BY <1>3, <1>11, OneOwner, Zenon
<1>13. OwnAccounts(k)
  <2> SUFFICES ASSUME NEW j \in DOMAIN ClientFds[k], NEW d, d = ClientFds[k][j], Served(d)'
               PROVE  Tally(s, j, rx'[d] + ConnOf(d).last_read_pos,
                            Unsent(ConnOf(d)) + tx'[d])
    BY <1>6, Zenon DEF OwnAccounts
  <2>1. d \in Conns /\ Tally(cl[k], j, Request(d), Reply(d))
    BY <1>3, <1>11, Zenon DEF BInv, Accounted
  <2>2. CASE j = i
    <3>1. Request(d) = pos /\ Reply(d) = 0 /\ d = c
      BY <1>1, <1>2, <1>3, <2>1, <2>2, Zenon DEF Tally
    <3>2. rx'[d] + ConnOf(d).last_read_pos = pos + n /\ Unsent(ConnOf(d)) + tx'[d] = 0
      <4>1. ConnOf(d).last_read_pos \in Nat
        BY <1>2, ConnOfType, Zenon
      <4> QED BY <1>2, <1>5, <1>7, <3>1, <4>1, SMT, Zenon, SMTT(30) DEF Request, Reply
    <3>3. Tally(s, j, pos + n, 0)
      BY <1>5, <1>6, <2>2, Zenon DEF Tally
    <3> QED BY <3>2, <3>3, Zenon
  <2>3. CASE j # i
    <3>1. Request(d) = 0 /\ Reply(d) = 0 /\ d # c
      <4>1. d # c
        BY <1>3, <2>3, OneOwner, Zenon
      <4> QED BY <1>1, <2>1, <2>3, <4>1, Zenon DEF Tally
    <3>2. rx'[d] + ConnOf(d).last_read_pos = 0 /\ Unsent(ConnOf(d)) + tx'[d] = 0
      BY <1>2, <1>7, <2>1, <3>1, Zenon DEF Request, Reply
    <3>3. Tally(s, j, 0, 0)
      BY <1>6, <2>3, Zenon DEF Tally
    <3> QED BY <3>2, <3>3, Zenon
  <2> QED BY <2>2, <2>3, Zenon
<1> QED BY <1>2, <1>7, <1>8, <1>10, <1>12, <1>13, ClientSettles, Zenon

\* What the client reads had been sent to it.
LEMMA ClientReadBInv ==
  ASSUME IInv, BInv, NEW k \in Clients, ClientRead(k) PROVE BInv'
<1>1. PICK c, i, pos, t : c = CurConn(k) /\ i = cl[k].i /\ pos = cl[k].pos /\ t = tx[c]
  BY Zenon
<1>2. /\ TypeOK /\ UNCHANGED <<srv, inet_conn_map, conn, fdt, backlog, rx, peer>>
      /\ cl[k].pc = "read" /\ t > 0 /\ tx' = [tx EXCEPT ![c] = 0]
  BY <1>1, Zenon DEF IInv, ClientRead, procs
<1>3. /\ cl[k] \in ClientState /\ i \in DOMAIN ClientFds[k] /\ c \in Conns
      /\ c = ClientFds[k][i]
      /\ \A l \in Clients : \A j \in DOMAIN ClientFds[l] : ClientFds[l][j] \in Conns
  BY <1>1, ClientFacts, ZenonT(60) DEF CurConn
<1>4. PICK s : s = cl'[k] /\ ReadBack(k, c)
  BY <1>1, ClientReads, Zenon
<1>5. MsgLen \in Nat \ {0} /\ pos \in Nat /\ t \in Nat
  BY <1>1, <1>2, <1>3, HotUpgradeAssumption, Zenon DEF TypeOK, ClientState
<1>6. \/ pos + t < MsgLen /\ s.pc = "read" /\ s.i = i /\ s.pos = pos + t
      \/ pos + t >= MsgLen /\ s.pc \in {"done", "write"} /\ s.pos = 0
  BY <1>1, <1>4, Zenon DEF ReadBack
<1>7. /\ cl'[k] = s /\ \A l \in Clients : l # k => cl'[l] = cl[l]
      /\ tx'[c] = 0 /\ \A d \in Conns : d # c => tx'[d] = tx[d]
  BY <1>1, <1>4, Zenon DEF ReadBack
<1>8. ClientsOK'
  <2>1. ReqLen > 0
    BY BufferAssumption, HotUpgradeAssumption, SMT, Zenon, SMTT(30) DEF ReqLen
  <2> QED BY <1>6, <1>7, <2>1, Zenon DEF BInv, ClientsOK
<1>9. FreshOK'
  <2>1. FreshOK
    BY Zenon DEF BInv
  <2> QED BY <1>1, <1>2, <1>7, <2>1, Zenon DEF FreshOK
<1>11. \A d \in Conns : (Served(d)' => Served(d)) /\ (d # c => Untouched(d))
  BY <1>2, <1>7, Zenon DEF Untouched, Served, Queued
<1>12. \A l \in Clients : l # k => \A j \in DOMAIN ClientFds[l] : Untouched(ClientFds[l][j])
  BY <1>3, <1>11, OneOwner, Zenon
<1>13. OwnAccounts(k)
  <2> SUFFICES ASSUME NEW j \in DOMAIN ClientFds[k], NEW d, d = ClientFds[k][j], Served(d)'
               PROVE  Tally(s, j, rx'[d] + ConnOf(d).last_read_pos,
                            Unsent(ConnOf(d)) + tx'[d])
    BY <1>7, Zenon DEF OwnAccounts
  <2>1. d \in Conns /\ Tally(cl[k], j, Request(d), Reply(d))
    BY <1>3, <1>11, Zenon DEF BInv, Accounted
  <2>2. CASE j = i
    <3>1. PICK u : u = Unsent(ConnOf(d))
      BY Zenon
    <3>2. u \in Nat /\ d = c
      BY <1>2, <1>3, <2>2, <3>1, ConnOfType, Zenon
    <3>3. Reply(d) = u + t
      BY <1>1, <3>1, <3>2, Zenon DEF Reply
    <3>4. Request(d) = 0 /\ (u + t) + pos = MsgLen
      BY <1>1, <1>2, <1>5, <2>1, <2>2, <3>2, <3>3, SMT, Zenon, SMTT(30) DEF Tally
    <3>5. rx'[d] + ConnOf(d).last_read_pos = 0 /\ Unsent(ConnOf(d)) + tx'[d] = u
      <4>1. rx'[d] + ConnOf(d).last_read_pos = Request(d)
        BY <1>2, Zenon DEF Request
      <4> QED BY <1>7, <3>1, <3>2, <3>4, <4>1, SMT, Zenon, SMTT(30)
    <3>6. Tally(s, j, 0, u)
      BY <1>5, <1>6, <2>2, <3>2, <3>4, SMT, Zenon, SMTT(30) DEF Tally
    <3> QED BY <3>5, <3>6, Zenon
  <2>3. CASE j # i
    <3>1. Request(d) = 0 /\ Reply(d) = 0 /\ d # c
      <4>1. d # c
        BY <1>3, <2>3, OneOwner, Zenon
      <4> QED BY <1>1, <2>1, <2>3, <4>1, Zenon DEF Tally
    <3>2. rx'[d] + ConnOf(d).last_read_pos = 0 /\ Unsent(ConnOf(d)) + tx'[d] = 0
      BY <1>2, <1>7, <2>1, <3>1, Zenon DEF Request, Reply
    <3>3. Tally(s, j, 0, 0)
      BY <1>6, <2>3, Zenon DEF Tally
    <3> QED BY <3>2, <3>3, Zenon
  <2> QED BY <2>2, <2>3, Zenon
<1> QED BY <1>2, <1>7, <1>8, <1>9, <1>12, <1>13, ClientSettles, Zenon

\* A step that leaves everything as it is, except for the trigger file.
LEMMA SameBInv == ASSUME BInv, UNCHANGED <<procs, kernel, cl>> PROVE BInv'
<1>1. UNCHANGED <<srv, inet_conn_map, conn, fdt, backlog, rx, tx, peer, cl>>
  BY Zenon DEF procs, kernel
<1>2. ClientsOK' /\ FreshOK' /\ ExitedOK' /\ MapOK'
  BY <1>1, Zenon DEF BInv, ClientsOK, FreshOK, ExitedOK, MapOK
<1>3. \A c : ConnOf(c)' = ConnOf(c) /\ Served(c)' = Served(c)
  BY <1>1, ConnOfIs, Zenon DEF Served, Queued
<1>4. Accounted'
  BY <1>1, <1>3, Zenon DEF BInv, Accounted, Request, Reply
<1> QED BY <1>2, <1>4, Zenon DEF BInv

\* Every handler of an event of Poll keeps the accounts.
LEMMA HandleBInv ==
  ASSUME IInv, KInv, BInv, NEW p \in Server, NEW fe \in fired[p], Handle(p, fe) PROVE BInv'
<1>1. CASE HandleInetListen(p, fe) \/ HandleSessionFdMsg(p, fe)
  BY <1>1, HandleInetListenBInv, HandleSessionFdMsgBInv, Zenon
<1>2. CASE HandleInetListenFails(p, fe) \/ HandleUnixListenFails(p, fe)
  BY <1>2, ExitBInv, Zenon DEF HandleInetListenFails, ForInetListen, HandleUnixListenFails,
                               ForUnixListen
<1>3. CASE HandleUnixListen(p, fe) \/ HandleListenFdMsg(p, fe) \/ TransferSessionFd(p, fe)
  BY <1>3, UnixBInv, Zenon
<1>4. CASE UnixConnClose(p, fe)
  BY <1>4, UnixConnCloseBInv, Zenon
<1>5. CASE TransferSessionFdFails(p, fe) \/ HandleNetError(p, fe)
  BY <1>5, NetErrorBInv, Zenon
<1>6. CASE HandleRead(p, fe) \/ HandleWrite(p, fe)
  BY <1>6, HandleReadBInv, HandleWriteBInv, Zenon
<1> QED BY <1>1, <1>2, <1>3, <1>4, <1>5, <1>6, Zenon DEF Handle

\* Given IInv and KInv, every step keeps the accounts.
LEMMA NextBInv == ASSUME IInv, IInv', KInv, BInv, [Next]_vars PROVE BInv'
<1>1. CASE StartNew
  BY <1>1, LoopBInv, Names, Zenon
<1>2. CASE CreateTrigger \/ UNCHANGED vars
  BY <1>2, SameBInv, Zenon DEF CreateTrigger, vars, procs, kernel
<1>3. CASE KillNew \/ StopOld
  BY <1>3, ExitBInv, Names, Zenon DEF KillNew, StopOld, AtTop
<1>4. ASSUME NEW p \in Server, ServerNext(p) PROVE BInv'
  <2>1. CASE MeetNew(p) \/ TransferListenFd(p) \/ FinishListenFd(p) \/ Poll(p)
    BY <2>1, LoopBInv, Zenon
  <2>2. CASE MeetNewFails(p)
    BY <2>2, ExitBInv, Zenon DEF MeetNewFails, AtTop
  <2>3. CASE CloseTransferred(p)
    BY <2>3, CloseTransferredBInv, Zenon
  <2>4. CASE \E fe \in fired[p] : Handle(p, fe)
    BY <2>4, HandleBInv, Zenon
  <2> QED BY <1>4, <2>1, <2>2, <2>3, <2>4, Zenon DEF ServerNext
<1>5. ASSUME NEW k \in Clients, ClientNext(k) \/ KillClient(k) PROVE BInv'
  <2>1. CASE ClientConnect(k) \/ ClientWrite(k) \/ ClientRead(k)
    BY <2>1, ClientConnectBInv, ClientWriteBInv, ClientReadBInv, Zenon
  <2>2. CASE ClientEnds(k)
    BY <2>2, ClientEndsBInv, Zenon
  <2> QED BY <1>2, <1>5, <2>1, <2>2, Zenon DEF ClientNext, ClientFails, ClientSpins, KillClient
<1> QED BY <1>1, <1>2, <1>3, <1>4, <1>5, Zenon DEF Next, Quiet

\* At the start no client is there.
LEMMA InitBInv == ASSUME Init PROVE BInv
<1>1. /\ \A k \in Clients : cl[k].pc = "connect" /\ cl[k].pos = 0
      /\ \A c \in Conns : peer[c] = "none" /\ rx[c] = 0 /\ tx[c] = 0
      /\ \A p \in Server : srv[p].pc \in {"loop", "down"}
      /\ \A p \in Server, fd \in Fd : fdt[p][fd] \notin Conns
  BY Names, Zenon DEF Init, InetServerListen
<1>2. ClientsOK /\ FreshOK /\ ExitedOK /\ MapOK
  BY <1>1, Zenon DEF ClientsOK, FreshOK, ExitedOK, MapOK
<1>3. Accounted
  <2>1. \A c \in Conns : ~Served(c)
    BY <1>1, Zenon DEF Served
  <2>2. \A k \in Clients : \A i \in DOMAIN ClientFds[k] : ClientFds[k][i] \in Conns
    BY OneOwner, Zenon
  <2> QED BY <2>1, <2>2, Zenon DEF Accounted
<1> QED BY <1>2, <1>3, Zenon DEF BInv

\* The accounts of what is served are those of what is alive.
LEMMA BytesAccountedIs == ASSUME IInv, BInv PROVE BytesAccounted
<1>1. ASSUME NEW c \in Conns, peer[c] = "up", Alive(c), srv[New].pc # "exit" PROVE Served(c)
  <2>1. CASE srv[Old].pc = "exit"
    <3>1. unix.msgs = <<>>
      BY <2>1, Zenon DEF IInv, UnixOK
    <3>2. ~InFlight(c)
      BY <3>1, SMT, Zenon, SMTT(30) DEF InFlight
    <3>3. \A fd \in Fd : fdt[Old][fd] # c
      BY <2>1, Names, Zenon DEF BInv, ExitedOK
    <3>4. (\E fd \in Fd : fdt[New][fd] = c) \/ Queued(c)
      BY <1>1, <3>2, <3>3, Names, Zenon DEF Alive, Referenced, Queued
    <3> QED BY <1>1, <3>4, Zenon DEF Served
  <2>2. CASE srv[Old].pc # "exit"
    BY <1>1, <2>2, Zenon DEF Served
  <2> QED BY <2>1, <2>2, Zenon
<1>2. ASSUME NEW k \in Clients, NEW i \in DOMAIN ClientFds[k], NEW c, c = ClientFds[k][i],
             peer[c] = "up", Alive(c), srv[New].pc # "exit"
      PROVE  Tally(cl[k], i, rx[c] + ConnOf(c).last_read_pos, Unsent(ConnOf(c)) + tx[c])
  <2>1. c \in Conns
    BY <1>2, OneOwner, Zenon
  <2> QED BY <1>1, <1>2, <2>1, Zenon DEF BInv, Accounted, Request, Reply
<1> QED BY <1>2, ZenonT(60) DEF BytesAccounted, Tally

-----------------------------------------------------------------------------
(***************************************************************************)
(* A hot upgrade is invisible: when nothing is killed, every step is a     *)
(* step of EchoService or changes nothing a client can see.                *)
(***************************************************************************)

\* Phase as a function of the states of the clients and of the bytes on their way to them.
PhaseIn(s, t, c) ==
    IF \E k \in Clients : s[k].pc = "read" /\ ClientFds[k][s[k].i] = c
                          /\ t[c] + s[k].pos < MsgLen
    THEN "asked"
    ELSE IF \E k \in Clients : s[k].pc = "read" /\ ClientFds[k][s[k].i] = c
    THEN "answered"
    ELSE "idle"

\* Likewise for a phase.
IsPhase(s, t, c, x) == PhaseIn(s, t, c) = x

\* Client l does not read from c, in state s[l].
NotReading(s, l, c) == s[l].pc = "read" => ClientFds[l][s[l].i] # c

\* One client owns a connection, and its phase is what that client waits for.
LEMMA PhaseReading ==
  ASSUME NEW s, NEW t, \A l \in Clients : s[l].i \in DOMAIN ClientFds[l],
         NEW k \in Clients, s[k].pc = "read", NEW c, c = ClientFds[k][s[k].i]
  PROVE  IsPhase(s, t, c, IF t[c] + s[k].pos < MsgLen THEN "asked" ELSE "answered")
<1>1. \A l \in Clients : ClientFds[l][s[l].i] = c => l = k
  <2> SUFFICES ASSUME NEW l \in Clients, ClientFds[l][s[l].i] = c PROVE l = k
    BY SMT, Zenon, SMTT(30)
  <2>1. PICK i \in DOMAIN ClientFds[k], j \in DOMAIN ClientFds[l] :
           ClientFds[k][i] = ClientFds[l][j]
    BY SMT, Zenon, SMTT(30)
  <2> QED BY <2>1, OneOwner, SMT, Zenon, SMTT(30)
<1> QED BY <1>1, Zenon DEF IsPhase, PhaseIn

\* When nobody reads from a connection it is idle.
LEMMA PhaseIdle ==
  ASSUME NEW s, NEW t, NEW c, \A l \in Clients : NotReading(s, l, c)
  PROVE  IsPhase(s, t, c, "idle")
BY Zenon DEF IsPhase, PhaseIn, NotReading

\* A connection on which nothing moves keeps its phase.
LEMMA PhaseSame ==
  ASSUME NEW c \in Conns, tx'[c] = tx[c],
         \A l \in Clients : cl'[l] = cl[l] \/ (NotReading(cl, l, c) /\ NotReading(cl', l, c))
  PROVE  Phase(c)' = Phase(c)
<1>1. \A l \in Clients :
         (cl'[l].pc = "read" /\ ClientFds[l][cl'[l].i] = c) <=>
         (cl[l].pc = "read" /\ ClientFds[l][cl[l].i] = c)
  BY Zenon DEF NotReading
<1>2. \A l \in Clients :
         (cl'[l].pc = "read" /\ ClientFds[l][cl'[l].i] = c) => cl'[l] = cl[l]
  BY Zenon DEF NotReading
<1> QED BY <1>1, <1>2, Zenon DEF Phase, CurConn

\* A step of one connection from a phase to the next is a step of EchoService.
LEMMA ServiceStep ==
  ASSUME NEW c \in Conns, \A d \in Conns : d # c => Phase(d)' = Phase(d),
         \/ Phase(c)' = Phase(c)
         \/ Phase(c) = "idle" /\ Phase(c)' = "asked"
         \/ Phase(c) = "asked" /\ Phase(c)' = "answered"
         \/ Phase(c) = "answered" /\ Phase(c)' = "idle"
  PROVE  Service!Next \/ UNCHANGED [d \in Conns |-> Phase(d)]
<1>1. CASE Phase(c)' = Phase(c)
  <2>1. \A d \in Conns : Phase(d)' = Phase(d)
    BY <1>1, Zenon
  <2> QED BY <2>1, Zenon
<1>a. PICK f, g : f = [d \in Conns |-> Phase(d)] /\ g = [d \in Conns |-> Phase(d)']
  BY Zenon
<1>b. f[c] = Phase(c) /\ g = [f EXCEPT ![c] = Phase(c)']
  <2>1. DOMAIN f = Conns /\ DOMAIN g = Conns /\ \A d \in Conns : f[d] = Phase(d) /\ g[d] = Phase(d)'
    BY <1>a, Zenon
  <2> QED BY <1>a, <2>1, Zenon
<1>2. CASE Phase(c) = "idle" /\ Phase(c)' = "asked"
  <2>1. Service!Ask(c)
    BY <1>2, <1>a, <1>b, Zenon DEF Service!Ask
  <2> QED BY <2>1, Zenon DEF Service!Next
<1>3. CASE Phase(c) = "asked" /\ Phase(c)' = "answered"
  <2>1. Service!Answer(c)
    BY <1>3, <1>a, <1>b, Zenon DEF Service!Answer
  <2> QED BY <2>1, Zenon DEF Service!Next
<1>4. CASE Phase(c) = "answered" /\ Phase(c)' = "idle"
  <2>1. Service!Receive(c)
    BY <1>4, <1>a, <1>b, Zenon DEF Service!Receive
  <2> QED BY <2>1, Zenon DEF Service!Next
<1> QED BY <1>1, <1>2, <1>3, <1>4, Zenon

\* Connecting is not a request.
LEMMA ConnectPhase ==
  ASSUME IInv, NEW k \in Clients, ClientConnect(k)
  PROVE  Service!Next \/ UNCHANGED [d \in Conns |-> Phase(d)]
<1>1. cl[k].pc = "connect" /\ UNCHANGED tx /\ \A l \in Clients : l # k => cl'[l] = cl[l]
  BY Zenon DEF IInv, TypeOK, ClientConnect
<1>2. cl'[k].pc # "read"
  BY <1>1, Zenon DEF IInv, TypeOK, ClientState, ClientConnect
<1>3. \A d \in Conns : Phase(d)' = Phase(d)
  <2> SUFFICES ASSUME NEW d \in Conns PROVE Phase(d)' = Phase(d)
    BY SMT, Zenon, SMTT(30)
  <2>1. NotReading(cl, k, d) /\ NotReading(cl', k, d)
    BY <1>1, <1>2, Zenon DEF NotReading
  <2> QED BY <1>1, <2>1, PhaseSame, Zenon
<1>4. CurConn(k) \in Conns
  BY ClientFacts, Zenon
<1> QED BY <1>3, <1>4, ServiceStep, Zenon

\* With the last byte of the request the client has asked; the reply is all to come.
LEMMA WritePhase ==
  ASSUME IInv, IInv', NEW k \in Clients, ClientWrite(k), tx[CurConn(k)] = 0
  PROVE  Service!Next \/ UNCHANGED [d \in Conns |-> Phase(d)]
<1>1. PICK c, i : c = CurConn(k) /\ i = cl[k].i
  BY Zenon
<1>2. /\ c \in Conns /\ i \in DOMAIN ClientFds[k] /\ c = ClientFds[k][i]
      /\ \A l \in Clients : cl[l].i \in DOMAIN ClientFds[l] /\ cl'[l].i \in DOMAIN ClientFds[l]
  BY <1>1, ClientFacts, Zenon DEF CurConn, IInv, BacklogOK
<1>3. cl[k].pc = "write"
  BY Zenon DEF ClientWrite
<1>4. /\ UNCHANGED tx /\ cl'[k].i = i /\ \A l \in Clients : l # k => cl'[l] = cl[l]
      /\ cl'[k].pc = "write" \/ (cl'[k].pc = "read" /\ cl'[k].pos = 0)
  BY <1>1, ClientWrites, Zenon DEF Wrote
<1>5. \A d \in Conns : d # c => Phase(d)' = Phase(d)
  <2> SUFFICES ASSUME NEW d \in Conns, d # c PROVE Phase(d)' = Phase(d)
    BY SMT, Zenon, SMTT(30)
  <2>1. NotReading(cl, k, d) /\ NotReading(cl', k, d)
    BY <1>2, <1>3, <1>4, Zenon DEF NotReading
  <2> QED BY <1>4, <2>1, PhaseSame, Zenon
<1>6. Phase(c)' = Phase(c) \/ (Phase(c) = "idle" /\ Phase(c)' = "asked")
  <2>1. \A l \in Clients : NotReading(cl, l, c)
    <3> SUFFICES ASSUME NEW l \in Clients, cl[l].pc = "read", ClientFds[l][cl[l].i] = c PROVE FALSE
      BY Zenon DEF NotReading
    <3>1. PICK j \in DOMAIN ClientFds[l] : j = cl[l].i /\ ClientFds[l][j] = c
      BY <1>2, Zenon
    <3>2. l = k
      BY <1>2, <3>1, OneOwner, SMT, Zenon, SMTT(30)
    <3> QED BY <1>3, <3>2, Zenon
  <2>2. Phase(c) = "idle"
    <3>1. IsPhase(cl, tx, c, "idle")
      BY <2>1, PhaseIdle, Zenon
    <3> QED BY <3>1, Zenon DEF IsPhase, PhaseIn, Phase, CurConn
  <2>3. CASE cl'[k].pc = "write"
    <3>1. \A l \in Clients : cl'[l] = cl[l] \/ (NotReading(cl, l, c) /\ NotReading(cl', l, c))
      BY <1>4, <2>1, <2>3, Zenon DEF NotReading
    <3> QED BY <1>2, <1>4, <3>1, PhaseSame, Zenon
  <2>4. CASE cl'[k].pc = "read" /\ cl'[k].pos = 0
    <3>1. IsPhase(cl', tx', c, IF tx'[c] + cl'[k].pos < MsgLen THEN "asked" ELSE "answered")
      BY <1>2, <1>4, <2>4, PhaseReading, Zenon
    <3>2. tx'[c] + cl'[k].pos < MsgLen
      BY <1>1, <1>4, <2>4, HotUpgradeAssumption, SMT, Zenon, SMTT(30)
    <3>3. Phase(c)' = "asked"
      BY <3>1, <3>2, Zenon DEF IsPhase, PhaseIn, Phase, CurConn
    <3> QED BY <2>2, <3>3, Zenon
  <2> QED BY <1>4, <2>3, <2>4, Zenon
<1> QED BY <1>2, <1>5, <1>6, ServiceStep, Zenon

\* With the last byte of the reply the request is over.
LEMMA ReadPhase ==
  ASSUME IInv, IInv', NEW k \in Clients, ClientRead(k)
  PROVE  Service!Next \/ UNCHANGED [d \in Conns |-> Phase(d)]
<1>1. PICK c, i : c = CurConn(k) /\ i = cl[k].i
  BY Zenon
<1>2. /\ c \in Conns /\ i \in DOMAIN ClientFds[k] /\ c = ClientFds[k][i] /\ cl[k].pc = "read"
      /\ \A l \in Clients : cl[l].i \in DOMAIN ClientFds[l] /\ cl'[l].i \in DOMAIN ClientFds[l]
  BY <1>1, ClientFacts, Zenon DEF CurConn, IInv, BacklogOK, ClientRead
<1>3. ReadBack(k, c)
  BY <1>1, ClientReads, Zenon
<1>4. \A d \in Conns : d # c => Phase(d)' = Phase(d)
  <2> SUFFICES ASSUME NEW d \in Conns, d # c PROVE Phase(d)' = Phase(d)
    BY SMT, Zenon, SMTT(30)
  <2>1. NotReading(cl, k, d)
    BY <1>1, <1>2, Zenon DEF NotReading
  <2>2. NotReading(cl', k, d)
    BY <1>1, <1>2, <1>3, Zenon DEF NotReading, ReadBack
  <2> QED BY <1>3, <2>1, <2>2, PhaseSame, Zenon DEF ReadBack
<1>5. IsPhase(cl, tx, c, IF tx[c] + cl[k].pos < MsgLen THEN "asked" ELSE "answered")
  BY <1>1, <1>2, PhaseReading, Zenon
<1>6. MsgLen \in Nat /\ cl[k].pos \in Nat /\ tx[c] \in Nat
  <2>1. MsgLen \in Nat \ {0} /\ cl[k] \in ClientState /\ tx \in [Conns -> Nat]
    BY HotUpgradeAssumption, ClientFacts, Zenon DEF IInv, TypeOK
  <2> QED BY <1>2, <2>1, Zenon DEF ClientState
<1>7. CASE cl[k].pos + tx[c] < MsgLen
  <2>1. /\ cl'[k].pc = "read" /\ cl'[k].i = i /\ cl'[k].pos = cl[k].pos + tx[c] /\ tx'[c] = 0
    BY <1>1, <1>3, <1>6, <1>7, SMT, Zenon, SMTT(30) DEF ReadBack
  <2>2. IsPhase(cl', tx', c, IF tx'[c] + cl'[k].pos < MsgLen THEN "asked" ELSE "answered")
    BY <1>2, <2>1, PhaseReading, Zenon
  <2>3. tx'[c] + cl'[k].pos < MsgLen /\ tx[c] + cl[k].pos < MsgLen
    BY <1>6, <1>7, <2>1, SMT, Zenon, SMTT(30)
  <2>4. Phase(c) = "asked" /\ Phase(c)' = "asked"
    BY <1>5, <2>2, <2>3, Zenon DEF IsPhase, PhaseIn, Phase, CurConn
  <2> QED BY <1>2, <1>4, <2>4, ServiceStep, Zenon
<1>8. CASE ~(cl[k].pos + tx[c] < MsgLen)
  <2>1. cl'[k].pc # "read" /\ \A l \in Clients : l # k => cl'[l] = cl[l]
    BY <1>3, <1>6, <1>8, Zenon DEF ReadBack
  <2>2. \A l \in Clients : NotReading(cl', l, c)
    <3> SUFFICES ASSUME NEW l \in Clients, cl'[l].pc = "read", ClientFds[l][cl'[l].i] = c
                 PROVE  FALSE
      BY Zenon DEF NotReading
    <3>1. PICK j \in DOMAIN ClientFds[l] : j = cl'[l].i /\ ClientFds[l][j] = c
      BY <1>2, Zenon
    <3>2. l = k
      BY <1>2, <3>1, OneOwner, SMT, Zenon, SMTT(30)
    <3> QED BY <2>1, <3>2, Zenon
  <2>3. IsPhase(cl', tx', c, "idle")
    BY <2>2, PhaseIdle, Zenon
  <2>4. ~(tx[c] + cl[k].pos < MsgLen)
    BY <1>6, <1>8, SMT, Zenon, SMTT(30)
  <2>5. Phase(c) = "answered" /\ Phase(c)' = "idle"
    BY <1>5, <2>3, <2>4, Zenon DEF IsPhase, PhaseIn, Phase, CurConn
  <2> QED BY <1>2, <1>4, <2>5, ServiceStep, Zenon
<1> QED BY <1>7, <1>8, Zenon

\* The server answers: the last byte of the reply goes out.
LEMMA AnswerPhase ==
  ASSUME IInv, NEW p \in Server, NEW fe \in fired[p], HandleWrite(p, fe)
  PROVE  Service!Next \/ UNCHANGED [d \in Conns |-> Phase(d)]
<1>1. PICK fd, c : fd = fe.fd /\ c = fdt[p][fd]
  BY Zenon
<1>2. /\ fd \in Fd /\ c \in Conns /\ UNCHANGED cl
      /\ WritesTo(p, fd, c) \/ UNCHANGED tx
  BY <1>1, WriteStep, Zenon
<1>3. /\ tx \in [Conns -> Nat] /\ MsgLen \in Nat
      /\ \A l \in Clients : cl[l].i \in DOMAIN ClientFds[l] /\ cl[l].pos \in Nat
  <2>1. \A l \in Clients : cl[l].i \in DOMAIN ClientFds[l] /\ cl[l].pos \in Nat
    BY ClientFacts, Zenon DEF ClientState
  <2> QED BY <2>1, HotUpgradeAssumption, Zenon DEF IInv, TypeOK
<1>4. tx'[c] \in Nat /\ tx'[c] >= tx[c] /\ \A d \in Conns : d # c => tx'[d] = tx[d]
  <2>1. CASE WritesTo(p, fd, c)
    <3>1. PICK n : n \in 1..Unsent(conn[p][fd]) /\ tx' = [tx EXCEPT ![c] = @ + n]
      BY <2>1, Zenon DEF WritesTo
    <3>2. n \in Nat
      BY <3>1, SMT, Zenon, SMTT(30)
    <3> QED BY <1>2, <1>3, <3>1, <3>2, SMT, Zenon, SMTT(30)
  <2>2. CASE UNCHANGED tx
    BY <1>2, <1>3, <2>2, SMT, Zenon, SMTT(30)
  <2> QED BY <1>2, <2>1, <2>2, Zenon
<1>5. \A d \in Conns : d # c => Phase(d)' = Phase(d)
  BY <1>2, <1>4, PhaseSame, Zenon
<1>6. CASE \E k \in Clients : cl[k].pc = "read" /\ ClientFds[k][cl[k].i] = c
  <2>1. PICK k \in Clients : cl[k].pc = "read" /\ ClientFds[k][cl[k].i] = c
    BY <1>6, Zenon
  <2>2. IsPhase(cl, tx, c, IF tx[c] + cl[k].pos < MsgLen THEN "asked" ELSE "answered")
    BY <1>3, <2>1, PhaseReading, Zenon
  <2>3. IsPhase(cl, tx', c, IF tx'[c] + cl[k].pos < MsgLen THEN "asked" ELSE "answered")
    BY <1>3, <2>1, PhaseReading, Zenon
  <2>4. ~(tx[c] + cl[k].pos < MsgLen) => ~(tx'[c] + cl[k].pos < MsgLen)
    BY <1>2, <1>3, <1>4, SMT, Zenon, SMTT(30)
  <2>5. Phase(c) = PhaseIn(cl, tx, c) /\ Phase(c)' = PhaseIn(cl, tx', c)
    BY <1>2, Zenon DEF Phase, PhaseIn, CurConn
  <2>6. Phase(c)' = Phase(c) \/ (Phase(c) = "asked" /\ Phase(c)' = "answered")
    BY <2>2, <2>3, <2>4, <2>5, Zenon DEF IsPhase
  <2> QED BY <1>2, <1>5, <2>6, ServiceStep, Zenon
<1>7. CASE ~\E k \in Clients : cl[k].pc = "read" /\ ClientFds[k][cl[k].i] = c
  <2>1. Phase(c)' = Phase(c)
    BY <1>2, <1>7, Zenon DEF Phase, CurConn
  <2> QED BY <1>2, <1>5, <2>1, ServiceStep, Zenon
<1> QED BY <1>6, <1>7, Zenon

\* Nothing but the clients and SendReply changes what a client sees.
LEMMA HiddenPhase ==
  ASSUME UNCHANGED <<cl, tx, peer>>, ClientsStay
  PROVE  ClientsStay' /\ (Service!Next \/ UNCHANGED [d \in Conns |-> Phase(d)])
<1>1. \A d \in Conns : Phase(d)' = Phase(d)
  BY PhaseSame, Zenon
<1>2. UNCHANGED [d \in Conns |-> Phase(d)]
  BY <1>1, Zenon
<1>3. ClientsStay'
  BY Zenon DEF ClientsStay
<1> QED BY <1>2, <1>3, Zenon

\* What the servers do by themselves is hidden.
LEMMA ServerHidden ==
  ASSUME NEW p, NEW fe,
         \/ StartNew \/ CreateTrigger \/ KillNew \/ StopOld \/ UNCHANGED vars
         \/ MeetNew(p) \/ MeetNewFails(p) \/ TransferListenFd(p) \/ FinishListenFd(p)
         \/ Poll(p) \/ CloseTransferred(p)
         \/ Handle(p, fe) /\ ~HandleWrite(p, fe)
  PROVE  UNCHANGED <<cl, tx, peer>>
<1>1. CASE StartNew \/ CreateTrigger \/ UNCHANGED vars
  BY <1>1, ZenonT(60) DEF StartNew, CreateTrigger, vars, kernel
<1>2. CASE \/ KillNew \/ StopOld \/ MeetNewFails(p)
           \/ HandleInetListenFails(p, fe) \/ HandleUnixListenFails(p, fe)
  BY <1>2, ZenonT(60) DEF KillNew, StopOld, MeetNewFails, HandleInetListenFails,
                          HandleUnixListenFails, Exit
<1>3. CASE MeetNew(p) \/ TransferListenFd(p) \/ FinishListenFd(p) \/ Poll(p)
           \/ CloseTransferred(p)
  BY <1>3, ZenonT(60) DEF MeetNew, TransferListenFd, FinishListenFd, Poll, CloseTransferred
<1>4. CASE HandleInetListen(p, fe) \/ HandleUnixListen(p, fe) \/ HandleListenFdMsg(p, fe)
           \/ HandleSessionFdMsg(p, fe) \/ UnixConnClose(p, fe)
  BY <1>4, ZenonT(60) DEF HandleInetListen, HandleUnixListen, HandleListenFdMsg,
       HandleSessionFdMsg, UnixConnClose
<1>5. CASE TransferSessionFd(p, fe) \/ TransferSessionFdFails(p, fe) \/ HandleRead(p, fe)
           \/ HandleNetError(p, fe)
  BY <1>5, ZenonT(60) DEF TransferSessionFd, TransferSessionFdFails, HandleRead, HandleNetError
<1> QED BY <1>1, <1>2, <1>3, <1>4, <1>5, Zenon DEF Handle

\* A client that has opened its last connection has them all.
LEMMA ConnectStays ==
  ASSUME IInv, ClientsStay, NEW k \in Clients, ClientConnect(k) PROVE ClientsStay'
<1>1. PICK c, i, m : c = CurConn(k) /\ i = cl[k].i /\ m = NextIndex(k)
  BY Zenon
<1>2. /\ TypeOK /\ cl[k].pc = "connect" /\ peer' = [peer EXCEPT ![c] = "up"]
      /\ cl' = [cl EXCEPT ![k].i = m, ![k].pc = IF m = 1 THEN "write" ELSE @]
  BY <1>1, Zenon DEF IInv, ClientConnect, InetClientConn
<1>3. /\ cl[k] \in ClientState /\ i \in DOMAIN ClientFds[k] /\ c \in Conns
      /\ c = ClientFds[k][i] /\ m \in Nat /\ i \in Nat
  BY <1>1, ClientFacts, ZenonT(60) DEF CurConn
<1>4. /\ DOMAIN ClientFds[k] = 1..Len(ClientFds[k]) /\ Len(ClientFds[k]) \in Nat
      /\ m = IF i = Len(ClientFds[k]) THEN 1 ELSE i + 1
  BY <1>1, HotUpgradeAssumption, SMT, Zenon, SMTT(30) DEF NextIndex
<1>5. /\ cl'[k].pc \in {"connect", "write"} /\ cl'[k].i = m
      /\ cl'[k].pc = "write" => m = 1
      /\ \A l \in Clients : l # k => cl'[l] = cl[l]
  <2>1. PICK x, s : /\ x = IF m = 1 THEN "write" ELSE "connect"
                    /\ s = [cl[k] EXCEPT !.i = m, !.pc = x] /\ cl' = [cl EXCEPT ![k] = s]
    BY <1>2, ZenonT(60) DEF TypeOK
  <2>2. s.pc = x /\ s.i = m
    BY <1>3, <2>1, ZenonT(60) DEF ClientState
  <2>3. cl'[k] = s /\ \A l \in Clients : l # k => cl'[l] = cl[l]
    BY <1>2, <2>1, Zenon DEF TypeOK
  <2>4. PICK y : y = x /\ y \in {"connect", "write"} /\ (y = "write" => m = 1)
    <3>1. x = IF m = 1 THEN "write" ELSE "connect"
      BY <2>1, Zenon
    <3> QED BY <3>1, SMT, Zenon, SMTT(30)
  <2> QED BY <2>2, <2>3, <2>4, Zenon
<1>6. peer'[c] = "up" /\ \A d \in Conns : peer[d] = "up" => peer'[d] = "up"
  BY <1>2, <1>3, Zenon DEF TypeOK
<1>7. \A l \in Clients : \A j \in DOMAIN ClientFds[l] : ClientFds[l][j] \in Conns
  BY ClientFacts, Zenon
<1>8. ASSUME NEW j \in DOMAIN ClientFds[k], cl'[k].pc # "connect" \/ j < m
      PROVE  peer'[ClientFds[k][j]] = "up"
  <2>1. j = i \/ j < i
    BY <1>3, <1>4, <1>5, <1>8, SMT, Zenon, SMTT(30)
  <2>2. j < i => peer[ClientFds[k][j]] = "up"
    BY <1>1, Zenon DEF ClientsStay
  <2> QED BY <1>3, <1>6, <1>7, <2>1, <2>2, Zenon
<1>9. \A j \in DOMAIN ClientFds[k] :
         cl'[k].pc # "connect" \/ j < cl'[k].i => peer'[ClientFds[k][j]] = "up"
  BY <1>5, <1>8, Zenon
<1>10. ASSUME NEW l \in Clients, l # k
       PROVE  /\ cl'[l].pc # "exit"
              /\ \A j \in DOMAIN ClientFds[l] :
                    cl'[l].pc # "connect" \/ j < cl'[l].i => peer'[ClientFds[l][j]] = "up"
  BY <1>5, <1>6, <1>7, <1>10, Zenon DEF ClientsStay
<1>11. cl'[k].pc # "exit"
  BY <1>5, Zenon
<1> QED BY <1>9, <1>10, <1>11, Zenon DEF ClientsStay

\* Writing and reading close nothing.
LEMMA EchoStays ==
  ASSUME IInv, ClientsStay, NEW k \in Clients, ClientWrite(k) \/ ClientRead(k)
  PROVE  ClientsStay'
<1>1. UNCHANGED peer /\ cl[k].pc \in {"write", "read"}
  BY Zenon DEF ClientWrite, ClientRead
<1>2. cl'[k].pc \in {"write", "read", "done"} /\ \A l \in Clients : l # k => cl'[l] = cl[l]
  <2>1. CASE ClientWrite(k)
    BY <2>1, ClientWrites, Zenon DEF Wrote
  <2>2. CASE ClientRead(k)
    <3>1. ReadBack(k, CurConn(k))
      BY <2>2, ClientReads, Zenon
    <3> QED BY <3>1, Zenon DEF ReadBack
  <2> QED BY <2>1, <2>2, Zenon
<1>3. cl[k].pc # "connect" /\ cl'[k].pc # "exit"
  BY <1>1, <1>2, Zenon
<1>4. ASSUME NEW l \in Clients
      PROVE  /\ cl'[l].pc # "exit"
             /\ \A j \in DOMAIN ClientFds[l] :
                   cl'[l].pc # "connect" \/ j < cl'[l].i => peer'[ClientFds[l][j]] = "up"
  BY <1>1, <1>2, <1>3, Zenon DEF ClientsStay
<1> QED BY <1>4, Zenon DEF ClientsStay

\* Nor does a write of the server to a client that is there.
LEMMA AnswerStays ==
  ASSUME IInv, ClientsStay, NEW p \in Server, NEW fe \in fired[p], HandleWrite(p, fe)
  PROVE  ClientsStay'
<1>1. PICK c : c = fdt[p][fe.fd]
  BY Zenon
<1>2. c \in Conns /\ UNCHANGED cl /\ (WritesTo(p, fe.fd, c) \/ UNCHANGED peer)
  BY <1>1, WriteStep, Zenon
<1>3. \A d \in Conns : peer[d] = "up" => peer'[d] = "up"
  BY <1>2, Zenon DEF WritesTo, IInv, TypeOK
<1>4. \A l \in Clients : \A j \in DOMAIN ClientFds[l] : ClientFds[l][j] \in Conns
  BY ClientFacts, Zenon
<1> QED BY <1>2, <1>3, <1>4, Zenon DEF ClientsStay

\* A client that is served never fails.
LEMMA NoClientFails ==
  ASSUME IInv, SessionsKept, ClientsStay, NEW k \in Clients PROVE ~ClientFails(k)
<1>1. cl[k].pc \in {"write", "read"} => Alive(CurConn(k))
  <2>1. CurConn(k) \in Conns /\ cl[k].i \in DOMAIN ClientFds[k]
    BY ClientFacts, Zenon
  <2> SUFFICES ASSUME cl[k].pc \in {"write", "read"} PROVE Alive(CurConn(k))
    BY SMT, Zenon, SMTT(30)
  <2>2. cl[k].pc # "connect"
    BY SMT, Zenon, SMTT(30)
  <2>3. peer[CurConn(k)] = "up"
    BY <2>1, <2>2, Zenon DEF ClientsStay, CurConn
  <2> QED BY <2>1, <2>3, Zenon DEF SessionsKept
<1> QED BY <1>1, Zenon DEF ClientFails, SessionsKept

\* When a client begins to write nothing of an earlier reply is on its way.
LEMMA NothingOnTheWay ==
  ASSUME IInv, BInv, AllRun, ClientsStay, NEW k \in Clients, cl[k].pc = "write"
  PROVE  tx[CurConn(k)] = 0
<1>1. PICK c, i : c = CurConn(k) /\ i = cl[k].i
  BY Zenon
<1>2. c \in Conns /\ i \in DOMAIN ClientFds[k] /\ c = ClientFds[k][i]
  BY <1>1, ClientFacts, ZenonT(60) DEF CurConn
<1>3. Served(c)
  <2>1. cl[k].pc # "connect"
    BY SMT, Zenon, SMTT(30)
  <2>2. peer[c] = "up"
    BY <1>2, <2>1, Zenon DEF ClientsStay
  <2> QED BY <2>2, Names, Zenon DEF Served, AllRun
<1>4. Reply(c) = 0
  <2>1. Tally(cl[k], i, Request(c), Reply(c))
    BY <1>2, <1>3, Zenon DEF BInv, Accounted
  <2> QED BY <1>1, <2>1, Zenon DEF Tally
<1>5. Unsent(ConnOf(c)) \in Nat /\ tx[c] \in Nat
  BY <1>2, ConnOfType, Zenon DEF IInv, TypeOK
<1> QED BY <1>1, <1>4, <1>5, SMT, Zenon, SMTT(30) DEF Reply

\* When nothing is killed every step of the servers and the clients is a step of the
\* service or cannot be seen.
LEMMA StepService ==
  ASSUME Faults = {}, IInv, IInv', BInv, AllRun, SessionsKept, ClientsStay, [Next]_vars
  PROVE  ClientsStay' /\ (Service!Next \/ UNCHANGED [d \in Conns |-> Phase(d)])
<1>1. CASE StartNew \/ CreateTrigger \/ KillNew \/ StopOld \/ UNCHANGED vars
  BY <1>1, ServerHidden, HiddenPhase, Zenon
<1>2. ASSUME NEW p \in Server, ServerNext(p)
      PROVE  ClientsStay' /\ (Service!Next \/ UNCHANGED [d \in Conns |-> Phase(d)])
  <2>1. CASE MeetNew(p) \/ MeetNewFails(p) \/ TransferListenFd(p) \/ FinishListenFd(p)
             \/ Poll(p) \/ CloseTransferred(p)
    BY <2>1, ServerHidden, HiddenPhase, Zenon
  <2>2. ASSUME NEW fe \in fired[p], Handle(p, fe)
        PROVE  ClientsStay' /\ (Service!Next \/ UNCHANGED [d \in Conns |-> Phase(d)])
    <3>1. CASE HandleWrite(p, fe)
      BY <3>1, AnswerStays, AnswerPhase, Zenon
    <3>2. CASE ~HandleWrite(p, fe)
      BY <2>2, <3>2, ServerHidden, HiddenPhase, Zenon
    <3> QED BY <3>1, <3>2, Zenon
  <2> QED BY <1>2, <2>1, <2>2, Zenon DEF ServerNext
<1>3. ASSUME NEW k \in Clients, ClientNext(k) \/ KillClient(k)
      PROVE  ClientsStay' /\ (Service!Next \/ UNCHANGED [d \in Conns |-> Phase(d)])
  <2>1. ~KillClient(k) /\ ~ClientFails(k)
    BY NoClientFails, Zenon DEF KillClient
  <2>2. CASE ClientConnect(k)
    BY <2>2, ConnectStays, ConnectPhase, Zenon
  <2>3. CASE ClientWrite(k)
    <3>1. tx[CurConn(k)] = 0
      BY <2>3, NothingOnTheWay, Zenon DEF ClientWrite
    <3> QED BY <2>3, <3>1, EchoStays, WritePhase, Zenon
  <2>4. CASE ClientRead(k)
    BY <2>4, EchoStays, ReadPhase, Zenon
  <2>5. CASE ClientSpins(k)
    BY <1>1, <2>5, Zenon DEF ClientSpins
  <2> QED BY <1>3, <2>1, <2>2, <2>3, <2>4, <2>5, Zenon DEF ClientNext
<1> QED BY <1>1, <1>2, <1>3, Zenon DEF Next, Quiet

\* At the start no client is there.
LEMMA InitService == ASSUME Init PROVE ClientsStay /\ Service!Init
<1>1. \A k \in Clients : cl[k].pc = "connect" /\ cl[k].i = 1
  BY Zenon DEF Init
<1>2. ClientsStay
  <2>1. \A k \in Clients : \A j \in DOMAIN ClientFds[k] : ~(j < 1)
    BY HotUpgradeAssumption, SMT, Zenon, SMTT(30)
  <2>2. \A k \in Clients : cl[k].pc # "exit"
    BY <1>1, Zenon
  <2> QED BY <1>1, <2>1, <2>2, Zenon DEF ClientsStay
<1>3. Service!Init
  <2>1. \A k \in Clients : cl[k].pc # "read"
    BY <1>1, Zenon
  <2>2. \A c \in Conns : Phase(c) = "idle"
    BY <2>1, Zenon DEF Phase
  <2> QED BY <2>2, Zenon DEF Service!Init
<1> QED BY <1>2, <1>3, Zenon
=============================================================================

------------------------ MODULE HotUpgradeInvProofs -------------------------
(***************************************************************************)
(* IInv holds initially and every step of HotUpgrade preserves it, one     *)
(* lemma per action.  Before that come the facts every proof about         *)
(* HotUpgrade uses: what the names stand for, what TypeOK says of each     *)
(* piece of state, and what the helpers that several handlers call do to   *)
(* it (epoll.cc, inet_conn.cc, unix_client.cc, unix_conn.cc).              *)
(***************************************************************************)
EXTENDS HotUpgradeInv, TLAPS

\* The two processes, the kinds of open file and the number -1 are all different:
\* server.cc is started once with and once without the upgrade argument.
LEMMA Names ==
    /\ Old \in Server /\ New \in Server /\ Old # New
    /\ \A p \in Server : p = Old \/ p = New
    /\ \A f \in {InetListen, UnixListen, UnixConn, UnixClient, NoFile} : f \notin Conns
    /\ InetListen # UnixListen /\ InetListen # UnixConn /\ InetListen # UnixClient
    /\ InetListen # NoFile /\ UnixListen # UnixConn /\ UnixListen # UnixClient
    /\ UnixListen # NoFile /\ UnixConn # UnixClient /\ UnixConn # NoFile /\ UnixClient # NoFile
    /\ NoFd \notin Fd
    /\ \A f \in Conns \cup {InetListen, UnixListen, UnixConn, UnixClient, NoFile} : f \in File
BY HotUpgradeAssumption, SMT, Zenon, SMTT(30)
   DEF InetListen, UnixListen, UnixConn, UnixClient, NoFile, NoFd,
   Fd,
   Old, New, Server, File

\* A queue is empty exactly when its length is 0.
LEMMA EmptyQueue ==
  ASSUME NEW S
  PROVE  <<>> \in Seq(S) /\ Len(<<>>) = 0 /\ \A s \in Seq(S) : Len(s) = 0 <=> s = <<>>
BY SMT, Zenon, SMTT(30)

\* Taking the head of a queue shifts the others by one: accept() and recvmsg().
LEMMA TailOf ==
  ASSUME NEW S, NEW s \in Seq(S), s # <<>>
  PROVE  /\ 1 \in DOMAIN s /\ Head(s) = s[1] /\ Head(s) \in S /\ Tail(s) \in Seq(S)
         /\ \A i \in DOMAIN Tail(s) :
               i \in Nat /\ i + 1 \in DOMAIN s /\ i + 1 # 1 /\ Tail(s)[i] = s[i + 1]
BY SMT, Zenon, SMTT(30)

\* Adding to a queue keeps what is in it: connect() and sendmsg().
LEMMA AppendOf ==
  ASSUME NEW S, NEW s \in Seq(S), NEW e \in S
  PROVE  /\ Append(s, e) \in Seq(S) /\ Append(s, e) # <<>>
         /\ Len(s) + 1 \in DOMAIN Append(s, e) /\ Append(s, e)[Len(s) + 1] = e
         /\ Len(s) + 1 \notin DOMAIN s
         /\ \A i \in DOMAIN Append(s, e) :
               i = Len(s) + 1 \/ (i \in DOMAIN s /\ Append(s, e)[i] = s[i])
BY SMT, Zenon, SMTT(30)

\* The fields of a process's main-loop state have their types.
LEMMA SrvTypes ==
  ASSUME TypeOK, NEW p \in Server
  PROVE  /\ srv[p] \in SrvState
         /\ srv[p].pc \in {"down", "loop", "send_listen", "reply_listen", "reply_session", "exit"}
         /\ srv[p].session_fd \in Fd \cup {NoFd}
         /\ srv[p].inet_listen_fd \in Fd \cup {NoFd}
         /\ srv[p].unix_listen_fd \in Fd \cup {NoFd}
         /\ srv[p].unix_conn_fd \in Fd \cup {NoFd}
         /\ srv[p].unix_client \in Fd \cup {NoFd}
         /\ srv[p].unix_conn \in BOOLEAN /\ srv[p].unix_socket_init \in BOOLEAN
BY Zenon DEF TypeOK, SrvState

\* The UNIX channel holds a sequence of messages and a number of replies.
LEMMA UnixTypes ==
  ASSUME TypeOK
  PROVE  /\ unix \in [queued : BOOLEAN, msgs : Seq(Message), replies : Nat]
         /\ unix.msgs \in Seq(Message) /\ Len(unix.msgs) \in Nat /\ unix.replies \in Nat
         /\ Len(unix.msgs) = 0 <=> unix.msgs = <<>>
<1>1. unix \in [queued : BOOLEAN, msgs : Seq(Message), replies : Nat]
  BY Zenon DEF TypeOK
<1>2. unix.msgs \in Seq(Message) /\ unix.replies \in Nat
  BY <1>1, Zenon
<1> QED BY <1>1, <1>2, EmptyQueue, SMT, Zenon, SMTT(30)

\* An epoll entry keeps its file and its mask when only its edge state changes.
LEMMA WatchTypes ==
  ASSUME TypeOK, NEW p \in Server, NEW fd \in Fd
  PROVE  /\ ep[p][fd] \in Watch /\ ep[p][fd].file \in File /\ fdt[p][fd] \in File
         /\ \A b \in BOOLEAN : LET w == [ep[p][fd] EXCEPT !.armed = b]
            IN  w \in Watch /\ w.file = ep[p][fd].file /\ w.mask = ep[p][fd].mask
<1>1. ep[p][fd] \in Watch /\ fdt[p][fd] \in File
  BY SMT, Zenon, SMTT(30) DEF TypeOK
<1>2. ep[p][fd].file \in File
  BY <1>1, Zenon DEF Watch
<1>3. \A b \in BOOLEAN : LET w == [ep[p][fd] EXCEPT !.armed = b]
         IN  w \in Watch /\ w.file = ep[p][fd].file /\ w.mask = ep[p][fd].mask
  BY <1>1, Zenon DEF Watch
<1> QED BY <1>1, <1>2, <1>3, Zenon

\* A step that assigns the main-loop state of one process leaves the other's alone.
LEMMA SrvUpdate ==
  ASSUME TypeOK, NEW p \in Server, NEW r \in SrvState, srv' = [srv EXCEPT ![p] = r]
  PROVE  /\ srv' \in [Server -> SrvState] /\ srv'[p] = r
         /\ \A q \in Server : q # p => srv'[q] = srv[q]
BY Zenon DEF TypeOK

\* Every fired event names a descriptor.
LEMMA FiredFd ==
  ASSUME TypeOK
  PROVE  \A p \in Server : \A fe \in fired[p] : fe \in FiredEvent /\ fe.fd \in Fd
BY SMT, Zenon, SMTT(30) DEF TypeOK, FiredEvent

\* A listen event still to be handled has a connection to accept.
LEMMA FiredListen ==
  ASSUME FiredOK
  PROVE  \A p \in Server : \A fe \in fired[p] :
            fe.fd = srv[p].inet_listen_fd => backlog # <<>>
BY Zenon DEF FiredOK

\* The event of a read, write or error handler is about an open TCP connection: none
\* of the special descriptors of the if-chain in main can be one by mistake.
LEMMA NetFile ==
  ASSUME IInv, NEW p \in Server, NEW fe, ForNet(p, fe)
  PROVE  /\ fe \in fired[p] /\ fe.fd \in Fd /\ fdt[p][fe.fd] \in Conns /\ srv[p].pc = "loop"
         /\ ep[p][fe.fd].file = fdt[p][fe.fd]
<1>1. TypeOK /\ NamesOK /\ FiredOK /\ fe \in fired[p] /\ srv[p].pc = "loop"
  BY Zenon DEF IInv, ForNet
<1>2. fe.fd \in Fd
  BY <1>1, FiredFd, Zenon
<1>3. ep[p][fe.fd].file # NoFile
  BY <1>1, Zenon DEF FiredOK
<1>4. /\ ep[p][fe.fd].file = fdt[p][fe.fd]
      /\ fdt[p][fe.fd] \notin {InetListen, UnixListen, UnixConn, UnixClient, NoFile}
  BY <1>1, <1>2, <1>3, SMT, Zenon, SMTT(30) DEF NamesOK, ForNet
<1>5. fdt[p][fe.fd] \in File
  BY <1>1, <1>2, SMT, Zenon, SMTT(30) DEF TypeOK
<1> QED BY <1>1, <1>2, <1>4, <1>5, Zenon DEF File

\* A handled event is the only one of its descriptor, so none is left for it.
LEMMA HandledFacts ==
  ASSUME IInv, NEW p \in Server, NEW fe \in fired[p], Handled(p, fe)
  PROVE  /\ fired' \in [Server -> SUBSET FiredEvent] /\ fe.fd \in Fd
         /\ \A q \in Server : \A ge \in fired'[q] :
               ge \in fired[q] /\ ge.fd \in Fd /\ (q = p => ge.fd # fe.fd)
<1>1. TypeOK /\ FiredOK
  BY Zenon DEF IInv
<1>2. fired' \in [Server -> SUBSET FiredEvent]
      /\ \A q \in Server : \A ge \in fired'[q] : ge \in fired[q] /\ (q = p => ge # fe)
  BY <1>1, Zenon DEF Handled, TypeOK
<1> QED BY <1>1, <1>2, FiredFd, Zenon DEF FiredOK

\* Reading the reply (GetReply) leaves the UNIX socket empty.
LEMMA GetReplyFacts ==
  ASSUME IInv, GetReply, srv[Old].pc \in {"reply_listen", "reply_session"}
  PROVE  /\ unix' \in [queued : BOOLEAN, msgs : Seq(Message), replies : Nat]
         /\ unix'.queued = unix.queued /\ unix'.msgs = <<>> /\ unix'.replies = 0
         /\ unix.msgs = <<>> /\ Len(unix'.msgs) = 0
<1>1. TypeOK /\ ReplyMatches /\ UnixOK
  BY Zenon DEF IInv
<1>2. Len(unix.msgs) + unix.replies <= 1
  BY <1>1, Zenon DEF ReplyMatches
<1>3. CASE unix.replies > 0 /\ unix' = [unix EXCEPT !.replies = @ - 1]
  <2>1. unix.replies = 1 /\ Len(unix.msgs) = 0
    BY <1>1, <1>2, <1>3, UnixTypes, SMT, Zenon, SMTT(30)
  <2> QED BY <1>1, <1>3, <2>1, UnixTypes, SMT, Zenon, SMTT(30)
<1>4. CASE unix.replies = 0 /\ ~NewEndOpen /\ UNCHANGED unix
  <2>1. unix.msgs = <<>>
    BY <1>1, <1>4, Zenon DEF UnixOK
  <2> QED BY <1>1, <1>4, <2>1, UnixTypes, Zenon
<1> QED BY <1>3, <1>4, Zenon DEF GetReply

\* A client is always at one of its connections, and the next one in its round
\* is the following one or the first (the loop of client.cc).
LEMMA ClientFacts ==
  ASSUME IInv, NEW k \in Clients
  PROVE  /\ cl[k] \in ClientState
         /\ cl[k].i \in DOMAIN ClientFds[k] /\ NextIndex(k) \in DOMAIN ClientFds[k]
         /\ cl[k].i \in Nat /\ NextIndex(k) \in Nat
         /\ NextIndex(k) # 1 => NextIndex(k) = cl[k].i + 1
         /\ \A j \in DOMAIN ClientFds[k] : ClientFds[k][j] \in Conns
         /\ CurConn(k) \in Conns
<1>1. cl[k] \in ClientState /\ cl[k].i \in DOMAIN ClientFds[k]
  BY Zenon DEF IInv, TypeOK, BacklogOK
<1>2. ClientFds[k] \in Seq(Conns)
  BY HotUpgradeAssumption, Zenon
<1>3. DOMAIN ClientFds[k] = 1..Len(ClientFds[k]) /\ Len(ClientFds[k]) \in Nat
      /\ \A j \in DOMAIN ClientFds[k] : ClientFds[k][j] \in Conns
  BY <1>2, SMT, Zenon, SMTT(30)
<1>4. PICK i : i = cl[k].i
  BY Zenon
<1>5. PICK n \in Nat : n = Len(ClientFds[k])
  BY <1>3, Zenon
<1>6. i \in 1..n
  BY <1>1, <1>3, <1>4, <1>5, Zenon
<1>7. i \in Nat /\ (i # n => i + 1 \in 1..n) /\ 1 \in 1..n /\ i + 1 \in Nat /\ 1 \in Nat
  BY <1>6, SMT, Zenon, SMTT(30)
<1>8. NextIndex(k) = IF i = n THEN 1 ELSE i + 1
  BY <1>4, <1>5, Zenon DEF NextIndex
<1>9. NextIndex(k) \in 1..n /\ NextIndex(k) \in Nat /\ (NextIndex(k) # 1 => NextIndex(k) = i + 1)
  BY <1>7, <1>8, Zenon
<1> QED BY <1>1, <1>3, <1>4, <1>5, <1>7, <1>9, Zenon DEF CurConn

\* A client has a connection under one index, and no other client has it.
LEMMA OneOwner ==
  ASSUME NEW k \in Clients, NEW i \in DOMAIN ClientFds[k],
         NEW l \in Clients, NEW j \in DOMAIN ClientFds[l]
  PROVE  /\ ClientFds[l][j] \in Conns
         /\ ClientFds[k][i] = ClientFds[l][j] => k = l /\ i = j
BY HotUpgradeAssumption, SMT, Zenon, SMTT(30)

\* What client_echo_request (client.cc) does to the state of client k and to connection c
\* when write() takes n bytes of the request.
Wrote(k, c, n) ==
    /\ n \in Nat /\ n > 0 /\ rx' = [rx EXCEPT ![c] = @ + n] /\ UNCHANGED tx
    /\ cl'[k] \in ClientState /\ cl'[k].i = cl[k].i
    /\ \/ cl[k].pos + n = ReqLen /\ cl'[k].pc = "read" /\ cl'[k].pos = 0
       \/ cl[k].pos + n < ReqLen /\ cl'[k].pc = "write" /\ cl'[k].pos = cl[k].pos + n
    /\ \A l \in Clients : l # k => cl'[l] = cl[l]

\* What it does when read() returns the bytes on their way.
ReadBack(k, c) ==
    /\ \/ /\ cl[k].pos + tx[c] < MsgLen /\ cl'[k].pc = "read"
          /\ cl'[k].i = cl[k].i /\ cl'[k].pos = cl[k].pos + tx[c]
       \/ cl[k].pos + tx[c] >= MsgLen /\ cl'[k].pc \in {"done", "write"} /\ cl'[k].pos = 0
    /\ tx'[c] = 0 /\ \A d \in Conns : d # c => tx'[d] = tx[d]
    /\ \A l \in Clients : l # k => cl'[l] = cl[l]

\* A write of a client is of some bytes of what is left of the request.
LEMMA ClientWrites ==
  ASSUME IInv, NEW k \in Clients, ClientWrite(k), NEW c, c = CurConn(k)
  PROVE  \E n \in Nat : Wrote(k, c, n)
<1>1. PICK i, pos : i = cl[k].i /\ pos = cl[k].pos
  BY Zenon
<1>2. TypeOK /\ UNCHANGED tx /\ cl[k].pc = "write" /\ cl[k] \in ClientState
  BY ClientFacts, Zenon DEF IInv, ClientWrite
<1>3. PICK n \in 1..(ReqLen - pos) :
         /\ rx' = [rx EXCEPT ![c] = @ + n]
         /\ cl' = [cl EXCEPT ![k].pos = IF pos + n = ReqLen THEN 0 ELSE @ + n,
                             ![k].pc = IF pos + n = ReqLen THEN "read" ELSE @]
  BY <1>1, Zenon DEF ClientWrite
<1>4. n \in Nat /\ n > 0 /\ pos + n <= ReqLen /\ pos + n \in Nat /\ ReqLen \in Nat
  <2>1. ReqLen \in Nat \ {0}
    BY BufferAssumption, HotUpgradeAssumption, SMT, Zenon, SMTT(30) DEF ReqLen
  <2>2. pos \in Nat
    BY <1>1, <1>2, Zenon DEF ClientState
  <2> QED BY <2>1, <2>2, SMT, Zenon, SMTT(30)
<1>5. /\ cl'[k] \in ClientState /\ cl'[k].i = i
      /\ \/ pos + n = ReqLen /\ cl'[k].pc = "read" /\ cl'[k].pos = 0
         \/ pos + n < ReqLen /\ cl'[k].pc = "write" /\ cl'[k].pos = pos + n
  <2>1. CASE pos + n = ReqLen
    <3>1. PICK s : s = [cl[k] EXCEPT !.pos = 0, !.pc = "read"] /\ cl' = [cl EXCEPT ![k] = s]
      BY <1>2, <1>3, <2>1, ZenonT(60) DEF TypeOK
    <3>2. s \in ClientState /\ s.pc = "read" /\ s.pos = 0 /\ s.i = cl[k].i
      BY <1>2, <3>1, ZenonT(60) DEF ClientState
    <3>3. cl'[k] = s
      BY <1>2, <3>1, Zenon DEF TypeOK
    <3> QED BY <1>1, <2>1, <3>2, <3>3, Zenon
  <2>2. CASE pos + n # ReqLen
    <3>1. PICK s : s = [cl[k] EXCEPT !.pos = pos + n, !.pc = "write"]
                   /\ cl' = [cl EXCEPT ![k] = s]
      BY <1>1, <1>2, <1>3, <2>2, ZenonT(60) DEF TypeOK
    <3>2. pos + n < ReqLen
      BY <1>4, <2>2, SMT, Zenon, SMTT(30)
    <3>3. s \in ClientState /\ s.pc = "write" /\ s.pos = pos + n /\ s.i = cl[k].i
      BY <1>2, <1>4, <3>1, ZenonT(60) DEF ClientState
    <3>4. cl'[k] = s
      BY <1>2, <3>1, Zenon DEF TypeOK
    <3> QED BY <1>1, <3>2, <3>3, <3>4, Zenon
  <2> QED BY <2>1, <2>2, Zenon
<1>6. \A l \in Clients : l # k => cl'[l] = cl[l]
  BY <1>2, <1>3, Zenon DEF TypeOK
<1> QED BY <1>1, <1>2, <1>3, <1>4, <1>5, <1>6, Zenon DEF Wrote

\* A read of a client takes what is there; with the last byte it goes on to the next
\* connection.
LEMMA ClientReads ==
  ASSUME IInv, NEW k \in Clients, ClientRead(k), NEW c, c = CurConn(k)
  PROVE  ReadBack(k, c)
<1>1. PICK i, pos, t : i = cl[k].i /\ pos = cl[k].pos /\ t = tx[c]
  BY Zenon
<1>2. TypeOK /\ cl[k].pc = "read" /\ tx' = [tx EXCEPT ![c] = 0]
  BY Zenon DEF IInv, ClientRead
<1>3. cl[k] \in ClientState /\ c \in Conns
  BY ClientFacts, Zenon
<1>4. PICK round, s :
         /\ s = IF pos + t < MsgLen THEN [cl[k] EXCEPT !.pos = pos + t]
                ELSE [pc |-> IF round = MaxRounds THEN "done" ELSE "write",
                      i |-> NextIndex(k), pos |-> 0, round |-> round]
         /\ cl' = [cl EXCEPT ![k] = s]
  BY <1>1, <1>2, ZenonT(60) DEF ClientRead, TypeOK
<1>5. MsgLen \in Nat \ {0} /\ pos \in Nat /\ t \in Nat
  BY <1>1, <1>2, <1>3, HotUpgradeAssumption, SMT, Zenon, SMTT(30) DEF TypeOK, ClientState
<1>6. \/ pos + t < MsgLen /\ s.pc = "read" /\ s.i = i /\ s.pos = pos + t
      \/ pos + t >= MsgLen /\ s.pc \in {"done", "write"} /\ s.pos = 0
  <2>1. CASE pos + t < MsgLen
    BY <1>1, <1>2, <1>3, <1>4, <2>1, ZenonT(60) DEF ClientState
  <2>2. CASE ~(pos + t < MsgLen)
    BY <1>4, <1>5, <2>2, SMT, Zenon, SMTT(30)
  <2> QED BY <2>1, <2>2, Zenon
<1>7. /\ cl'[k] = s /\ \A l \in Clients : l # k => cl'[l] = cl[l]
      /\ tx'[c] = 0 /\ \A d \in Conns : d # c => tx'[d] = tx[d]
  BY <1>2, <1>3, <1>4, SMT, Zenon, SMTT(30) DEF TypeOK
<1> QED BY <1>1, <1>6, <1>7, Zenon DEF ReadBack

\* Receiving a message (processRecv) happens in New, takes the only message, and
\* leaves exactly one reply, which Old is waiting for.
LEMMA ProcessRecvFacts ==
  ASSUME IInv, NEW p \in Server, NEW fe \in fired[p], ProcessRecv(p, fe)
  PROVE  /\ p = New /\ srv[New].pc = "loop" /\ NewEndOpen
         /\ unix' \in [queued : BOOLEAN, msgs : Seq(Message), replies : Nat]
         /\ unix'.queued = unix.queued /\ unix'.msgs = <<>> /\ unix'.replies = 1
         /\ Len(unix'.msgs) = 0
         /\ fired' \in [Server -> SUBSET FiredEvent] /\ fe.fd \in Fd
         /\ \A q \in Server : \A ge \in fired'[q] : ge \in fired[q] /\ ge.fd \in Fd
         /\ \/ /\ srv[Old].pc = "reply_listen" /\ srv[New].inet_listen_fd = NoFd
               /\ Head(unix.msgs) = [type |-> "kTransferListenFd", file |-> InetListen]
            \/ /\ srv[Old].pc = "reply_session"
               /\ Head(unix.msgs) = [type |-> "kTransferSessionFd",
                                     file |-> fdt[Old][srv[Old].session_fd]]
               /\ InFlight(fdt[Old][srv[Old].session_fd])
<1>a. TypeOK /\ RolesOK /\ UnixOK /\ ReplyMatches
  BY Zenon DEF IInv
<1>b. /\ fired' \in [Server -> SUBSET FiredEvent] /\ fe.fd \in Fd
      /\ \A q \in Server : \A ge \in fired'[q] : ge \in fired[q] /\ ge.fd \in Fd
  BY HandledFacts, Zenon DEF ProcessRecv
<1>c. p = New /\ srv[New].pc = "loop"
  BY <1>a, <1>b, Names, Zenon DEF ProcessRecv, ForUnixConn, RolesOK
<1>d. NewEndOpen /\ unix.msgs # <<>>
  BY <1>a, Zenon DEF ProcessRecv, UnixOK
<1>e. PICK m : unix.msgs = <<m>> /\
            \/ /\ srv[Old].pc = "reply_listen" /\ srv[New].inet_listen_fd = NoFd
               /\ m = [type |-> "kTransferListenFd", file |-> InetListen]
            \/ /\ srv[Old].pc = "reply_session"
               /\ m = [type |-> "kTransferSessionFd", file |-> fdt[Old][srv[Old].session_fd]]
  BY <1>a, <1>d, Zenon DEF UnixOK
<1>f. Head(unix.msgs) = m /\ Tail(unix.msgs) = <<>> /\ Len(unix.msgs) = 1
      /\ 1 \in DOMAIN unix.msgs /\ unix.msgs[1] = m
  BY <1>e, SMT, Zenon, SMTT(30)
<1>g. unix.replies = 0
  BY <1>a, <1>d, <1>e, <1>f, UnixTypes, SMT, Zenon, SMTT(30) DEF ReplyMatches
<1>h. unix' = [unix EXCEPT !.msgs = <<>>, !.replies = 1]
  <2>1. unix' = [[unix EXCEPT !.msgs = Tail(@)] EXCEPT !.replies = @ + 1]
    BY Zenon DEF ProcessRecv, MakeCommonReply
  <2>2. unix \in [queued : BOOLEAN, msgs : Seq(Message), replies : Nat]
    BY <1>a, Zenon DEF TypeOK
  <2>3. [unix EXCEPT !.msgs = Tail(@)] = [unix EXCEPT !.msgs = <<>>]
    BY <1>f, <2>2, Zenon
  <2>4. [unix EXCEPT !.msgs = <<>>].replies = 0
    BY <1>g, <2>2, Zenon
  <2>5. unix' = [[unix EXCEPT !.msgs = <<>>] EXCEPT !.replies = 1]
    <3> DEFINE u == [unix EXCEPT !.msgs = <<>>]
    <3>1. unix' = [u EXCEPT !.replies = @ + 1] /\ u.replies = 0
      BY <2>1, <2>3, <2>4, Zenon
    <3> HIDE DEF u
    <3>2. unix' = [u EXCEPT !.replies = 1]
      BY <3>1, SMT, Zenon, SMTT(30)
    <3> QED BY <3>2, Zenon DEF u
  <2> QED BY <2>2, <2>5, Zenon
<1>i. /\ unix' \in [queued : BOOLEAN, msgs : Seq(Message), replies : Nat]
      /\ unix'.queued = unix.queued /\ unix'.msgs = <<>> /\ unix'.replies = 1
      /\ Len(unix'.msgs) = 0
  <2>1. unix \in [queued : BOOLEAN, msgs : Seq(Message), replies : Nat]
    BY <1>a, Zenon DEF TypeOK
  <2>2. <<>> \in Seq(Message) /\ Len(<<>>) = 0
    BY EmptyQueue, Zenon
  <2> QED BY <1>h, <2>1, <2>2, Zenon
<1>j. srv[Old].pc = "reply_session" => InFlight(fdt[Old][srv[Old].session_fd])
  BY <1>e, <1>f, SMT, Zenon, SMTT(30) DEF InFlight
<1> QED BY <1>b, <1>c, <1>d, <1>e, <1>f, <1>i, <1>j, Zenon

\* The session message New receives is about the session whose transfer Old waits for.
LEMMA MovedSession ==
  ASSUME IInv, NEW p \in Server, NEW fe \in fired[p], HandleSessionFdMsg(p, fe)
  PROVE  /\ srv[Old].pc = "reply_session"
         /\ Head(unix.msgs).file = fdt[Old][srv[Old].session_fd]
         /\ InFlight(fdt[Old][srv[Old].session_fd])
<1>1. ProcessRecv(p, fe) /\ Head(unix.msgs).type = "kTransferSessionFd"
  BY Zenon DEF HandleSessionFdMsg
<1>2. Head(unix.msgs) # [type |-> "kTransferListenFd", file |-> InetListen]
  BY <1>1, SMT, Zenon, SMTT(30)
<1>3. /\ srv[Old].pc = "reply_session"
      /\ Head(unix.msgs) = [type |-> "kTransferSessionFd", file |-> fdt[Old][srv[Old].session_fd]]
      /\ InFlight(fdt[Old][srv[Old].session_fd])
  BY <1>1, <1>2, ProcessRecvFacts, ZenonT(60)
<1> QED BY <1>3, SMT, Zenon, SMTT(30)

\* What a call of GetRequest (inet_conn.cc) makes of the object b and the socket: r is its
\* outcome.
ReadOutcome(b, avail, pr, r) ==
    /\ r.nread \in Nat /\ avail - r.nread \in Nat
    /\ r.rs = "kReadAll" =>
          /\ r.conn \in Conn /\ r.conn.last_read_pos = 0 /\ r.conn.last_write_pos = 0
          /\ r.conn.reply = MsgLen /\ b.last_read_pos + r.nread = ReqLen
    /\ r.rs = "kReadHalf" =>
          /\ r.conn \in Conn /\ r.conn.last_write_pos = 0 /\ r.conn.reply = b.reply
          /\ r.conn.last_read_pos = b.last_read_pos + r.nread
          /\ r.conn.last_read_pos < ReqLen
          /\ avail = r.nread /\ pr # "rst" /\ (pr = "fin" => r.nread > 0)

\* GetRequest takes no more bytes than the socket has, leaves less than a complete
\* request in read_buf_, and sets a reply only when it returns kReadAll, for a complete
\* request.  When it returns kReadHalf the socket is empty, and if the client has closed
\* there is something in read_buf_.
LEMMA GetRequestIs ==
  ASSUME NEW b \in Conn, NEW avail \in Nat, NEW pr,
         b.last_read_pos < ReqLen, b.last_write_pos = 0,
         NEW r, r = GetRequest(b, avail, pr, MsgLen)
  PROVE  ReadOutcome(b, avail, pr, r)
<1> DEFINE head    == HeaderBytes(b, avail)
           pos     == b.last_read_pos + head
           missing == (MsgLen + HEADER_LEN) - pos
           body    == Least(avail - head, missing)
           Took(rs, n) == [rs |-> rs, nread |-> n, conn |-> [b EXCEPT !.last_read_pos = @ + n]]
           Nothing(n) == Took(IF pr = "fin" THEN "kReadClose" ELSE "kReadHalf", n)
           all == [rs |-> "kReadAll", nread |-> head + body,
                   conn |-> [b EXCEPT !.last_read_pos = 0, !.reply = MsgLen]]
<1>1. /\ b.last_read_pos \in Nat /\ b.reply \in Nat /\ b.last_write_pos \in Nat
      /\ HEADER_LEN \in Nat \ {0} /\ MsgLen \in Nat \ {0} /\ ReqLen = HEADER_LEN + MsgLen
      /\ HEADER_LEN + MsgLen <= READ_BUFFER_SIZE
  BY BufferAssumption, HotUpgradeAssumption, ZenonT(60) DEF Conn, ReqLen
<1>2. head \in Nat /\ avail - head \in Nat /\ pos \in Nat /\ missing \in Nat \ {0}
      /\ (head > 0 => pos <= HEADER_LEN) /\ (pos < HEADER_LEN => head = avail)
  BY <1>1, SMT, Zenon, SMTT(30) DEF HeaderBytes, Least
<1> HIDE DEF head
<1>3. body \in Nat /\ head + body \in Nat /\ avail - (head + body) \in Nat
      /\ (body < missing => pos + body < ReqLen /\ avail = head + body)
  BY <1>1, <1>2, SMT, Zenon, SMTT(30) DEF Least
<1>4. \A s : \A n \in Nat :
                        /\ Took(s, n).rs = s /\ Took(s, n).nread = n /\ Took(s, n).conn \in Conn
                        /\ Took(s, n).conn.last_read_pos = b.last_read_pos + n
                        /\ Took(s, n).conn.reply = b.reply
                        /\ Took(s, n).conn.last_write_pos = 0
  BY <1>1, SMT, Zenon, SMTT(30) DEF Conn
<1>5. /\ all.rs = "kReadAll" /\ all.nread = head + body /\ all.conn \in Conn
      /\ all.conn.last_read_pos = 0 /\ all.conn.last_write_pos = 0 /\ all.conn.reply = MsgLen
  <2> DEFINE s == [b EXCEPT !.last_read_pos = 0]
             t == [s EXCEPT !.reply = MsgLen]
  <2>1. all.rs = "kReadAll" /\ all.nread = head + body /\ all.conn = t
    BY Zenon
  <2>2. s \in Conn /\ s.last_read_pos = 0 /\ s.last_write_pos = 0
    BY Zenon DEF Conn
  <2> HIDE DEF s
  <2>3. t \in Conn /\ t.last_read_pos = 0 /\ t.last_write_pos = 0 /\ t.reply = MsgLen
    BY <2>2, <1>1, ZenonT(60) DEF Conn
  <2> HIDE DEF all, t
  <2> QED BY <2>1, <2>3, Zenon
<1>6. \/ r = Took("kReadError", 0)
      \/ pr # "rst" /\ pos < HEADER_LEN /\ head = 0 /\ r = Nothing(0)
      \/ pr # "rst" /\ pos < HEADER_LEN /\ head # 0 /\ r = Took("kReadHalf", head)
      \/ r = Took("kReadClose", head)
      \/ pr # "rst" /\ pos < ReqLen /\ body = 0 /\ r = Nothing(head)
      \/ pr # "rst" /\ body < missing /\ body # 0 /\ r = Took("kReadHalf", head + body)
      \/ body = missing /\ r = all
      \/ r = Took("kFullError", head)
  <2>1. pos < ReqLen
    BY <1>1, <1>2, SMT, Zenon, SMTT(30)
  <2>2. ~(body < missing) => body = missing
    BY <1>1, <1>2, SMT, Zenon, SMTT(30) DEF Least
  <2> QED BY <2>1, <2>2, SMT, Zenon, SMTT(30) DEF GetRequest, head
<1> HIDE DEF all, Took, body
<1>7. ASSUME NEW s, NEW n \in Nat, avail - n \in Nat, s \notin {"kReadAll", "kReadHalf"}
      PROVE  ReadOutcome(b, avail, pr, Took(s, n))
  BY <1>4, <1>7, SMT, Zenon, SMTT(30) DEF ReadOutcome
<1>8. ASSUME NEW n \in Nat, avail = n, pr # "rst", pr = "fin" => n > 0,
             b.last_read_pos + n < ReqLen
      PROVE  ReadOutcome(b, avail, pr, Took("kReadHalf", n))
  <2>1. avail - n \in Nat
    BY <1>8, SMT, Zenon, SMTT(30)
  <2> QED BY <1>4, <1>8, <2>1, SMT, Zenon, SMTT(30) DEF ReadOutcome
<1>9. CASE body = missing /\ r = all
  <2>1. b.last_read_pos + (head + body) = ReqLen
    BY <1>1, <1>2, <1>9, SMT, Zenon, SMTT(30)
  <2> QED BY <1>3, <1>5, <1>9, <2>1, SMT, Zenon, SMTT(30) DEF ReadOutcome
<1>10. CASE pr # "rst" /\ pos < HEADER_LEN /\ head = 0 /\ r = Nothing(0)
  <2>1. avail = 0 /\ b.last_read_pos + 0 < ReqLen /\ 0 \in Nat /\ avail - 0 \in Nat
    BY <1>1, <1>2, <1>10, SMT, Zenon, SMTT(30)
  <2> QED BY <1>7, <1>8, <1>10, <2>1, SMT, Zenon, SMTT(30)
<1>11. CASE pr # "rst" /\ pos < HEADER_LEN /\ head # 0 /\ r = Took("kReadHalf", head)
  <2>1. avail = head /\ head > 0 /\ b.last_read_pos + head < ReqLen
    BY <1>1, <1>2, <1>11, SMT, Zenon, SMTT(30)
  <2> QED BY <1>2, <1>8, <1>11, <2>1, SMT, Zenon, SMTT(30)
<1>12. CASE pr # "rst" /\ pos < ReqLen /\ body = 0 /\ r = Nothing(head)
  <2>1. avail = head /\ b.last_read_pos + head < ReqLen
    BY <1>1, <1>2, <1>3, <1>12, SMT, Zenon, SMTT(30)
  <2> QED BY <1>2, <1>7, <1>8, <1>12, <2>1, SMT, Zenon, SMTT(30)
<1>13. CASE pr # "rst" /\ body < missing /\ body # 0 /\ r = Took("kReadHalf", head + body)
  <2>1. avail = head + body /\ head + body > 0 /\ b.last_read_pos + (head + body) < ReqLen
    BY <1>1, <1>2, <1>3, <1>13, SMT, Zenon, SMTT(30)
  <2> QED BY <1>3, <1>8, <1>13, <2>1, SMT, Zenon, SMTT(30)
<1> QED BY <1>2, <1>6, <1>7, <1>9, <1>10, <1>11, <1>12, <1>13, SMT, Zenon, SMTT(30)

\* GetRequest gives up only on a client that has closed or reset the connection.
LEMMA ReadKeepsUp ==
  ASSUME NEW b \in Conn, NEW avail \in Nat, b.last_read_pos < ReqLen
  PROVE  GetRequest(b, avail, "up", MsgLen).rs \in {"kReadAll", "kReadHalf"}
<1>1. PICK pos \in Nat, head \in Nat : pos = b.last_read_pos /\ head = HeaderBytes(b, avail)
  BY BufferAssumption, SMT, Zenon, SMTT(30) DEF Conn, HeaderBytes, Least
<1>2. /\ pos + head < ReqLen /\ ReqLen = HEADER_LEN + MsgLen /\ ReqLen <= READ_BUFFER_SIZE
      /\ HEADER_LEN \in Nat /\ MsgLen \in Nat /\ READ_BUFFER_SIZE \in Nat
  BY <1>1, BufferAssumption, HotUpgradeAssumption, SMT, Zenon, SMTT(30)
     DEF ReqLen, HeaderBytes, Least, Conn
<1>3. ~(MsgLen + HEADER_LEN > READ_BUFFER_SIZE) /\ (MsgLen + HEADER_LEN) - (pos + head) # 0
  BY <1>2, SMT, Zenon, SMTT(30)
<1> QED BY <1>1, <1>3, SMT, Zenon, SMTT(30) DEF GetRequest

\* While New's end of the UNIX connection is open sendmsg does not fail.
LEMMA TransferSessionFdFailsNever ==
  ASSUME IInv, Kept, NEW p \in Server, NEW fe, TransferSessionFdFails(p, fe)
  PROVE  FALSE
BY Names, Zenon DEF TransferSessionFdFails, Transferable, Kept, ChannelKept, IInv, UnixOK, RolesOK

\* handle_unix_event has no reason to give up: unix_conn is set and Old is there.
LEMMA UnixConnCloseNever ==
  ASSUME IInv, Kept, NEW p \in Server, NEW fe \in fired[p], UnixConnClose(p, fe)
  PROVE  FALSE
<1>1. fe.fd \in Fd /\ fe.fd = srv[p].unix_conn_fd /\ (fe.mask = "HUP" \/ ~srv[p].unix_conn)
  BY FiredFd, Zenon DEF IInv, UnixConnClose, ForUnixConn, HandleUnixEventFails
<1>2. p = New
  BY <1>1, Names, Zenon DEF IInv, RolesOK
<1>3. srv[New].unix_conn /\ fdt[New][fe.fd] = UnixConn
  BY <1>1, <1>2, Names, SMT, Zenon, SMTT(30) DEF Kept, ChannelKept
<1>4. fdt[New][fe.fd] \in Conns
  BY <1>1, <1>2, <1>3, Zenon DEF Kept, HupOK
<1> QED BY <1>3, <1>4, Names, Zenon

\* A readable session: who reads it, and what becomes of it.  It is closed only if its
\* client is gone.
LEMMA ReadStep ==
  ASSUME IInv, NEW p \in Server, NEW fe \in fired[p], HandleRead(p, fe), NEW fd, fd = fe.fd
  PROVE  /\ fd \in Fd /\ fdt[p][fd] \in Conns /\ fd \in inet_conn_map[p]
         /\ ForNet(p, fe) /\ Handled(p, fe) /\ UNCHANGED <<srv, unix, backlog, tx, peer, cl>>
         /\ conn[p][fd] \in Conn /\ conn[p][fd].reply = 0 /\ conn[p][fd].last_write_pos = 0
         /\ peer[fdt[p][fd]] # "none"
         /\ \E r : /\ ReadOutcome(conn[p][fd], rx[fdt[p][fd]], peer[fdt[p][fd]], r)
                   /\ rx' = [rx EXCEPT ![fdt[p][fd]] = @ - r.nread]
                   /\ \/ /\ r.rs = "kReadAll" /\ conn' = [conn EXCEPT ![p][fd] = r.conn]
                         /\ ep' = ModEvent(p, fd, "OUT") /\ UNCHANGED <<inet_conn_map, fdt>>
                      \/ /\ r.rs = "kReadHalf" /\ conn' = [conn EXCEPT ![p][fd] = r.conn]
                         /\ UNCHANGED <<inet_conn_map, ep, fdt>>
                      \/ CloseConn(p, fd) /\ peer[fdt[p][fd]] # "up"
<1>1. /\ TypeOK /\ BufferOK /\ FiredOK /\ BacklogOK /\ ForNet(p, fe) /\ Handled(p, fe)
      /\ fe.mask = "IN" /\ fd \in inet_conn_map[p]
      /\ UNCHANGED <<srv, unix, backlog, tx, peer, cl>>
  BY Zenon DEF IInv, HandleRead
<1>2. fd \in Fd /\ fdt[p][fd] \in Conns
  BY <1>1, NetFile, Zenon
<1>3. PICK c, b, r : /\ c \in Conns /\ c = fdt[p][fd] /\ b = conn[p][fd]
                     /\ r = GetRequest(b, rx[c], peer[c], MsgLen)
  BY <1>2, Zenon
<1>4. b \in Conn /\ b.last_write_pos <= b.reply /\ b.last_read_pos < ReqLen /\ rx[c] \in Nat
  BY <1>1, <1>2, <1>3, SMT, Zenon, SMTT(30) DEF TypeOK, BufferOK
<1>5. b.reply = 0
  BY <1>1, <1>2, <1>3, Zenon DEF FiredOK
<1>6. b.last_write_pos = 0
  BY <1>4, <1>5, SMT, Zenon, SMTT(30) DEF Conn
<1>7. ReadOutcome(b, rx[c], peer[c], r)
  BY <1>3, <1>4, <1>6, GetRequestIs, Zenon
<1>8. peer[c] # "none"
  BY <1>1, <1>2, <1>3, Zenon DEF BacklogOK, Referenced
<1>9. /\ rx' = [rx EXCEPT ![c] = @ - r.nread]
      /\ \/ /\ r.rs = "kReadAll" /\ conn' = [conn EXCEPT ![p][fd] = r.conn]
            /\ ep' = ModEvent(p, fd, "OUT") /\ UNCHANGED <<inet_conn_map, fdt>>
         \/ /\ r.rs = "kReadHalf" /\ conn' = [conn EXCEPT ![p][fd] = r.conn]
            /\ UNCHANGED <<inet_conn_map, ep, fdt>>
         \/ CloseConn(p, fd) /\ r.rs \in {"kReadClose", "kReadError", "kFullError"}
  BY <1>3, Zenon DEF HandleRead
<1>10. peer[c] = "up" => r.rs \in {"kReadAll", "kReadHalf"}
  BY <1>3, <1>4, ReadKeepsUp, Zenon
<1>11. r.rs \in {"kReadClose", "kReadError", "kFullError"} => peer[c] # "up"
  BY <1>10, SMT, Zenon, SMTT(30)
<1> QED BY <1>1, <1>2, <1>3, <1>4, <1>5, <1>6, <1>7, <1>8, <1>9, <1>11, Zenon

\* A read only takes bytes; kReadHalf means that there are no more.
LEMMA ReadTakes ==
  ASSUME TypeOK, NEW c \in Conns, NEW b, NEW r, ReadOutcome(b, rx[c], peer[c], r),
         rx' = [rx EXCEPT ![c] = @ - r.nread]
  PROVE  /\ \A d \in Conns : rx'[d] > 0 => rx[d] > 0
         /\ r.rs = "kReadHalf" => ~(rx'[c] > 0)
<1>1. /\ rx'[c] = rx[c] - r.nread /\ rx[c] \in Nat /\ r.nread \in Nat
      /\ \A d \in Conns : d # c => rx'[d] = rx[d]
  BY SMT, Zenon, SMTT(30) DEF TypeOK, ReadOutcome
<1>2. r.rs = "kReadHalf" => rx[c] = r.nread
  BY Zenon DEF ReadOutcome
<1> QED BY <1>1, <1>2, SMT, Zenon, SMTT(30)

\* What SendReply (inet_conn.cc) makes of the object b when write() takes n bytes.
WriteOutcome(b, n, w) ==
    /\ w.conn \in Conn /\ w.conn.last_read_pos = b.last_read_pos
    /\ w.conn.last_write_pos <= w.conn.reply /\ Unsent(w.conn) = Unsent(b) - n
    /\ w.ws = "kWriteAll" => w.conn.reply = 0
    /\ w.ws # "kWriteAll" => w.conn.reply = b.reply

\* SendReply sends what write() took, no byte twice.
LEMMA SendReplyIs ==
  ASSUME NEW b \in Conn, b.last_write_pos <= b.reply, NEW n \in 1..Unsent(b),
         NEW w, w = SendReply(b, n)
  PROVE  WriteOutcome(b, n, w)
<1>1. /\ b.last_read_pos \in Nat /\ b.reply \in Nat /\ b.last_write_pos \in Nat /\ n \in Nat
      /\ n <= Unsent(b) /\ Unsent(b) = b.reply - b.last_write_pos
  BY SMT, Zenon, SMTT(30) DEF Conn, Unsent
<1>2. CASE n < Unsent(b)
  <2>1. w = [ws |-> "kWriteHalf", conn |-> [b EXCEPT !.last_write_pos = @ + n]]
    BY <1>2, ZenonT(60) DEF SendReply
  <2> QED BY <1>1, <1>2, <2>1, SMT, Zenon, SMTT(30) DEF Conn, Unsent, WriteOutcome
<1>3. CASE ~(n < Unsent(b))
  <2> DEFINE s == [b EXCEPT !.reply = 0]
             t == [s EXCEPT !.last_write_pos = 0]
  <2>1. w.ws = "kWriteAll" /\ w.conn = t
    BY <1>3, Zenon DEF SendReply
  <2>2. s \in Conn /\ s.last_read_pos = b.last_read_pos /\ s.reply = 0
    BY <1>1, Zenon DEF Conn
  <2> HIDE DEF s
  <2>3. t \in Conn /\ t.last_read_pos = b.last_read_pos /\ t.reply = 0 /\ t.last_write_pos = 0
    BY <2>2, Zenon DEF Conn
  <2> HIDE DEF t
  <2> QED BY <1>1, <1>3, <2>1, <2>3, SMT, Zenon, SMTT(30) DEF Unsent, WriteOutcome
<1> QED BY <1>2, <1>3, Zenon

\* What HandleWrite does to the session c of descriptor fd that is not reset.
WritesTo(p, fd, c) ==
    /\ peer[c] # "rst"
    /\ peer' = [peer EXCEPT ![c] = IF @ = "fin" THEN "rst" ELSE @]
    /\ UNCHANGED <<inet_conn_map, fdt>>
    /\ \E n, w :
          /\ n \in 1..Unsent(conn[p][fd]) /\ WriteOutcome(conn[p][fd], n, w)
          /\ conn' = [conn EXCEPT ![p][fd] = w.conn]
          /\ tx' = [tx EXCEPT ![c] = @ + n]
          /\ \/ w.ws = "kWriteAll" /\ ep' = ModEvent(p, fd, "IN")
             \/ w.ws # "kWriteAll" /\ UNCHANGED ep

\* A writable session: part of the reply goes out, or it is closed because the client has
\* reset it.
LEMMA WriteStep ==
  ASSUME IInv, NEW p \in Server, NEW fe \in fired[p], HandleWrite(p, fe), NEW fd, fd = fe.fd
  PROVE  /\ fd \in Fd /\ fdt[p][fd] \in Conns /\ fd \in inet_conn_map[p]
         /\ ForNet(p, fe) /\ Handled(p, fe) /\ UNCHANGED <<srv, unix, backlog, rx, cl>>
         /\ conn[p][fd] \in Conn /\ conn[p][fd].last_write_pos <= conn[p][fd].reply
         /\ \/ WritesTo(p, fd, fdt[p][fd])
            \/ peer[fdt[p][fd]] = "rst" /\ CloseConn(p, fd) /\ UNCHANGED <<tx, peer>>
<1>1. /\ TypeOK /\ ForNet(p, fe) /\ Handled(p, fe)
      /\ fd \in inet_conn_map[p] /\ UNCHANGED <<srv, unix, backlog, rx, cl>>
  BY Zenon DEF IInv, HandleWrite
<1>2. fd \in Fd /\ fdt[p][fd] \in Conns
  BY <1>1, NetFile, Zenon
<1>3. PICK c, b : c \in Conns /\ c = fdt[p][fd] /\ b = conn[p][fd]
  BY <1>2, Zenon
<1>4. b \in Conn /\ b.last_write_pos <= b.reply
  BY <1>1, <1>2, <1>3, SMT, Zenon, SMTT(30) DEF TypeOK
<1>5. CASE peer[c] # "rst"
  <2>1. PICK n, w :
          /\ n \in 1..Unsent(b) /\ w = SendReply(b, n)
          /\ conn' = [conn EXCEPT ![p][fd] = w.conn]
          /\ tx' = [tx EXCEPT ![c] = @ + n]
          /\ ep' = IF w.ws = "kWriteAll" THEN ModEvent(p, fd, "IN") ELSE ep
    BY <1>3, <1>5, ZenonT(60) DEF HandleWrite
  <2>2. WriteOutcome(b, n, w)
    BY <1>4, <2>1, SendReplyIs, Zenon
  <2>3. peer' = [peer EXCEPT ![c] = IF @ = "fin" THEN "rst" ELSE @]
        /\ UNCHANGED <<inet_conn_map, fdt>>
    BY <1>3, <1>5, Zenon DEF HandleWrite
  <2>4. \/ w.ws = "kWriteAll" /\ ep' = ModEvent(p, fd, "IN")
        \/ w.ws # "kWriteAll" /\ UNCHANGED ep
    BY <2>1, Zenon
  <2>5. WritesTo(p, fd, c)
    BY <1>3, <1>5, <2>1, <2>2, <2>3, <2>4, Zenon DEF WritesTo
  <2> QED BY <1>1, <1>2, <1>3, <1>4, <2>5, Zenon
<1>6. CASE peer[c] = "rst"
  <2>1. CloseConn(p, fd) /\ UNCHANGED <<tx, peer>>
    BY <1>3, <1>6, Zenon DEF HandleWrite
  <2> QED BY <1>1, <1>2, <1>3, <1>4, <1>6, <2>1, Zenon
<1> QED BY <1>5, <1>6, Zenon
-----------------------------------------------------------------------------
(***************************************************************************)
(* Most steps open, close or watch one descriptor of one process.  What    *)
(* each part of IInv needs of such a step.                                 *)
(***************************************************************************)

\* Descriptor fd of process p gets file f and epoll entry w; no other one changes.
SetSlot(p, fd, f, w) ==
    /\ fdt'[p][fd] = f /\ ep'[p][fd] = w
    /\ \A q \in Server, g \in Fd :
          (q = p /\ g = fd) \/ (fdt'[q][g] = fdt[q][g] /\ ep'[q][g] = ep[q][g])

\* No connection object but that of descriptor fd of process p changes.
ConnsElsewhere(p, fd) ==
    \A q \in Server, g \in Fd : (q = p /\ g = fd) \/ conn'[q][g] = conn[q][g]

\* The numbers main and Epoll keep stay the same, or named fd or nothing.
NamesKept(p, fd) ==
    \A q \in Server :
        /\ \/ srv'[q].inet_listen_fd = srv[q].inet_listen_fd
           \/ q = p /\ srv[q].inet_listen_fd \in {fd, NoFd}
        /\ \/ srv'[q].unix_listen_fd = srv[q].unix_listen_fd
           \/ q = p /\ srv[q].unix_listen_fd \in {fd, NoFd}
        /\ \/ srv'[q].unix_conn_fd = srv[q].unix_conn_fd
           \/ q = p /\ srv[q].unix_conn_fd \in {fd, NoFd}

\* The number main or Epoll keeps for the file f of descriptor fd is fd.
Named(p, fd, f) ==
    /\ f = InetListen => fd = srv[p].inet_listen_fd
    /\ f = UnixListen => fd = srv[p].unix_listen_fd
    /\ f = UnixConn => fd = srv[p].unix_conn_fd

\* The listening socket stays under the number a process has for it.
ListenNamed ==
    \A q \in Server : srv[q].inet_listen_fd # NoFd /\ srv[q].pc # "exit"
        => fdt[q][srv[q].inet_listen_fd] = InetListen

\* A process that listens does so on the same descriptor, which is left alone, or on fd.
ListensOn(p, fd, f) ==
    \A q \in Server : srv'[q].inet_listen_fd # NoFd /\ srv'[q].pc # "exit" =>
        \/ q = p /\ srv'[q].inet_listen_fd = fd /\ f = InetListen
        \/ /\ srv'[q].inet_listen_fd = srv[q].inet_listen_fd /\ srv[q].pc # "exit"
           /\ q # p \/ fdt[p][fd] # InetListen

\* open, close and epoll_ctl on one descriptor of one process.
LEMMA SlotSet ==
  ASSUME TypeOK, NEW p \in Server, NEW fd \in Fd, NEW f, NEW w,
         fdt' = [fdt EXCEPT ![p][fd] = f], ep' = [ep EXCEPT ![p][fd] = w]
  PROVE  SetSlot(p, fd, f, w)
BY ZenonT(60) DEF SetSlot, TypeOK

\* The same for the InetConn a key of inet_conn_map points to.
LEMMA ConnSet ==
  ASSUME TypeOK, NEW p \in Server, NEW fd \in Fd, NEW b, conn' = [conn EXCEPT ![p][fd] = b]
  PROVE  ConnsElsewhere(p, fd)
BY ZenonT(60) DEF ConnsElsewhere, TypeOK

\* The names stay right when the one descriptor that changes is named.
LEMMA SlotNames ==
  ASSUME NamesOK, NEW p \in Server, NEW fd \in Fd, NEW f, NEW w,
         SetSlot(p, fd, f, w), ConnsElsewhere(p, fd), NamesKept(p, fd), Named(p, fd, f)',
         w.file # NoFile => w.file = f, w.file # UnixClient,
         f \in Conns => conn'[p][fd].reply = 0
  PROVE  NamesOK'
<1> SUFFICES ASSUME NEW q \in Server, NEW g \in Fd
             PROVE  /\ ep'[q][g].file # NoFile => ep'[q][g].file = fdt'[q][g]
                    /\ ep'[q][g].file # UnixClient
                    /\ fdt'[q][g] = InetListen => g = srv'[q].inet_listen_fd
                    /\ fdt'[q][g] = UnixListen => g = srv'[q].unix_listen_fd
                    /\ fdt'[q][g] = UnixConn => g = srv'[q].unix_conn_fd
                    /\ fdt'[q][g] \in Conns /\ ep'[q][g].mask # "OUT" => conn'[q][g].reply = 0
  BY Zenon DEF NamesOK
<1>1. CASE q = p /\ g = fd
  BY <1>1, ZenonT(60) DEF SetSlot, Named
<1>2. CASE ~(q = p /\ g = fd)
  <2>1. fdt'[q][g] = fdt[q][g] /\ ep'[q][g] = ep[q][g] /\ conn'[q][g] = conn[q][g]
    BY <1>2, Zenon DEF SetSlot, ConnsElsewhere
  <2>2. q = p => g \notin {fd, NoFd}
    BY <1>2, Names, Zenon
  <2>3. fdt[q][g] = InetListen => g = srv'[q].inet_listen_fd
    BY <2>2, Zenon DEF NamesOK, NamesKept
  <2>4. fdt[q][g] = UnixListen => g = srv'[q].unix_listen_fd
    BY <2>2, Zenon DEF NamesOK, NamesKept
  <2>5. fdt[q][g] = UnixConn => g = srv'[q].unix_conn_fd
    BY <2>2, Zenon DEF NamesOK, NamesKept
  <2>6. /\ ep[q][g].file # NoFile => ep[q][g].file = fdt[q][g]
        /\ ep[q][g].file # UnixClient
        /\ fdt[q][g] \in Conns /\ ep[q][g].mask # "OUT" => conn[q][g].reply = 0
    BY Zenon DEF NamesOK
  <2> QED BY <2>1, <2>3, <2>4, <2>5, <2>6, SMT, Zenon, SMTT(30)
<1> QED BY <1>1, <1>2, Zenon

\* The events still to be handled stay accurate when none is about that descriptor.
LEMMA SlotFired ==
  ASSUME FiredOK, NEW p \in Server, NEW fd \in Fd, NEW f, NEW w,
         SetSlot(p, fd, f, w), ConnsElsewhere(p, fd),
         \A q \in Server : \A ge \in fired'[q] :
            /\ ge \in fired[q] /\ ge.fd \in Fd /\ ~(q = p /\ ge.fd = fd)
            /\ ge.fd = srv'[q].inet_listen_fd => backlog' # <<>>
  PROVE  FiredOK'
<1>1. \A q \in Server : \A ge \in fired'[q] :
         /\ ge \in fired[q]
         /\ fdt'[q][ge.fd] = fdt[q][ge.fd] /\ ep'[q][ge.fd] = ep[q][ge.fd]
         /\ conn'[q][ge.fd] = conn[q][ge.fd]
         /\ ge.fd = srv'[q].inet_listen_fd => backlog' # <<>>
  BY Zenon DEF SetSlot, ConnsElsewhere
<1> QED BY <1>1, SMT, Zenon, SMTT(30) DEF FiredOK

\* Neither changes when no descriptor does.
LEMMA SameNames ==
  ASSUME NamesOK, UNCHANGED <<conn, fdt, ep>>,
         \A q \in Server : /\ srv'[q].inet_listen_fd = srv[q].inet_listen_fd
                            /\ srv'[q].unix_listen_fd = srv[q].unix_listen_fd
                            /\ srv'[q].unix_conn_fd = srv[q].unix_conn_fd
  PROVE  NamesOK'
BY SMT, Zenon, SMTT(30) DEF NamesOK

\* The events still to be handled stay accurate when no descriptor changes.
LEMMA SameFired ==
  ASSUME FiredOK, UNCHANGED <<conn, fdt, ep, backlog>>,
         \A q \in Server : fired'[q] \subseteq fired[q],
         \A q \in Server : srv'[q].inet_listen_fd = srv[q].inet_listen_fd
  PROVE  FiredOK'
BY SMT, Zenon, SMTT(30) DEF FiredOK

\* There is no event about a descriptor that is free.
LEMMA FreeUnfired ==
  ASSUME NamesOK, FiredOK, NEW p \in Server, NEW fd \in Fd, fdt[p][fd] = NoFile
  PROVE  ep[p][fd].file = NoFile /\ \A ge \in fired[p] : ge.fd # fd
<1>1. ep[p][fd].file = NoFile
  BY Zenon DEF NamesOK
<1> QED BY <1>1, Zenon DEF FiredOK

\* inet_listen_fd stays the listening socket when another descriptor changes.
LEMMA SlotListen ==
  ASSUME TypeOK, ListenOK, NEW p \in Server, NEW fd \in Fd, NEW f, NEW w,
         SetSlot(p, fd, f, w), ListensOn(p, fd, f)
  PROVE  ListenNamed'
<1> SUFFICES ASSUME NEW q \in Server, srv'[q].inet_listen_fd # NoFd, srv'[q].pc # "exit"
             PROVE  fdt'[q][srv'[q].inet_listen_fd] = InetListen
  BY Zenon DEF ListenNamed
<1>1. CASE q = p /\ srv'[q].inet_listen_fd = fd /\ f = InetListen
  BY <1>1, Zenon DEF SetSlot
<1>2. CASE /\ srv'[q].inet_listen_fd = srv[q].inet_listen_fd /\ srv[q].pc # "exit"
           /\ q # p \/ fdt[p][fd] # InetListen
  <2>1. srv[q].inet_listen_fd \in Fd
    BY <1>2, SrvTypes, Zenon
  <2>2. fdt[q][srv[q].inet_listen_fd] = InetListen
    BY <1>2, Zenon DEF ListenOK
  <2> QED BY <1>2, <2>1, <2>2, Zenon DEF SetSlot
<1> QED BY <1>1, <1>2, Zenon DEF ListensOn

\* So it does when no number changes and the descriptor is another socket.
LEMMA SlotListenKept ==
  ASSUME TypeOK, ListenOK, NEW p \in Server, NEW fd \in Fd, NEW f, NEW w,
         SetSlot(p, fd, f, w), fdt[p][fd] # InetListen,
         \A q \in Server : srv'[q].inet_listen_fd = srv[q].inet_listen_fd,
         \A q \in Server : srv'[q].pc # "exit" => srv[q].pc # "exit"
  PROVE  ListenNamed'
<1>1. ListensOn(p, fd, f)
  BY Zenon DEF ListensOn
<1> QED BY <1>1, SlotListen, Zenon

\* No process gets a session when the descriptor that changes gets none.
LEMMA SlotSessions ==
  ASSUME NEW p \in Server, NEW fd \in Fd, NEW f, NEW w, SetSlot(p, fd, f, w), f \notin Conns,
         \A d \in Conns : InFlight(d)' => InFlight(d),
         \A q \in Server : inet_conn_map'[q] \subseteq inet_conn_map[q]
  PROVE  /\ \A d \in Conns : Referenced(d)' => Referenced(d)
         /\ \A q \in Server, g \in Fd, d \in Conns :
               Holds(q, g, d)' => Holds(q, g, d) /\ ~(q = p /\ g = fd)
<1>1. \A d \in Conns : \A q \in Server, g \in Fd :
         fdt'[q][g] = d => fdt[q][g] = d /\ ~(q = p /\ g = fd)
  BY Zenon DEF SetSlot
<1>2. \A d \in Conns : Referenced(d)' => Referenced(d)
  <2> SUFFICES ASSUME NEW d \in Conns, Referenced(d)' PROVE Referenced(d)
    BY Zenon
  <2>1. CASE InFlight(d)'
    BY <2>1, Zenon DEF Referenced
  <2>2. CASE \E q \in Server, g \in Fd : fdt'[q][g] = d
    BY <2>2, <1>1, ZenonT(60) DEF Referenced
  <2> QED BY <2>1, <2>2, Zenon DEF Referenced
<1>3. \A q \in Server, g \in Fd, d \in Conns :
         Holds(q, g, d)' => Holds(q, g, d) /\ ~(q = p /\ g = fd)
  BY <1>1, ZenonT(60) DEF Holds
<1> QED BY <1>2, <1>3, Zenon

\* New's end of the UNIX connection stays as it is when another descriptor changes.
LEMMA SlotNewEnd ==
  ASSUME NEW p \in Server, NEW fd \in Fd, NEW f, NEW w, SetSlot(p, fd, f, w),
         unix'.queued = unix.queued,
         p = Old \/ (fdt[p][fd] # UnixConn /\ f # UnixConn)
  PROVE  NewEndOpen' = NewEndOpen
<1>1. \A g \in Fd : fdt'[New][g] = UnixConn <=> fdt[New][g] = UnixConn
  BY Names, SMT, Zenon, SMTT(30) DEF SetSlot
<1> QED BY <1>1, Zenon DEF NewEndOpen

\* A step that gives no session to a process, and leaves alone the one Old waits for,
\* keeps one reader per session.
LEMMA FewerReaders ==
  ASSUME OneReader,
         \A q \in Server, g \in Fd, d \in Conns : Holds(q, g, d)' => Holds(q, g, d),
         \A d \in Conns : InFlight(d)' => InFlight(d),
         \A d \in Conns, g \in Fd :
            HandingOver(d) /\ Holds(Old, g, d)' /\ conn[Old][g] = NewConn =>
               HandingOver(d)' /\ conn'[Old][g] = NewConn
  PROVE  OneReader'
<1> SUFFICES ASSUME NEW d \in Conns, NEW g \in Fd, NEW h \in Fd
             PROVE  /\ \A q \in Server : Holds(q, g, d)' /\ Holds(q, h, d)' => g = h
                    /\ Holds(Old, g, d)' /\ (Holds(New, h, d)' \/ InFlight(d)') =>
                          HandingOver(d)' /\ conn'[Old][g] = NewConn
                    /\ ~(Holds(New, h, d)' /\ InFlight(d)')
  BY Zenon DEF OneReader
<1>1. \A q \in Server : Holds(q, g, d) /\ Holds(q, h, d) => g = h
  BY Zenon DEF OneReader
<1>2. Holds(Old, g, d) /\ (Holds(New, h, d) \/ InFlight(d)) =>
         HandingOver(d) /\ conn[Old][g] = NewConn
  BY Zenon DEF OneReader
<1>3. ~(Holds(New, h, d) /\ InFlight(d))
  BY Zenon DEF OneReader
<1> QED BY <1>1, <1>2, <1>3, Names, Zenon

\* A request and the buffer it is read into are not empty.
LEMMA Sizes ==
  0 < ReqLen /\ 0 < READ_BUFFER_SIZE /\ \A x \in Nat : x < ReqLen => x < READ_BUFFER_SIZE
BY BufferAssumption, HotUpgradeAssumption, SMT, Zenon, SMTT(30) DEF ReqLen

\* A new InetConn has nothing buffered and owes nothing.
LEMMA NewConnIs ==
  /\ NewConn \in Conn /\ NewConn.reply = 0 /\ NewConn.last_read_pos = 0
  /\ NewConn.last_write_pos = 0 /\ NewConn.last_write_pos <= NewConn.reply
  /\ NewConn.last_read_pos < ReqLen
BY Sizes, SMT, Zenon, SMTT(30) DEF NewConn, Conn

\* The objects keep to their buffers when the one that changes does.
LEMMA ConnBuffers ==
  ASSUME TypeOK, BufferOK, NEW p \in Server, NEW fd \in Fd, NEW b \in Conn,
         conn' = [conn EXCEPT ![p][fd] = b],
         b.last_read_pos < ReqLen, b.last_write_pos <= b.reply
  PROVE  /\ BufferOK' /\ conn' \in [Server -> [Fd -> Conn]]
         /\ \A q \in Server, g \in Fd : conn'[q][g].last_read_pos < READ_BUFFER_SIZE
                                        /\ conn'[q][g].last_write_pos <= conn'[q][g].reply
<1>1. b.last_read_pos < READ_BUFFER_SIZE
  BY Sizes, Zenon DEF Conn
<1>2. conn' \in [Server -> [Fd -> Conn]] /\ \A q \in Server, g \in Fd :
         (q = p /\ g = fd /\ conn'[q][g] = b) \/ conn'[q][g] = conn[q][g]
  BY Zenon DEF TypeOK
<1>3. \A q \in Server, g \in Fd : conn[q][g].last_read_pos < READ_BUFFER_SIZE
                                  /\ conn[q][g].last_write_pos <= conn[q][g].reply
  BY Zenon DEF TypeOK
<1>4. \A q \in Server, g \in Fd : conn'[q][g].last_read_pos < READ_BUFFER_SIZE
                                  /\ conn'[q][g].last_write_pos <= conn'[q][g].reply
  BY <1>1, <1>2, <1>3, Zenon
<1>5. BufferOK'
  BY <1>2, Zenon DEF BufferOK
<1> QED BY <1>2, <1>4, <1>5, Zenon

-----------------------------------------------------------------------------
(***************************************************************************)
(* How the watches, the open connections and the fired events change.      *)
(***************************************************************************)

\* New data on a socket changes neither what is watched nor for what.
LEMMA RearmTypes ==
  ASSUME TypeOK, NEW S, ep' = Rearm(S)
  PROVE  /\ ep' \in [Server -> [Fd -> Watch]]
         /\ \A p \in Server, fd \in Fd :
               ep'[p][fd].file = ep[p][fd].file /\ ep'[p][fd].mask = ep[p][fd].mask
<1>1. \A p \in Server, fd \in Fd : ep[p][fd] \in Watch
  BY ZenonT(60) DEF TypeOK
<1>2. \A p \in Server, fd \in Fd : [ep[p][fd] EXCEPT !.armed = TRUE] \in Watch
  BY <1>1, Zenon DEF Watch
<1> QED BY <1>1, <1>2, Zenon DEF Rearm, Watch

\* Re-arming an edge does not change what the descriptors stand for.
LEMMA SameWatch ==
  ASSUME NamesOK, UNCHANGED <<srv, conn, fdt>>,
         \A p \in Server, fd \in Fd :
               ep'[p][fd].file = ep[p][fd].file /\ ep'[p][fd].mask = ep[p][fd].mask
  PROVE  NamesOK'
BY SMT, Zenon, SMTT(30) DEF NamesOK

\* Creating an InetConn for a descriptor and adding it to epoll keeps the types.
LEMMA OpenConnTypes ==
  ASSUME TypeOK, NEW p \in Server, NEW fd \in Fd, NEW c \in Conns, OpenConn(p, fd, c)
  PROVE  /\ fdt' \in [Server -> [Fd -> File]]
         /\ ep' \in [Server -> [Fd -> Watch]]
         /\ inet_conn_map' \in [Server -> SUBSET Fd]
         /\ conn' \in [Server -> [Fd -> Conn]]
         /\ \A q \in Server, g \in Fd :
              /\ conn'[q][g].last_read_pos < READ_BUFFER_SIZE
              /\ conn'[q][g].last_write_pos <= conn'[q][g].reply
<1>1. fdt' \in [Server -> [Fd -> File]]
  BY Zenon DEF TypeOK, OpenConn, File
<1>2. ep' \in [Server -> [Fd -> Watch]]
  BY Zenon DEF TypeOK, OpenConn, AddEvent, Watch, File
<1>3. inet_conn_map' \in [Server -> SUBSET Fd]
  BY Zenon DEF TypeOK, OpenConn
<1>4. NewConn \in Conn
  BY Zenon DEF NewConn, Conn
<1>5. conn' \in [Server -> [Fd -> Conn]]
  BY <1>4, Zenon DEF TypeOK, OpenConn
<1>6. \A q \in Server, g \in Fd :
              /\ conn'[q][g].last_read_pos < READ_BUFFER_SIZE
              /\ conn'[q][g].last_write_pos <= conn'[q][g].reply
  BY BufferAssumption, SMT, Zenon, SMTT(30) DEF TypeOK, OpenConn, NewConn
<1> QED BY <1>1, <1>2, <1>3, <1>5, <1>6, Zenon

\* Events that stay to be handled stay accurate when the step leaves their
\* descriptors, epoll entries and pending replies alone.
LEMMA FiredKept ==
  ASSUME FiredOK,
         \A q \in Server : \A ge \in fired'[q] :
            /\ ge \in fired[q]
            /\ ep'[q][ge.fd].file = ep[q][ge.fd].file
            /\ fdt'[q][ge.fd] = fdt[q][ge.fd]
            /\ conn'[q][ge.fd].reply = conn[q][ge.fd].reply
            /\ ge.fd = srv'[q].inet_listen_fd => backlog' # <<>>
  PROVE  FiredOK'
BY SMT, Zenon, SMTT(30) DEF FiredOK

\* When Old waits for no reply, nothing is on the UNIX socket: the protocol of
\* unix_client.cc has at most one message or reply outstanding.
LEMMA NoneOutstanding ==
  ASSUME TypeOK, ReplyMatches, srv[Old].pc \notin {"reply_listen", "reply_session"}
  PROVE  unix.msgs = <<>> /\ unix.replies = 0 /\ Len(unix.msgs) = 0
<1>1. Len(unix.msgs) + unix.replies = 0
  BY Zenon DEF ReplyMatches
<1> QED BY <1>1, UnixTypes, SMT, Zenon, SMTT(30)

\* A step that opens no connection and takes none from the backlog keeps the
\* connections of the backlog apart from those the servers have.
LEMMA SocketsKeepBacklog ==
  ASSUME IInv, UNCHANGED <<backlog, cl>>, \A d \in Conns : Referenced(d)' => Referenced(d),
         \A c \in Conns : peer'[c] = "none" <=> peer[c] = "none"
  PROVE  BacklogOK'
<1>1. BacklogOK /\ \A i \in DOMAIN backlog : backlog[i] \in Conns
  BY SMT, Zenon, SMTT(30) DEF IInv, TypeOK
<1>2. \A i \in DOMAIN backlog' : peer'[backlog'[i]] # "none"
  BY <1>1, Zenon DEF BacklogOK
<1>3. \A c \in Conns :
          peer'[c] = "none" \/ (\E i \in DOMAIN backlog' : backlog'[i] = c) => ~Referenced(c)'
  BY <1>1, Zenon DEF BacklogOK
<1>4. \A k \in Clients : \A j \in DOMAIN ClientFds[k] : ClientFds[k][j] \in Conns
  BY HotUpgradeAssumption, SMT, Zenon, SMTT(30)
<1>5. \A k \in Clients :
          /\ cl'[k].i \in DOMAIN ClientFds[k]
          /\ cl'[k].pc = "connect" =>
                \A j \in DOMAIN ClientFds[k] : cl'[k].i <= j => peer'[ClientFds[k][j]] = "none"
  BY <1>1, <1>4, Zenon DEF BacklogOK
<1> QED BY <1>1, <1>2, <1>3, <1>5, Zenon DEF BacklogOK

\* Closing a connection on error or end of file preserves IInv.
LEMMA NetClose ==
  ASSUME IInv, NEW p \in Server, NEW fe \in fired[p], ForNet(p, fe), Handled(p, fe),
         CloseConn(p, fe.fd),
         rx' \in [Conns -> Nat], tx' \in [Conns -> Nat],
         peer' \in [Conns -> {"none", "up", "fin", "rst"}],
         \A c \in Conns : peer'[c] = "none" <=> peer[c] = "none",
         UNCHANGED <<srv, unix, backlog, cl, trigger>>
  PROVE  IInv'
<1>a. TypeOK /\ RolesOK /\ BufferOK /\ NamesOK /\ FiredOK /\ ListenOK /\ SessionOK
    /\ UnixOK /\ BacklogOK /\ OneReader /\ ReplyMatches
  BY Zenon DEF IInv
<1>b. /\ fired' \in [Server -> SUBSET FiredEvent]
      /\ \A q \in Server : \A ge \in fired'[q] :
            ge \in fired[q] /\ ge.fd \in Fd /\ (q = p => ge.fd # fe.fd)
  BY HandledFacts, Zenon
<1>c. PICK fd \in Fd : fd = fe.fd /\ fdt[p][fd] \in Conns
  BY NetFile, Zenon
<1>d. srv[p].pc = "loop"
  BY Zenon DEF ForNet
<1>e. NoWatch \in Watch /\ NoWatch.file = NoFile
  BY Names, Zenon DEF NoWatch, Watch
<1>f. /\ ep' = [ep EXCEPT ![p][fd] = NoWatch] /\ fdt' = [fdt EXCEPT ![p][fd] = NoFile]
      /\ inet_conn_map' = [inet_conn_map EXCEPT ![p] = @ \ {fd}]
      /\ conn' = [conn EXCEPT ![p][fd] = NewConn]
  BY <1>c, Zenon DEF CloseConn, DelEvent
<1>g. SetSlot(p, fd, NoFile, NoWatch)
  BY <1>a, <1>f, SlotSet, Zenon
<1>h. ConnsElsewhere(p, fd)
  BY <1>a, <1>f, ConnSet, Zenon
<1>j. ep' \in [Server -> [Fd -> Watch]] /\ fdt' \in [Server -> [Fd -> File]]
  BY <1>a, <1>e, <1>f, Names, Zenon DEF TypeOK
<1>k. /\ inet_conn_map' \in [Server -> SUBSET Fd]
      /\ \A q \in Server : inet_conn_map'[q] \subseteq inet_conn_map[q]
                           /\ (q # p => inet_conn_map'[q] = inet_conn_map[q])
  BY <1>a, <1>f, Zenon DEF TypeOK
<1>2. /\ BufferOK' /\ conn' \in [Server -> [Fd -> Conn]]
      /\ \A q \in Server, g \in Fd : conn'[q][g].last_read_pos < READ_BUFFER_SIZE
                                     /\ conn'[q][g].last_write_pos <= conn'[q][g].reply
  BY <1>a, <1>f, NewConnIs, ConnBuffers, Zenon
<1>1. TypeOK'
  BY <1>2, <1>a, <1>b, <1>j, <1>k, Zenon DEF TypeOK
<1>3. NamesOK'
  <2>1. NamesKept(p, fd) /\ Named(p, fd, NoFile)'
    BY Names, Zenon DEF NamesKept, Named
  <2> QED BY <2>1, <1>a, <1>e, <1>g, <1>h, Names, SlotNames, Zenon
<1>4. FiredOK'
  <2>1. \A q \in Server : \A ge \in fired'[q] :
           /\ ge \in fired[q] /\ ge.fd \in Fd /\ ~(q = p /\ ge.fd = fd)
           /\ ge.fd = srv'[q].inet_listen_fd => backlog' # <<>>
    BY <1>a, <1>b, <1>c, Zenon DEF FiredOK
  <2> QED BY <2>1, <1>a, <1>g, <1>h, SlotFired, Zenon
<1>5. RolesOK' /\ ListenOK'
  <2>1. fired'[Old] \subseteq fired[Old]
    BY <1>b, Names, Zenon
  <2>2. fdt[p][fd] # InetListen
    BY <1>c, Names, Zenon
  <2>3. ListenNamed'
    BY <2>2, <1>a, <1>g, SlotListenKept, Zenon
  <2> QED BY <2>1, <2>3, <1>a, Zenon DEF RolesOK, ListenOK, ListenNamed
<1>i. srv[Old].pc = "reply_session" =>
         /\ p = New /\ srv[Old].session_fd \in Fd
         /\ \A g \in Fd : /\ conn'[Old][g] = conn[Old][g] /\ fdt'[Old][g] = fdt[Old][g]
                          /\ g \in inet_conn_map'[Old] <=> g \in inet_conn_map[Old]
  <2>1. srv[Old].pc = "reply_session" => srv[Old].session_fd \in Fd /\ p = New
    BY <1>a, <1>d, Names, Zenon DEF SessionOK, TypeOK
  <2>2. p = New => \A g \in Fd : conn'[Old][g] = conn[Old][g] /\ fdt'[Old][g] = fdt[Old][g]
    BY <1>g, <1>h, Names, Zenon DEF SetSlot, ConnsElsewhere
  <2>3. p = New => inet_conn_map'[Old] = inet_conn_map[Old]
    BY <1>k, Names, Zenon
  <2> QED BY <2>1, <2>2, <2>3, Zenon
<1>6. SessionOK'
  BY <1>a, <1>b, <1>i, Names, Zenon DEF SessionOK
<1>7. UnixOK' /\ ReplyMatches'
  <2>1. NewEndOpen' = NewEndOpen
    BY <1>c, <1>g, Names, SlotNewEnd, Zenon
  <2>2. UnixOK'
    BY <2>1, <1>a, <1>i, Zenon DEF UnixOK
  <2>3. ReplyMatches'
    BY <2>1, <1>a, Zenon DEF ReplyMatches
  <2> QED BY <2>2, <2>3, Zenon
<1>l. \A d \in Conns : InFlight(d)' => InFlight(d)
  BY Zenon DEF InFlight
<1>m. /\ \A d \in Conns : Referenced(d)' => Referenced(d)
      /\ \A q \in Server, g \in Fd, d \in Conns : Holds(q, g, d)' => Holds(q, g, d)
  BY <1>g, <1>k, <1>l, Names, SlotSessions, Zenon
<1>8. BacklogOK'
  BY <1>m, SocketsKeepBacklog, Zenon
<1>9. OneReader'
  <2>1. \A d \in Conns : HandingOver(d) =>
           HandingOver(d)' /\ \A g \in Fd : conn'[Old][g] = conn[Old][g]
    BY <1>i, Zenon DEF HandingOver
  <2> QED BY <2>1, <1>a, <1>l, <1>m, FewerReaders, Zenon
<1> QED BY <1>1, <1>2, <1>3, <1>4, <1>5, <1>6, <1>7, <1>8, <1>9, Zenon DEF IInv

-----------------------------------------------------------------------------
(***************************************************************************)
(* The initial states satisfy IInv, and no step of a client disturbs it    *)
(* (hot_upgrade_demo/client.cc).                                           *)
(***************************************************************************)

\* IInv holds when Old listens and New has not been started.
LEMMA InitIInv == Init => IInv
<1> SUFFICES ASSUME Init PROVE IInv
  BY Zenon
<1>1. NewConn \in Conn /\ NoWatch \in Watch
  BY Names, Zenon DEF NewConn, Conn, NoWatch, Watch
<1>2. 1 \in Fd
  BY HotUpgradeAssumption, SMT, Zenon, SMTT(30) DEF Fd
<1>3. srv \in [Server -> SrvState]
  BY <1>2, Zenon DEF Init, SrvState
<1>4. ep \in [Server -> [Fd -> Watch]]
  BY <1>1, Names, Zenon DEF Init, Watch
<1>5. cl \in [Clients -> ClientState]
  BY Zenon DEF Init, ClientState
<1>6. fdt \in [Server -> [Fd -> File]]
  BY Names, Zenon DEF Init, InetServerListen
<1>7. TypeOK
  <2>1. \A p \in Server, fd \in Fd : conn[p][fd] = NewConn
    BY Zenon DEF Init
  <2>2. conn \in [Server -> [Fd -> Conn]] /\ inet_conn_map \in [Server -> SUBSET Fd]
        /\ fired \in [Server -> SUBSET FiredEvent]
    BY <1>1, Zenon DEF Init
  <2>3. unix \in [queued : BOOLEAN, msgs : Seq(Message), replies : Nat]
    BY SMT, Zenon, SMTT(30) DEF Init
  <2>4. backlog \in Seq(Conns)
    BY SMT, Zenon, SMTT(30) DEF Init
  <2>7. trigger \in BOOLEAN
    BY Zenon DEF Init
  <2>6. /\ rx \in [Conns -> Nat] /\ tx \in [Conns -> Nat]
        /\ peer \in [Conns -> {"none", "up", "fin", "rst"}]
    BY Zenon DEF Init
  <2>5. NewConn.last_read_pos < READ_BUFFER_SIZE /\ NewConn.last_write_pos <= NewConn.reply
    BY Sizes, NewConnIs, Zenon
  <2> QED BY <1>3, <1>4, <1>5, <1>6, <2>1, <2>2, <2>3, <2>4, <2>5, <2>6, <2>7, Zenon
             DEF TypeOK
<1>8. RolesOK /\ BufferOK
  BY BufferAssumption, HotUpgradeAssumption, Names, SMT, Zenon, SMTT(30)
     DEF Init, RolesOK, BufferOK, ReqLen,
     NewConn
<1>9. NamesOK
  BY Names, ZenonT(60) DEF Init, NamesOK, InetServerListen, NoWatch, NewConn
<1>10. FiredOK /\ SessionOK
  BY Names, Zenon DEF Init, FiredOK, SessionOK
<1>11. ListenOK
  BY <1>2, Names, ZenonT(60) DEF Init, ListenOK, InetServerListen
<1>12. UnixOK /\ ReplyMatches
  BY Names, SMT, Zenon, SMTT(30) DEF Init, UnixOK, ReplyMatches
<1>13. \A c \in Conns : ~Referenced(c)
  BY Names, SMT, Zenon, SMTT(30) DEF Init, Referenced, InFlight, InetServerListen
<1>14. BacklogOK
  BY <1>13, HotUpgradeAssumption, SMT, Zenon, SMTT(30) DEF Init, BacklogOK
<1>15. OneReader
  BY Names, ZenonT(60) DEF Init, OneReader, Holds
<1> QED BY <1>7, <1>8, <1>9, <1>10, <1>11, <1>12, <1>14, <1>15, Zenon DEF IInv

\* A client step that leaves the processes, the backlog and the UNIX socket alone
\* and opens no connection preserves IInv.
LEMMA ClientStep ==
  ASSUME IInv, TypeOK', UNCHANGED <<procs, fdt, unix, backlog>>,
         ep' = ep \/ \E S : ep' = Rearm(S),
         \A c \in Conns : peer'[c] = "none" <=> peer[c] = "none",
         \A k \in Clients : \/ cl'[k].i \in DOMAIN ClientFds[k] /\ cl'[k].pc # "connect"
                            \/ cl'[k] = cl[k]
  PROVE  IInv'
<1>a. TypeOK /\ RolesOK /\ BufferOK /\ NamesOK /\ FiredOK /\ ListenOK /\ SessionOK
    /\ UnixOK /\ BacklogOK /\ OneReader /\ ReplyMatches
  BY Zenon DEF IInv
<1>b. UNCHANGED <<srv, inet_conn_map, conn, fired>>
  BY Zenon DEF procs
<1>c. \A p \in Server, fd \in Fd :
               ep'[p][fd].file = ep[p][fd].file /\ ep'[p][fd].mask = ep[p][fd].mask
  BY <1>a, RearmTypes, Zenon
<1>1. RolesOK' /\ BufferOK' /\ ListenOK' /\ SessionOK'
  BY <1>a, <1>b, Zenon DEF RolesOK, BufferOK, ListenOK, SessionOK
<1>2. NamesOK'
  BY <1>a, <1>b, <1>c, SameWatch, ZenonT(60)
<1>3. FiredOK'
  <2>1. ASSUME NEW p \in Server, NEW fe \in fired[p]
        PROVE  ep'[p][fe.fd].file = ep[p][fe.fd].file
    BY <1>a, <1>c, FiredFd, Zenon
  <2>2. ASSUME NEW p \in Server, NEW fe \in fired[p]
        PROVE  /\ ep'[p][fe.fd].file # NoFile
               /\ \A ge \in fired[p] : ge.fd = fe.fd => ge = fe
               /\ fe.mask = "IN" /\ fdt[p][fe.fd] \in Conns => conn[p][fe.fd].reply = 0
               /\ fe.fd = srv[p].inet_listen_fd => backlog # <<>>
    <3>1. ep[p][fe.fd].file # NoFile
      BY <1>a, <2>2, Zenon DEF FiredOK
    <3>2. /\ \A ge \in fired[p] : ge.fd = fe.fd => ge = fe
          /\ fe.mask = "IN" /\ fdt[p][fe.fd] \in Conns => conn[p][fe.fd].reply = 0
          /\ fe.fd = srv[p].inet_listen_fd => backlog # <<>>
      BY <1>a, <2>2, Zenon DEF FiredOK
    <3> QED BY <2>1, <2>2, <3>1, <3>2, Zenon
  <2> QED BY <2>2, <1>b, ZenonT(60) DEF FiredOK
<1>4. UnixOK' /\ ReplyMatches'
  BY <1>a, <1>b, Zenon DEF UnixOK, ReplyMatches, NewEndOpen
<1>5. BacklogOK'
  <2>1. \A c : Referenced(c)' = Referenced(c)
    BY Zenon DEF Referenced, InFlight
  <2>2. \A i \in DOMAIN backlog : backlog[i] \in Conns
    BY <1>a, SMT, Zenon, SMTT(30) DEF TypeOK
  <2>3. \A i \in DOMAIN backlog' : peer'[backlog'[i]] # "none"
    BY <2>2, <1>a, Zenon DEF BacklogOK
  <2>4. \A c \in Conns :
            peer'[c] = "none" \/ (\E i \in DOMAIN backlog' : backlog'[i] = c) => ~Referenced(c)'
    BY <2>1, <1>a, Zenon DEF BacklogOK
  <2>5. \A k \in Clients :
          /\ cl'[k].i \in DOMAIN ClientFds[k]
          /\ cl'[k].pc = "connect" =>
                \A j \in DOMAIN ClientFds[k] : cl'[k].i <= j => peer'[ClientFds[k][j]] = "none"
    <3>1. \A k \in Clients : \A j \in DOMAIN ClientFds[k] : ClientFds[k][j] \in Conns
      BY HotUpgradeAssumption, SMT, Zenon, SMTT(30)
    <3> QED BY <3>1, <1>a, ZenonT(60) DEF BacklogOK
  <2> QED BY <2>3, <2>4, <2>5, <1>a, Zenon DEF BacklogOK
<1>6. OneReader'
  BY <1>a, <1>b, SMT, Zenon, SMTT(30) DEF OneReader, Holds, InFlight, HandingOver
<1> QED BY <1>1, <1>2, <1>3, <1>4, <1>5, <1>6, Zenon DEF IInv

\* Creating the trigger file disturbs nothing else.
LEMMA StutterIInv ==
  ASSUME IInv, UNCHANGED <<procs, kernel, cl>>, trigger' \in BOOLEAN PROVE IInv'
<1>1. UNCHANGED <<srv, inet_conn_map, conn, fired, fdt, ep, unix, backlog, rx, tx, peer>>
  BY Zenon DEF procs, kernel
<1>2. TypeOK'
  BY <1>1, Zenon DEF IInv, TypeOK
<1> QED BY <1>1, <1>2, ClientStep, Zenon

\* Writing a request, or a part of it, preserves IInv.
LEMMA ClientWriteIInv ==
  ASSUME IInv, NEW k \in Clients, ClientWrite(k) PROVE IInv'
<1>a. TypeOK
  BY Zenon DEF IInv
<1> DEFINE c == CurConn(k)
<1>b. c \in Conns /\ cl[k] \in ClientState /\ cl[k].i \in DOMAIN ClientFds[k]
  BY ClientFacts, Zenon
<1>c. PICK n \in 1..(ReqLen - cl[k].pos) :
          LET done == cl[k].pos + n = ReqLen
          IN  /\ rx' = [rx EXCEPT ![CurConn(k)] = @ + n]
              /\ cl' = [cl EXCEPT ![k].pos = IF done THEN 0 ELSE @ + n,
                                  ![k].pc = IF done THEN "read" ELSE @]
  BY Zenon DEF ClientWrite
<1>d. n \in Nat
  BY <1>b, BufferAssumption, HotUpgradeAssumption, SMT, Zenon, SMTT(30)
     DEF ReqLen, ClientState
<1>1. rx' \in [Conns -> Nat]
  BY <1>a, <1>b, <1>c, <1>d, SMT, Zenon, SMTT(30) DEF TypeOK
<1>2. cl' \in [Clients -> ClientState] /\ cl'[k].i = cl[k].i /\ cl'[k].pc \in {"write", "read"}
      /\ \A l \in Clients : l # k => cl'[l] = cl[l]
  <2>1. cl[k].pos \in Nat /\ cl[k].pos + n \in Nat /\ cl[k].pc = "write"
    BY <1>b, <1>d, SMT, Zenon, SMTT(30) DEF ClientState, ClientWrite
  <2>2. CASE cl[k].pos + n = ReqLen
    <3>1. cl' = [cl EXCEPT ![k] = [cl[k] EXCEPT !.pos = 0, !.pc = "read"]]
      BY <1>a, <1>c, <2>2, Zenon DEF TypeOK
    <3>2. [cl[k] EXCEPT !.pos = 0, !.pc = "read"] \in ClientState
      BY <1>b, Zenon DEF ClientState
    <3> QED BY <1>a, <1>b, <3>1, <3>2, Zenon DEF TypeOK, ClientState
  <2>3. CASE cl[k].pos + n # ReqLen
    <3>1. cl' = [cl EXCEPT ![k] = [cl[k] EXCEPT !.pos = cl[k].pos + n, !.pc = cl[k].pc]]
      BY <1>a, <1>c, <2>3, Zenon DEF TypeOK
    <3>2. [cl[k] EXCEPT !.pos = cl[k].pos + n, !.pc = cl[k].pc] \in ClientState
      BY <1>b, <2>1, Zenon DEF ClientState
    <3> QED BY <1>a, <1>b, <2>1, <3>1, <3>2, Zenon DEF TypeOK, ClientState
  <2> QED BY <2>2, <2>3, Zenon
<1>3. ep' = Rearm({c})
  BY Zenon DEF ClientWrite
<1>4. UNCHANGED <<procs, srv, inet_conn_map, conn, fired, fdt, unix, backlog, tx, peer, trigger>>
  BY Zenon DEF ClientWrite, procs
<1>5. TypeOK'
  BY <1>1, <1>2, <1>3, <1>4, <1>a, RearmTypes, Zenon DEF TypeOK
<1> QED BY <1>2, <1>3, <1>4, <1>5, <1>b, ClientStep, Zenon

\* Reading a reply and going on to the next connection preserves IInv.
LEMMA ClientReadIInv ==
  ASSUME IInv, NEW k \in Clients, ClientRead(k) PROVE IInv'
<1>a. TypeOK
  BY Zenon DEF IInv
<1> DEFINE c == CurConn(k)
<1>b. c \in Conns /\ cl[k] \in ClientState /\ cl[k].i \in DOMAIN ClientFds[k]
      /\ NextIndex(k) \in DOMAIN ClientFds[k] /\ NextIndex(k) \in Nat
  BY ClientFacts, Zenon
<1>c. tx[c] \in Nat
  BY <1>a, <1>b, Zenon DEF TypeOK
<1>1. tx' \in [Conns -> Nat]
  BY <1>a, <1>b, Zenon DEF TypeOK, ClientRead
<1>2. cl' \in [Clients -> ClientState] /\ cl'[k].i \in DOMAIN ClientFds[k]
      /\ cl'[k].pc \in {"write", "read", "done"}
      /\ \A l \in Clients : l # k => cl'[l] = cl[l]
  <2> DEFINE pos  == cl[k].pos + tx[c]
             wrap == cl[k].i = Len(ClientFds[k])
             round == IF wrap THEN cl[k].round + 1 ELSE cl[k].round
             half == [cl[k] EXCEPT !.pos = pos]
             full == [pc |-> IF round = MaxRounds THEN "done" ELSE "write",
                      i |-> NextIndex(k), pos |-> 0, round |-> round]
  <2>1. cl' = [cl EXCEPT ![k] = IF pos < MsgLen THEN half ELSE full]
    BY <1>a, Zenon DEF TypeOK, ClientRead
  <2>a. cl[k].pos \in Nat /\ cl[k].round \in Nat /\ cl[k].pc = "read"
    BY <1>b, Zenon DEF ClientState, ClientRead
  <2>2. pos \in Nat /\ round \in Nat /\ cl[k].pc = "read"
    BY <2>a, <1>c, SMT, Zenon, SMTT(30)
  <2>3. /\ half \in ClientState /\ half.i = cl[k].i /\ half.pc = "read"
        /\ full \in ClientState /\ full.i = NextIndex(k) /\ full.pc \in {"done", "write"}
    BY <1>b, <2>2, Zenon DEF ClientState
  <2> HIDE DEF half, full, pos
  <2> QED BY <1>a, <1>b, <2>1, <2>3, Zenon DEF TypeOK
<1>3. ep' = ep
  BY Zenon DEF ClientRead
<1>4. UNCHANGED <<procs, srv, inet_conn_map, conn, fired, fdt, unix, backlog, rx, peer, trigger>>
  BY Zenon DEF ClientRead, procs
<1>5. TypeOK'
  BY <1>1, <1>2, <1>3, <1>4, <1>a, Zenon DEF TypeOK
<1> QED BY <1>2, <1>3, <1>4, <1>5, <1>b, ClientStep, Zenon

\* The end of a client, which closes all its connections, preserves IInv.
LEMMA ClientEndsIInv ==
  ASSUME IInv, NEW k \in Clients, ClientEnds(k) PROVE IInv'
<1>a. TypeOK
  BY Zenon DEF IInv
<1>b. cl[k] \in ClientState /\ cl[k].i \in DOMAIN ClientFds[k]
  BY ClientFacts, Zenon
<1>1. peer' \in [Conns -> {"none", "up", "fin", "rst"}]
      /\ \A c \in Conns : peer'[c] = "none" <=> peer[c] = "none"
  BY <1>a, Zenon DEF TypeOK, ClientEnds
<1>2. cl' \in [Clients -> ClientState] /\ cl'[k].i \in DOMAIN ClientFds[k]
      /\ cl'[k].pc = "exit"
      /\ \A l \in Clients : l # k => cl'[l] = cl[l]
  BY <1>a, <1>b, Zenon DEF TypeOK, ClientState, ClientEnds
<1>3. PICK S : ep' = Rearm(S)
  BY Zenon DEF ClientEnds
<1>4. UNCHANGED <<procs, srv, inet_conn_map, conn, fired, fdt, unix, backlog, rx, tx, trigger>>
  BY Zenon DEF ClientEnds, procs
<1>5. TypeOK'
  BY <1>1, <1>2, <1>3, <1>4, <1>a, RearmTypes, Zenon DEF TypeOK
<1> QED BY <1>1, <1>2, <1>3, <1>4, <1>5, <1>b, ClientStep, Zenon

\* connect() preserves IInv: the new connection is in the backlog and nowhere else.
LEMMA ClientConnectIInv ==
  ASSUME IInv, NEW k \in Clients, ClientConnect(k) PROVE IInv'
<1>a. TypeOK /\ RolesOK /\ BufferOK /\ NamesOK /\ FiredOK /\ ListenOK /\ SessionOK
    /\ UnixOK /\ BacklogOK /\ OneReader /\ ReplyMatches
  BY Zenon DEF IInv
<1> DEFINE c == CurConn(k)
<1>b. /\ c \in Conns /\ cl[k] \in ClientState /\ cl[k].i \in DOMAIN ClientFds[k]
      /\ NextIndex(k) \in DOMAIN ClientFds[k] /\ NextIndex(k) \in Nat /\ cl[k].i \in Nat
      /\ NextIndex(k) # 1 => NextIndex(k) = cl[k].i + 1
  BY ClientFacts, Zenon
<1>c. /\ backlog' = Append(backlog, c) /\ peer' = [peer EXCEPT ![c] = "up"]
      /\ cl' = [cl EXCEPT ![k].i = NextIndex(k),
                          ![k].pc = IF NextIndex(k) = 1 THEN "write" ELSE @]
      /\ cl[k].pc = "connect" /\ UNCHANGED <<fdt, ep, unix, rx, tx, trigger>>
      /\ UNCHANGED <<srv, inet_conn_map, conn, fired>>
  BY Zenon DEF ClientConnect, InetClientConn, procs
<1>d. /\ backlog' \in Seq(Conns) /\ backlog' # <<>>
      /\ Len(backlog) + 1 \in DOMAIN backlog' /\ backlog'[Len(backlog) + 1] = c
      /\ \A i \in DOMAIN backlog' :
            i = Len(backlog) + 1 \/ (i \in DOMAIN backlog /\ backlog'[i] = backlog[i])
      /\ \A i \in DOMAIN backlog : backlog[i] \in Conns
  <2>1. backlog \in Seq(Conns)
    BY <1>a, Zenon DEF TypeOK
  <2>2. \A i \in DOMAIN backlog : backlog[i] \in Conns
    BY <2>1, SMT, Zenon, SMTT(30)
  <2> QED BY <2>1, <2>2, <1>b, <1>c, AppendOf, SMT, Zenon, SMTT(30)
<1>e. peer[c] = "none"
  BY <1>a, <1>b, <1>c, SMT, Zenon, SMTT(30) DEF BacklogOK, CurConn
<1>1. TypeOK'
  <2>1. cl' \in [Clients -> ClientState]
    BY <1>a, <1>b, <1>c, Zenon DEF TypeOK, ClientState
  <2>2. peer' \in [Conns -> {"none", "up", "fin", "rst"}]
    BY <1>a, <1>b, <1>c, ZenonT(60) DEF TypeOK
  <2> QED BY <1>a, <1>c, <1>d, <2>1, <2>2, Zenon DEF TypeOK
<1>2. RolesOK' /\ BufferOK' /\ NamesOK' /\ ListenOK' /\ SessionOK'
  BY <1>a, <1>c, ZenonT(60) DEF RolesOK, BufferOK, NamesOK, ListenOK, SessionOK
<1>3. FiredOK'
  BY <1>a, <1>c, <1>d, Zenon DEF FiredOK
<1>4. UnixOK' /\ ReplyMatches'
  BY <1>a, <1>c, Zenon DEF UnixOK, ReplyMatches, NewEndOpen
<1>5. BacklogOK'
  <2>1. \A f : Referenced(f)' = Referenced(f)
    BY <1>c, Zenon DEF Referenced, InFlight
  <2>2. \A i \in DOMAIN backlog : backlog[i] # c
    BY <1>a, <1>e, Zenon DEF BacklogOK
  <2>3. \A i, j \in DOMAIN backlog' : backlog'[i] = backlog'[j] => i = j
    BY <2>2, <1>a, <1>d, SMT, Zenon, SMTT(30) DEF BacklogOK
  <2>4. \A i \in DOMAIN backlog' : peer'[backlog'[i]] # "none"
    <3>1. peer'[c] = "up" /\ \A d \in Conns : d # c => peer'[d] = peer[d]
      BY <1>a, <1>b, <1>c, Zenon DEF TypeOK
    <3> QED BY <2>2, <3>1, <1>a, <1>d, Zenon DEF BacklogOK
  <2>5. \A d \in Conns :
            peer'[d] = "none" \/ (\E i \in DOMAIN backlog' : backlog'[i] = d) => ~Referenced(d)'
    <3>1. peer'[c] = "up" /\ \A d \in Conns : d # c => peer'[d] = peer[d]
      BY <1>a, <1>b, <1>c, Zenon DEF TypeOK
    <3>2. \A d \in Conns : d # c /\ (\E i \in DOMAIN backlog' : backlog'[i] = d)
             => \E i \in DOMAIN backlog : backlog[i] = d
      BY <1>d, Zenon
    <3> QED BY <2>1, <3>1, <3>2, <1>a, <1>b, <1>e, Zenon DEF BacklogOK
  <2>6. \A l \in Clients :
          /\ cl'[l].i \in DOMAIN ClientFds[l]
          /\ cl'[l].pc = "connect" =>
                \A j \in DOMAIN ClientFds[l] : cl'[l].i <= j => peer'[ClientFds[l][j]] = "none"
    <3> SUFFICES ASSUME NEW l \in Clients
                 PROVE  /\ cl'[l].i \in DOMAIN ClientFds[l]
                        /\ cl'[l].pc = "connect" =>
                             \A j \in DOMAIN ClientFds[l] :
                                cl'[l].i <= j => peer'[ClientFds[l][j]] = "none"
      BY Zenon
    <3>1. \A j \in DOMAIN ClientFds[l] : j \in Nat /\ ClientFds[l][j] \in Conns
          /\ (ClientFds[l][j] = c => l = k /\ j = cl[k].i)
      BY HotUpgradeAssumption, <1>b, SMT, Zenon, SMTT(30) DEF CurConn
    <3>2. CASE l = k
      <4>1. cl'[k].i = NextIndex(k) /\ (cl'[k].pc = "connect" => NextIndex(k) # 1)
        BY <1>a, <1>b, <1>c, Zenon DEF TypeOK, ClientState
      <4>2. \A d \in Conns : d # c => peer'[d] = peer[d]
        BY <1>a, <1>b, <1>c, Zenon DEF TypeOK
      <4>3. \A j \in DOMAIN ClientFds[k] : cl[k].i <= j => peer[ClientFds[k][j]] = "none"
        BY <1>a, <1>c, Zenon DEF BacklogOK
      <4> QED BY <3>1, <3>2, <4>1, <4>2, <4>3, <1>b, SMT, Zenon, SMTT(30)
    <3>3. CASE l # k
      BY <3>1, <3>3, <1>a, <1>c, ZenonT(60) DEF BacklogOK, TypeOK
    <3> QED BY <3>2, <3>3, Zenon
  <2> QED BY <2>3, <2>4, <2>5, <2>6, Zenon DEF BacklogOK
<1>6. OneReader'
  BY <1>a, <1>c, SMT, Zenon, SMTT(30) DEF OneReader, Holds, InFlight, HandingOver
<1> QED BY <1>1, <1>2, <1>3, <1>4, <1>5, <1>6, Zenon DEF IInv

-----------------------------------------------------------------------------
(***************************************************************************)
(* IInv is preserved by starting, stopping and polling, and by the old     *)
(* process meeting the new one (server.cc, epoll.cc).                      *)
(***************************************************************************)

\* The end of a process preserves IInv: its descriptors are closed, and a message
\* that only it could have received is gone.
LEMMA ExitIInv ==
  ASSUME IInv, NEW p \in Server, Exit(p), srv[p].pc = "loop" PROVE IInv'
<1>a. TypeOK /\ RolesOK /\ BufferOK /\ NamesOK /\ FiredOK /\ ListenOK /\ SessionOK
    /\ UnixOK /\ BacklogOK /\ OneReader /\ ReplyMatches
  BY Zenon DEF IInv
<1>b. /\ srv' = [srv EXCEPT ![p].pc = "exit"]
      /\ inet_conn_map' = [inet_conn_map EXCEPT ![p] = {}]
      /\ conn' = [conn EXCEPT ![p] = [fd \in Fd |-> NewConn]]
      /\ fired' = [fired EXCEPT ![p] = {}]
      /\ fdt' = [fdt EXCEPT ![p] = [fd \in Fd |-> NoFile]]
      /\ ep' = [ep EXCEPT ![p] = [fd \in Fd |-> NoWatch]]
      /\ unix' = IF p = New THEN [unix EXCEPT !.queued = FALSE, !.msgs = <<>>] ELSE unix
      /\ UNCHANGED <<backlog, rx, tx, peer, cl, trigger>>
  BY Zenon DEF Exit
<1>c. /\ srv'[p] = [srv[p] EXCEPT !.pc = "exit"] /\ \A q \in Server : q # p => srv'[q] = srv[q]
      /\ srv'[p].pc = "exit"
      /\ \A q \in Server : /\ srv'[q].inet_listen_fd = srv[q].inet_listen_fd
                           /\ srv'[q].unix_listen_fd = srv[q].unix_listen_fd
                           /\ srv'[q].unix_conn_fd = srv[q].unix_conn_fd
                           /\ srv'[q].unix_client = srv[q].unix_client
                           /\ srv'[q].session_fd = srv[q].session_fd
                           /\ srv'[q].unix_socket_init = srv[q].unix_socket_init
  BY <1>a, <1>b, SMT, Zenon, SMTT(30) DEF TypeOK, SrvState
<1>d. NewConn \in Conn /\ NoWatch \in Watch /\ NoWatch.file = NoFile
  BY Names, Zenon DEF NewConn, Conn, NoWatch, Watch
<1>e. \A f \in File : f # NoFile /\ Referenced(f)' => Referenced(f)
  BY <1>a, <1>b, Names, SMT, Zenon, SMTT(30) DEF TypeOK, Referenced, InFlight
<1>1. TypeOK'
  <2>1. srv' \in [Server -> SrvState]
    <3>1. [srv[p] EXCEPT !.pc = "exit"] \in SrvState
      BY <1>a, SrvTypes, ZenonT(60) DEF SrvState
    <3> QED BY <1>a, <1>b, <3>1, Zenon DEF TypeOK
  <2>2. conn' \in [Server -> [Fd -> Conn]]
        /\ \A q \in Server, fd \in Fd :
              /\ conn'[q][fd].last_read_pos < READ_BUFFER_SIZE
              /\ conn'[q][fd].last_write_pos <= conn'[q][fd].reply
    BY <1>a, <1>b, <1>d, BufferAssumption, SMT, Zenon, SMTT(30) DEF TypeOK, NewConn
  <2>3. unix' \in [queued : BOOLEAN, msgs : Seq(Message), replies : Nat]
    <3>1. [unix EXCEPT !.queued = FALSE, !.msgs = <<>>]
             \in [queued : BOOLEAN, msgs : Seq(Message), replies : Nat]
      <4>1. unix \in [queued : BOOLEAN, msgs : Seq(Message), replies : Nat]
        BY <1>a, UnixTypes, Zenon
      <4>2. <<>> \in Seq(Message)
        BY SMT, Zenon, SMTT(30)
      <4> QED BY <4>1, <4>2, Zenon
    <3> QED BY <1>a, <1>b, <3>1, UnixTypes, Zenon
  <2>4. fdt' \in [Server -> [Fd -> File]] /\ ep' \in [Server -> [Fd -> Watch]]
    BY <1>a, <1>b, <1>d, Names, Zenon DEF TypeOK
  <2>5. inet_conn_map' \in [Server -> SUBSET Fd] /\ fired' \in [Server -> SUBSET FiredEvent]
    BY <1>a, <1>b, Zenon DEF TypeOK
  <2> QED BY <1>a, <1>b, <2>1, <2>2, <2>3, <2>4, <2>5, Zenon DEF TypeOK
<1>2. RolesOK'
  BY <1>a, <1>c, Names, Zenon DEF RolesOK
<1>f. /\ \A fd \in Fd : /\ fdt'[p][fd] = NoFile /\ ep'[p][fd] = NoWatch
                        /\ conn'[p][fd] = NewConn
      /\ fired'[p] = {} /\ inet_conn_map'[p] = {}
  BY <1>a, <1>b, ZenonT(60) DEF TypeOK
<1>g. \A q \in Server : q # p =>
         /\ fdt'[q] = fdt[q] /\ ep'[q] = ep[q] /\ conn'[q] = conn[q]
         /\ fired'[q] = fired[q] /\ inet_conn_map'[q] = inet_conn_map[q] /\ srv'[q] = srv[q]
  BY <1>a, <1>b, <1>c, ZenonT(60) DEF TypeOK
<1>3. BufferOK'
  BY <1>a, <1>f, <1>g, NewConnIs, ZenonT(60) DEF BufferOK
<1>4. NamesOK'
  <2> SUFFICES ASSUME NEW q \in Server, NEW g \in Fd
               PROVE  /\ ep'[q][g].file # NoFile => ep'[q][g].file = fdt'[q][g]
                      /\ ep'[q][g].file # UnixClient
                      /\ Named(q, g, fdt[q][g])'
                      /\ fdt'[q][g] \in Conns /\ ep'[q][g].mask # "OUT" => conn'[q][g].reply = 0
    BY ZenonT(60) DEF NamesOK, Named
  <2>1. CASE q = p
    BY <2>1, <1>d, <1>f, Names, Zenon DEF Named
  <2>2. CASE q # p
    <3>1. /\ fdt'[q][g] = fdt[q][g] /\ ep'[q][g] = ep[q][g] /\ conn'[q][g] = conn[q][g]
          /\ srv'[q] = srv[q]
      BY <2>2, <1>g, Zenon
    <3>2. /\ ep[q][g].file # NoFile => ep[q][g].file = fdt[q][g]
          /\ ep[q][g].file # UnixClient
          /\ fdt[q][g] \in Conns /\ ep[q][g].mask # "OUT" => conn[q][g].reply = 0
      BY <1>a, Zenon DEF NamesOK
    <3>3. Named(q, g, fdt[q][g])
      BY <1>a, Zenon DEF NamesOK, Named
    <3>4. Named(q, g, fdt[q][g])'
      BY <3>1, <3>3, Zenon DEF Named
    <3> QED BY <3>1, <3>2, <3>4, Zenon
  <2> QED BY <2>1, <2>2, Zenon
<1>5. FiredOK'
  <2>1. \A q \in Server : \A ge \in fired'[q] : q # p /\ ge \in fired[q]
    BY <1>f, <1>g, Zenon
  <2>2. \A q \in Server : \A ge \in fired'[q] :
           /\ ge \in fired[q]
           /\ ep'[q][ge.fd].file = ep[q][ge.fd].file
           /\ fdt'[q][ge.fd] = fdt[q][ge.fd]
           /\ conn'[q][ge.fd].reply = conn[q][ge.fd].reply
           /\ ge.fd = srv'[q].inet_listen_fd => backlog' # <<>>
    <3> SUFFICES ASSUME NEW q \in Server, NEW ge \in fired'[q]
                 PROVE  /\ ge \in fired[q]
                        /\ ep'[q][ge.fd].file = ep[q][ge.fd].file
                        /\ fdt'[q][ge.fd] = fdt[q][ge.fd]
                        /\ conn'[q][ge.fd].reply = conn[q][ge.fd].reply
                        /\ ge.fd = srv'[q].inet_listen_fd => backlog' # <<>>
      BY Zenon
    <3>1. /\ fdt'[q] = fdt[q] /\ ep'[q] = ep[q] /\ conn'[q] = conn[q] /\ srv'[q] = srv[q]
          /\ ge \in fired[q]
      BY <2>1, <1>g, Zenon
    <3>2. ge.fd = srv[q].inet_listen_fd => backlog # <<>>
      BY <3>1, <1>a, Zenon DEF FiredOK
    <3> QED BY <3>1, <3>2, <1>b, Zenon
  <2> QED BY <2>2, <1>a, FiredKept, Zenon
<1>6. ListenOK'
  <2>1. ListenNamed'
    <3> SUFFICES ASSUME NEW q \in Server, srv'[q].inet_listen_fd # NoFd, srv'[q].pc # "exit"
                 PROVE  fdt'[q][srv'[q].inet_listen_fd] = InetListen
      BY Zenon DEF ListenNamed
    <3>1. fdt'[q] = fdt[q] /\ srv'[q] = srv[q]
      BY <1>c, <1>g, Zenon
    <3> QED BY <3>1, <1>a, Zenon DEF ListenOK
  <2>2. p = Old => srv[New].inet_listen_fd = NoFd \/ srv[Old].inet_listen_fd = NoFd
    BY <1>a, Zenon DEF ListenOK
  <2>3. CASE p = Old
    <3>1. srv[Old].unix_socket_init \/ srv[Old].inet_listen_fd # NoFd
      BY <1>a, Zenon DEF ListenOK
    <3> QED BY <2>1, <2>2, <2>3, <3>1, <1>c, Names, Zenon DEF ListenOK, ListenNamed
  <2>4. CASE p = New
    BY <2>1, <2>4, <1>a, <1>c, <1>g, Names, ZenonT(60) DEF ListenOK, ListenNamed
  <2> QED BY <2>3, <2>4, Names, Zenon
<1>7. SessionOK'
  <2>1. CASE p = Old
    BY <2>1, <1>c, Zenon DEF SessionOK
  <2>2. CASE p = New
    BY <2>2, <1>a, <1>g, Names, Zenon DEF SessionOK
  <2> QED BY <2>1, <2>2, Names, Zenon
<1>8. UnixOK' /\ ReplyMatches'
  <2>1. CASE p = New
    <3>1. ~NewEndOpen' /\ unix'.queued = FALSE /\ unix'.msgs = <<>> /\ unix'.replies = unix.replies
      BY <1>a, <1>b, <2>1, Names, Zenon DEF NewEndOpen, TypeOK
    <3>2. UnixOK'
      BY <1>a, <1>c, <2>1, <3>1, Names, Zenon DEF UnixOK
    <3>3. unix.replies \in Nat /\ Len(unix.msgs) \in Nat
      BY <1>a, SMT, Zenon, SMTT(30) DEF TypeOK
    <3>4. ReplyMatches'
      BY <1>a, <1>c, <2>1, <3>1, <3>3, Names, SMT, Zenon, SMTT(30) DEF ReplyMatches
    <3> QED BY <3>2, <3>4, Zenon
  <2>2. CASE p = Old
    <3>1. unix' = unix /\ NewEndOpen' = NewEndOpen
      BY <1>a, <1>b, <2>2, Names, Zenon DEF NewEndOpen, TypeOK
    <3>2. unix.msgs = <<>> /\ Len(unix.msgs) + unix.replies = 0
      BY <1>a, <2>2, UnixTypes, SMT, Zenon, SMTT(30) DEF ReplyMatches
    <3>3. ReplyMatches'
      <4>1. srv'[Old].pc = "exit" /\ unix' = unix
        BY <1>c, <2>2, <3>1, Zenon
      <4> QED BY <4>1, <3>2, SMT, Zenon, SMTT(30) DEF ReplyMatches
    <3>4. UnixOK'
      BY <1>a, <1>c, <2>2, <3>1, <3>2, Names, Zenon DEF UnixOK
    <3> QED BY <3>3, <3>4, Zenon
  <2> QED BY <2>1, <2>2, Names, Zenon
<1>9. BacklogOK'
  BY <1>a, <1>b, <1>e, Names, Zenon DEF BacklogOK
<1>10. OneReader'
  <2>1. \A q \in Server, fd \in Fd, c \in Conns : Holds(q, fd, c)' => Holds(q, fd, c) /\ q # p
                                                  /\ conn'[q][fd] = conn[q][fd]
    BY <1>a, <1>b, Names, Zenon DEF TypeOK, Holds
  <2>2. \A c \in Conns : InFlight(c)' => InFlight(c) /\ p # New
    BY <1>a, <1>b, SMT, Zenon, SMTT(30) DEF TypeOK, InFlight
  <2>3. \A c \in Conns : p # Old => HandingOver(c)' = HandingOver(c)
    BY <1>a, <1>b, <1>c, Names, SMT, Zenon, SMTT(30) DEF TypeOK, HandingOver
  <2> QED BY <1>a, <2>1, <2>2, <2>3, Names, ZenonT(60) DEF OneReader
<1> QED BY <1>1, <1>2, <1>3, <1>4, <1>5, <1>6, <1>7, <1>8, <1>9, <1>10, Zenon DEF IInv

\* epoll_wait preserves IInv: what it reports is so while the loop handles it.
LEMMA PollIInv ==
  ASSUME IInv, NEW p \in Server, Poll(p) PROVE IInv'
<1>a. TypeOK /\ RolesOK /\ BufferOK /\ NamesOK /\ FiredOK /\ ListenOK /\ SessionOK
    /\ UnixOK /\ BacklogOK /\ OneReader /\ ReplyMatches
  BY Zenon DEF IInv
<1>b. /\ fired' = [fired EXCEPT ![p] = Ready(p)]
      /\ ep' = [ep EXCEPT ![p] = [fd \in Fd |->
                IF ep[p][fd].et /\ \E fe \in Ready(p) : fe.fd = fd
                THEN [ep[p][fd] EXCEPT !.armed = FALSE] ELSE ep[p][fd]]]
      /\ UNCHANGED <<srv, inet_conn_map, conn, fdt, unix, backlog, rx, tx, peer, cl, trigger>>
      /\ srv[p].pc = "loop"
  BY Zenon DEF Poll, AtTop
<1>c. \A q \in Server, fd \in Fd :
         /\ ep[q][fd] \in Watch /\ [ep[q][fd] EXCEPT !.armed = FALSE] \in Watch
         /\ ep[q][fd].file \in File
         /\ [ep[q][fd] EXCEPT !.armed = FALSE].file = ep[q][fd].file
         /\ [ep[q][fd] EXCEPT !.armed = FALSE].mask = ep[q][fd].mask
  BY <1>a, WatchTypes, Zenon
<1>d. ep' \in [Server -> [Fd -> Watch]]
      /\ \A q \in Server, fd \in Fd :
            ep'[q][fd].file = ep[q][fd].file /\ ep'[q][fd].mask = ep[q][fd].mask
  BY <1>a, <1>b, <1>c, SMT, Zenon, SMTT(30) DEF TypeOK
<1>e. fired' \in [Server -> SUBSET FiredEvent]
  BY <1>a, <1>b, Zenon DEF TypeOK, Ready
<1>1. TypeOK'
  BY <1>a, <1>b, <1>d, <1>e, Zenon DEF TypeOK
<1>2. RolesOK' /\ BufferOK' /\ UnixOK' /\ ReplyMatches'
  BY <1>a, <1>b, Zenon DEF RolesOK, BufferOK, UnixOK, ReplyMatches, NewEndOpen
<1>3. NamesOK'
  BY <1>a, <1>b, <1>d, SameWatch, Zenon
<1>4. ListenOK' /\ SessionOK'
  BY <1>a, <1>b, Names, Zenon DEF ListenOK, SessionOK, TypeOK
<1>5. FiredOK'
  <2> SUFFICES ASSUME NEW q \in Server, NEW ge \in fired'[q]
               PROVE  /\ ep'[q][ge.fd].file # NoFile
                      /\ \A he \in fired'[q] : he.fd = ge.fd => he = ge
                      /\ ge.mask = "IN" /\ fdt'[q][ge.fd] \in Conns => conn'[q][ge.fd].reply = 0
                      /\ ge.fd = srv'[q].inet_listen_fd => backlog' # <<>>
    BY Zenon DEF FiredOK
  <2>1. CASE q # p
    BY <2>1, <1>a, <1>b, <1>d, Zenon DEF FiredOK, TypeOK, FiredEvent
  <2>2. CASE q = p
    <3>1. ge \in Ready(p) /\ ge.fd \in Fd /\ ge \in FiredEvent
      BY <2>2, <1>a, <1>b, Zenon DEF TypeOK, Ready, FiredEvent
    <3>2. ge.mask \in Pending(ep[p][ge.fd].file, ep[p][ge.fd].mask)
      BY <3>1, Zenon DEF Ready
    <3>3. ep[p][ge.fd].file # NoFile
      BY <3>2, Names, Zenon DEF Pending
    <3>4. ep[p][ge.fd].file = fdt[p][ge.fd]
      BY <3>1, <3>3, <1>a, Zenon DEF NamesOK
    <3>5. \A he \in fired'[q] : he.fd = ge.fd => he = ge
      <4> SUFFICES ASSUME NEW he \in fired'[q], he.fd = ge.fd PROVE he = ge
        BY Zenon
      <4>1. he \in Ready(p) /\ he \in FiredEvent
        BY <2>2, <1>a, <1>b, Zenon DEF TypeOK, Ready
      <4>2. he.mask \in Pending(ep[p][ge.fd].file, ep[p][ge.fd].mask)
        BY <4>1, Zenon DEF Ready
      <4>3. \A f \in File : \A m : \A x, y \in Pending(f, m) : x = y
        BY Names, SMT, Zenon, SMTT(30) DEF Pending, File
      <4>4. he.mask = ge.mask
        BY <3>1, <3>2, <4>2, <4>3, <1>c, Zenon
      <4> QED BY <3>1, <4>1, <4>4, SMT, Zenon, SMTT(30) DEF FiredEvent
    <3>6. ge.mask = "IN" /\ fdt[p][ge.fd] \in Conns => conn[p][ge.fd].reply = 0
      <4> SUFFICES ASSUME ge.mask = "IN", fdt[p][ge.fd] \in Conns
                   PROVE  conn[p][ge.fd].reply = 0
        BY Zenon
      <4>1. ep[p][ge.fd].mask # "OUT"
        BY <3>2, <3>4, Names, Zenon DEF Pending
      <4> QED BY <4>1, <3>1, <1>a, Zenon DEF NamesOK
    <3>7. ge.fd = srv[p].inet_listen_fd => backlog # <<>>
      <4> SUFFICES ASSUME ge.fd = srv[p].inet_listen_fd PROVE backlog # <<>>
        BY Zenon
      <4>1. fdt[p][ge.fd] = InetListen
        BY <3>1, <1>a, <1>b, Names, Zenon DEF ListenOK
      <4>2. ge.mask \in Pending(InetListen, ep[p][ge.fd].mask)
        BY <4>1, <3>2, <3>4, Zenon
      <4> QED BY <4>2, Names, Zenon DEF Pending
    <3> QED BY <2>2, <3>1, <3>3, <3>5, <3>6, <3>7, <1>b, <1>d, ZenonT(60)
  <2> QED BY <2>1, <2>2, Zenon
<1>6. BacklogOK'
  <2>1. \A f : Referenced(f)' = Referenced(f)
    BY <1>b, Zenon DEF Referenced, InFlight
  <2> QED BY <2>1, <1>a, <1>b, Zenon DEF BacklogOK
<1>7. OneReader'
  BY <1>a, <1>b, SMT, Zenon, SMTT(30) DEF OneReader, Holds, InFlight, HandingOver
<1> QED BY <1>1, <1>2, <1>3, <1>4, <1>5, <1>6, <1>7, Zenon DEF IInv

\* Starting New, which listens on the UNIX path, preserves IInv.
LEMMA StartNewIInv ==
  ASSUME IInv, StartNew PROVE IInv'
<1>a. TypeOK /\ RolesOK /\ BufferOK /\ NamesOK /\ FiredOK /\ ListenOK /\ SessionOK
    /\ UnixOK /\ BacklogOK /\ OneReader /\ ReplyMatches
  BY Zenon DEF IInv
<1>b. PICK fd \in Fd :
          /\ UnixServerListen(New, fd)
          /\ srv' = [srv EXCEPT ![New].pc = "loop", ![New].unix_listen_fd = fd]
          /\ ep' = AddEvent(New, fd, UnixListen, FALSE)
  BY Zenon DEF StartNew
<1>c. UNCHANGED <<inet_conn_map, conn, fired, unix, backlog, rx, tx, peer, cl, trigger>>
      /\ srv[New].pc = "down"
  BY Zenon DEF StartNew
<1> DEFINE w == [file |-> UnixListen, mask |-> "IN", et |-> FALSE, armed |-> TRUE]
           r == [srv[New] EXCEPT !.pc = "loop", !.unix_listen_fd = fd]
<1>d. /\ fdt[New][fd] = NoFile /\ fdt' = [fdt EXCEPT ![New][fd] = UnixListen]
      /\ ep' = [ep EXCEPT ![New][fd] = w] /\ w \in Watch /\ w.file = UnixListen
  BY <1>b, Names, Zenon DEF UnixServerListen, LowestFree, AddEvent, Watch
<1>e. /\ srv[New] \in SrvState /\ r \in SrvState
      /\ r.pc = "loop" /\ r.unix_listen_fd = fd
      /\ r.inet_listen_fd = srv[New].inet_listen_fd
      /\ r.unix_conn_fd = srv[New].unix_conn_fd
      /\ r.unix_client = srv[New].unix_client
  BY <1>a, Names, SrvTypes, ZenonT(60) DEF SrvState
<1>f. srv' = [srv EXCEPT ![New] = r]
  BY <1>a, <1>b, Names, Zenon DEF TypeOK
<1> HIDE DEF w, r
<1>g. srv' \in [Server -> SrvState] /\ srv'[New] = r /\ srv'[Old] = srv[Old]
  BY <1>a, <1>e, <1>f, Names, SrvUpdate, Zenon
<1>h. SetSlot(New, fd, UnixListen, w)
  BY <1>a, <1>d, Names, SlotSet, Zenon
<1>k. ConnsElsewhere(New, fd)
  BY <1>c, Zenon DEF ConnsElsewhere
<1>j. fdt'[Old] = fdt[Old]
  BY <1>a, <1>d, Names, Zenon DEF TypeOK
<1>i. \A ge \in fired[New] : ge.fd # fd
  BY <1>a, <1>d, Names, FreeUnfired, Zenon
<1>l. \A q \in Server : srv'[q].inet_listen_fd = srv[q].inet_listen_fd
  BY <1>e, <1>g, Names, Zenon
<1>1. TypeOK'
  BY <1>a, <1>c, <1>d, <1>g, Names, Zenon DEF TypeOK
<1>2. RolesOK' /\ BufferOK'
  BY <1>a, <1>c, <1>e, <1>g, ZenonT(60) DEF RolesOK, BufferOK
<1>3. NamesOK'
  <2>1. srv[New].unix_listen_fd = NoFd
    BY <1>a, <1>c, Zenon DEF RolesOK
  <2>2. NamesKept(New, fd)
    BY <2>1, <1>e, <1>g, Names, Zenon DEF NamesKept
  <2>3. Named(New, fd, UnixListen)'
    BY <1>e, <1>g, Names, Zenon DEF Named
  <2> QED BY <2>2, <2>3, <1>a, <1>d, <1>h, <1>k, Names, SlotNames, Zenon
<1>4. FiredOK'
  <2>1. \A q \in Server : \A ge \in fired'[q] :
           /\ ge \in fired[q] /\ ge.fd \in Fd /\ ~(q = New /\ ge.fd = fd)
           /\ ge.fd = srv'[q].inet_listen_fd => backlog' # <<>>
    BY <1>a, <1>c, <1>i, <1>l, FiredFd, Zenon DEF FiredOK
  <2> QED BY <2>1, <1>a, <1>h, <1>k, Names, SlotFired, Zenon
<1>5. ListenOK'
  <2>1. \A q \in Server : srv'[q].pc # "exit" => srv[q].pc # "exit"
    BY <1>c, <1>g, Names, Zenon
  <2>2. fdt[New][fd] # InetListen
    BY <1>d, Names, Zenon
  <2>3. ListenNamed'
    BY <2>1, <2>2, <1>a, <1>h, <1>l, Names, SlotListenKept, Zenon
  <2> QED BY <2>3, <1>a, <1>c, <1>g, <1>l, Names, Zenon DEF ListenOK, ListenNamed
<1>6. SessionOK'
  BY <1>a, <1>c, <1>g, <1>j, Zenon DEF SessionOK
<1>7. NewEndOpen' = NewEndOpen
  BY <1>c, <1>d, <1>h, Names, SlotNewEnd, Zenon
<1>8. UnixOK'
  BY <1>a, <1>c, <1>e, <1>g, <1>j, <1>7, Names, Zenon DEF UnixOK
<1>9. ReplyMatches'
  BY <1>a, <1>c, <1>g, <1>7, Zenon DEF ReplyMatches
<1>m. \A d \in Conns : InFlight(d)' => InFlight(d)
  BY <1>c, Zenon DEF InFlight
<1>n. /\ \A d \in Conns : Referenced(d)' => Referenced(d)
      /\ \A q \in Server, g \in Fd, d \in Conns : Holds(q, g, d)' => Holds(q, g, d)
  BY <1>c, <1>h, <1>m, Names, SlotSessions, Zenon
<1>10. BacklogOK'
  BY <1>c, <1>n, SocketsKeepBacklog, Zenon
<1>11. OneReader'
  <2>1. \A d \in Conns : HandingOver(d)' = HandingOver(d)
    BY <1>g, <1>j, Zenon DEF HandingOver
  <2> QED BY <2>1, <1>a, <1>c, <1>m, <1>n, FewerReaders, Zenon
<1> QED BY <1>1, <1>2, <1>3, <1>4, <1>5, <1>6, <1>8, <1>9, <1>10, <1>11, ZenonT(60)
           DEF IInv

\* Connecting to New's UNIX socket preserves IInv.
LEMMA MeetNewIInv ==
  ASSUME IInv, NEW p \in Server, MeetNew(p) PROVE IInv'
<1>a. TypeOK /\ RolesOK /\ BufferOK /\ NamesOK /\ FiredOK /\ ListenOK /\ SessionOK
    /\ UnixOK /\ BacklogOK /\ OneReader /\ ReplyMatches
  BY Zenon DEF IInv
<1>b. PICK fd \in Fd :
          /\ UnixClientConn(p, fd)
          /\ srv' = [srv EXCEPT ![p].pc = "send_listen", ![p].unix_client = fd,
                                ![p].unix_socket_init = TRUE]
  BY Zenon DEF MeetNew
<1>c. /\ UNCHANGED <<inet_conn_map, conn, fired, ep, backlog, rx, tx, peer, cl, trigger>>
      /\ p = Old /\ srv[Old].pc = "loop" /\ fired[Old] = {} /\ ~srv[Old].unix_socket_init
  BY Zenon DEF MeetNew, AtTop, SeesTrigger
<1>d. /\ fdt[Old][fd] = NoFile /\ fdt' = [fdt EXCEPT ![Old][fd] = UnixClient]
      /\ unix' = [unix EXCEPT !.queued = TRUE]
  BY <1>b, <1>c, Zenon DEF UnixClientConn, LowestFree
<1> DEFINE r == [srv[Old] EXCEPT !.pc = "send_listen", !.unix_client = fd,
                                 !.unix_socket_init = TRUE]
<1>e. /\ r \in SrvState
      /\ r.pc = "send_listen" /\ r.unix_listen_fd = srv[Old].unix_listen_fd
      /\ r.inet_listen_fd = srv[Old].inet_listen_fd
      /\ r.unix_conn_fd = srv[Old].unix_conn_fd
      /\ r.unix_socket_init
  BY <1>a, Names, SrvTypes, ZenonT(60) DEF SrvState
<1>f. srv' = [srv EXCEPT ![Old] = r]
  BY <1>a, <1>b, <1>c, Names, Zenon DEF TypeOK
<1> HIDE DEF r
<1>g. srv' \in [Server -> SrvState] /\ srv'[Old] = r /\ srv'[New] = srv[New]
  BY <1>a, <1>e, <1>f, Names, SrvUpdate, Zenon
<1>h. SetSlot(Old, fd, UnixClient, ep[Old][fd])
  BY <1>a, <1>c, <1>d, Names, Zenon DEF SetSlot, TypeOK
<1>l. ConnsElsewhere(Old, fd)
  BY <1>c, Zenon DEF ConnsElsewhere
<1>i. ep[Old][fd].file = NoFile /\ \A ge \in fired[Old] : ge.fd # fd
  BY <1>a, <1>d, Names, FreeUnfired, Zenon
<1>m. \A q \in Server : srv'[q].inet_listen_fd = srv[q].inet_listen_fd
  BY <1>e, <1>g, Names, Zenon
<1>j. /\ unix' \in [queued : BOOLEAN, msgs : Seq(Message), replies : Nat]
      /\ unix'.msgs = unix.msgs /\ unix'.replies = unix.replies /\ unix'.queued
  BY <1>a, <1>d, UnixTypes, Zenon
<1>k. unix.msgs = <<>> /\ unix.replies = 0 /\ Len(unix.msgs) = 0
  BY <1>a, <1>c, NoneOutstanding, Zenon
<1>1. TypeOK'
  BY <1>a, <1>c, <1>d, <1>g, <1>j, Names, Zenon DEF TypeOK
<1>2. RolesOK' /\ BufferOK'
  BY <1>a, <1>c, <1>e, <1>g, ZenonT(60) DEF RolesOK, BufferOK
<1>3. NamesOK'
  <2>1. NamesKept(Old, fd)
    BY <1>e, <1>g, Names, Zenon DEF NamesKept
  <2>2. Named(Old, fd, UnixClient)'
    BY Names, Zenon DEF Named
  <2> QED BY <2>1, <2>2, <1>a, <1>h, <1>i, <1>l, Names, SlotNames, Zenon
<1>4. FiredOK'
  <2>1. \A q \in Server : \A ge \in fired'[q] :
           /\ ge \in fired[q] /\ ge.fd \in Fd /\ ~(q = Old /\ ge.fd = fd)
           /\ ge.fd = srv'[q].inet_listen_fd => backlog' # <<>>
    BY <1>a, <1>c, <1>i, <1>m, FiredFd, ZenonT(60) DEF FiredOK
  <2> QED BY <2>1, <1>a, <1>h, <1>l, Names, SlotFired, Zenon
<1>5. ListenOK'
  <2>1. \A q \in Server : srv'[q].pc # "exit" => srv[q].pc # "exit"
    BY <1>c, <1>g, Names, Zenon
  <2>2. fdt[Old][fd] # InetListen
    BY <1>d, Names, Zenon
  <2>3. ListenNamed'
    BY <2>1, <2>2, <1>a, <1>h, <1>m, Names, SlotListenKept, Zenon
  <2> QED BY <2>3, <1>a, <1>c, <1>g, <1>m, Names, Zenon DEF ListenOK, ListenNamed
<1>6. SessionOK'
  BY <1>e, <1>g, Zenon DEF SessionOK
<1>8. UnixOK'
  BY <1>a, <1>c, <1>e, <1>g, <1>j, <1>k, Names, ZenonT(60) DEF UnixOK, NewEndOpen
<1>9. ReplyMatches'
  BY <1>e, <1>g, <1>j, <1>k, SMT, Zenon, SMTT(30) DEF ReplyMatches
<1>n. \A d \in Conns : InFlight(d)' => InFlight(d)
  BY <1>j, Zenon DEF InFlight
<1>o. /\ \A d \in Conns : Referenced(d)' => Referenced(d)
      /\ \A q \in Server, g \in Fd, d \in Conns : Holds(q, g, d)' => Holds(q, g, d)
  BY <1>c, <1>h, <1>n, Names, SlotSessions, Zenon
<1>10. BacklogOK'
  BY <1>c, <1>o, SocketsKeepBacklog, Zenon
<1>11. OneReader'
  <2>1. \A d \in Conns : ~HandingOver(d)
    BY <1>c, Zenon DEF HandingOver
  <2> QED BY <2>1, <1>a, <1>n, <1>o, FewerReaders, Zenon
<1> QED BY <1>1, <1>2, <1>3, <1>4, <1>5, <1>6, <1>8, <1>9, <1>10, <1>11, ZenonT(60)
           DEF IInv

-----------------------------------------------------------------------------
(***************************************************************************)
(* IInv is preserved by both sides of a transfer: the old process sends    *)
(* the listening socket or a session and closes it when the reply is in    *)
(* (unix_client.cc), the new one accepts its peer and receives descriptors *)
(* (unix_conn.cc); both are called from server.cc.                         *)
(***************************************************************************)

\* Sending the listening descriptor preserves IInv.
LEMMA TransferListenFdIInv ==
  ASSUME IInv, NEW p \in Server, TransferListenFd(p) PROVE IInv'
<1>a. TypeOK /\ RolesOK /\ BufferOK /\ NamesOK /\ FiredOK /\ ListenOK /\ SessionOK
    /\ UnixOK /\ BacklogOK /\ OneReader /\ ReplyMatches
  BY Zenon DEF IInv
<1>b. /\ p = Old /\ srv[Old].pc = "send_listen"
      /\ UNCHANGED <<inet_conn_map, conn, fired, fdt, ep, backlog, rx, tx, peer, cl, trigger>>
  BY <1>a, Names, Zenon DEF TransferListenFd, RolesOK
<1>c. unix.msgs = <<>> /\ unix.replies = 0 /\ Len(unix.msgs) = 0
  BY <1>a, <1>b, NoneOutstanding, Zenon
<1> DEFINE m == [type |-> "kTransferListenFd", file |-> InetListen]
           pc == IF NewEndOpen THEN "reply_listen" ELSE "loop"
           r == [srv[Old] EXCEPT !.pc = pc]
<1>d. fdt[Old][srv[Old].inet_listen_fd] = InetListen /\ srv[Old].inet_listen_fd # NoFd
  BY <1>a, <1>b, Names, Zenon DEF ListenOK
<1>e. /\ r \in SrvState
      /\ r.pc = pc /\ r.unix_listen_fd = srv[Old].unix_listen_fd
      /\ r.inet_listen_fd = srv[Old].inet_listen_fd
      /\ r.unix_conn_fd = srv[Old].unix_conn_fd
      /\ r.unix_client = srv[Old].unix_client
      /\ r.unix_socket_init = srv[Old].unix_socket_init
  BY <1>a, Names, SrvTypes, ZenonT(60) DEF SrvState
<1>f. srv' = [srv EXCEPT ![Old] = r]
  BY <1>a, <1>b, Names, Zenon DEF TypeOK, TransferListenFd
<1> HIDE DEF r
<1>g. srv' \in [Server -> SrvState] /\ srv'[Old] = r /\ srv'[New] = srv[New]
  BY <1>a, <1>e, <1>f, Names, SrvUpdate, Zenon
<1>h. m \in Message /\ m.file = InetListen /\ <<m>> \in Seq(Message) /\ Len(<<m>>) = 1
  BY Names, SMT, Zenon, SMTT(30) DEF Message
<1>i. /\ unix' = IF NewEndOpen THEN [unix EXCEPT !.msgs = <<m>>] ELSE unix
  BY <1>a, <1>b, <1>c, <1>d, UnixTypes, SMT, Zenon, SMTT(30) DEF TransferListenFd
<1>j. /\ unix' \in [queued : BOOLEAN, msgs : Seq(Message), replies : Nat]
      /\ unix'.msgs = (IF NewEndOpen THEN <<m>> ELSE <<>>)
      /\ unix'.queued = unix.queued /\ unix'.replies = 0
  <2> HIDE DEF m
  <2> QED BY <1>a, <1>c, <1>h, <1>i, UnixTypes, Zenon
<1>k. NewEndOpen' = NewEndOpen
  BY <1>b, <1>j, Zenon DEF NewEndOpen
<1>1. TypeOK'
  BY <1>a, <1>b, <1>g, <1>j, Zenon DEF TypeOK
<1>2. RolesOK' /\ BufferOK'
  BY <1>a, <1>b, <1>e, <1>g, ZenonT(60) DEF RolesOK, BufferOK
<1>t. \A q \in Server : /\ srv'[q].inet_listen_fd = srv[q].inet_listen_fd
                         /\ srv'[q].unix_listen_fd = srv[q].unix_listen_fd
                         /\ srv'[q].unix_conn_fd = srv[q].unix_conn_fd
  BY <1>e, <1>g, Names, Zenon
<1>3. NamesOK'
  BY <1>a, <1>b, <1>t, SameNames, Zenon
<1>4. FiredOK'
  BY <1>a, <1>b, <1>t, SameFired, Zenon
<1>5. ListenOK'
  BY <1>a, <1>b, <1>d, <1>e, <1>g, Names, ZenonT(60) DEF ListenOK, UnixOK
<1>6. SessionOK'
  BY <1>e, <1>g, Zenon DEF SessionOK
<1>8. UnixOK'
  BY <1>a, <1>b, <1>d, <1>e, <1>g, <1>j, <1>k, Names, Zenon DEF UnixOK, ListenOK
<1> HIDE DEF m
<1>9. ReplyMatches'
  BY <1>c, <1>e, <1>g, <1>h, <1>j, <1>k, SMT, Zenon, SMTT(30) DEF ReplyMatches
<1>l. \A c \in Conns : InFlight(c)' = InFlight(c)
  BY <1>c, <1>h, <1>j, Names, SMT, Zenon, SMTT(30) DEF InFlight
<1>10. BacklogOK'
  <2>1. \A c \in Conns : Referenced(c)' => Referenced(c)
    BY <1>b, <1>l, ZenonT(60) DEF Referenced
  <2> QED BY <2>1, <1>b, SocketsKeepBacklog, Zenon
<1>11. OneReader'
  <2>1. \A q \in Server, g \in Fd, d \in Conns : Holds(q, g, d)' => Holds(q, g, d)
    BY <1>b, Zenon DEF Holds
  <2>2. \A d \in Conns : ~HandingOver(d)
    BY <1>b, Zenon DEF HandingOver
  <2> QED BY <2>1, <2>2, <1>a, <1>l, FewerReaders, Zenon
<1> QED BY <1>1, <1>2, <1>3, <1>4, <1>5, <1>6, <1>8, <1>9, <1>10, <1>11, Zenon DEF IInv

\* Closing the listening descriptor after the reply preserves IInv: New has it, or
\* its end of the channel is gone.
LEMMA FinishListenFdIInv ==
  ASSUME IInv, NEW p \in Server, FinishListenFd(p) PROVE IInv'
<1>a. TypeOK /\ RolesOK /\ BufferOK /\ NamesOK /\ FiredOK /\ ListenOK /\ SessionOK
    /\ UnixOK /\ BacklogOK /\ OneReader /\ ReplyMatches
  BY Zenon DEF IInv
<1>b. /\ p = Old /\ srv[Old].pc = "reply_listen"
      /\ UNCHANGED <<inet_conn_map, conn, fired, backlog, rx, tx, peer, cl, trigger>>
  BY <1>a, Names, Zenon DEF FinishListenFd, RolesOK
<1> DEFINE r == [srv[Old] EXCEPT !.pc = "loop", !.inet_listen_fd = NoFd]
<1>s. \A q \in Server : srv[q].inet_listen_fd \in Fd \cup {NoFd}
  BY <1>a, SrvTypes, Zenon
<1>c. PICK fd \in Fd :
         /\ fd = srv[Old].inet_listen_fd /\ fdt[Old][fd] = InetListen
         /\ fired[Old] = {} /\ srv[Old].unix_socket_init
  BY <1>a, <1>b, <1>s, Names, Zenon DEF ListenOK, UnixOK
<1>d. /\ unix' \in [queued : BOOLEAN, msgs : Seq(Message), replies : Nat]
      /\ unix'.queued = unix.queued /\ unix'.msgs = <<>> /\ unix'.replies = 0
      /\ unix.msgs = <<>> /\ Len(unix'.msgs) = 0
  BY <1>b, GetReplyFacts, Zenon DEF FinishListenFd
<1>e. ep' = [ep EXCEPT ![Old][fd] = NoWatch] /\ fdt' = [fdt EXCEPT ![Old][fd] = NoFile]
  BY <1>b, <1>c, Zenon DEF FinishListenFd, DetachInetListenFd, DelEvent
<1>f. NoWatch \in Watch /\ NoWatch.file = NoFile
  BY Names, Zenon DEF NoWatch, Watch
<1>g. /\ r \in SrvState
      /\ r.pc = "loop" /\ r.unix_listen_fd = srv[Old].unix_listen_fd
      /\ r.inet_listen_fd = NoFd
      /\ r.unix_conn_fd = srv[Old].unix_conn_fd
      /\ r.unix_client = srv[Old].unix_client
      /\ r.unix_socket_init = srv[Old].unix_socket_init
  BY <1>a, Names, SrvTypes, ZenonT(60) DEF SrvState
<1>h. srv' = [srv EXCEPT ![Old] = r]
  BY <1>a, <1>b, Names, Zenon DEF TypeOK, FinishListenFd, DetachInetListenFd
<1> HIDE DEF r
<1>i. srv' \in [Server -> SrvState] /\ srv'[Old] = r /\ srv'[New] = srv[New]
  BY <1>a, <1>g, <1>h, Names, SrvUpdate, Zenon
<1>j. SetSlot(Old, fd, NoFile, NoWatch)
  BY <1>a, <1>e, Names, SlotSet, Zenon
<1>k. ConnsElsewhere(Old, fd)
  BY <1>b, Zenon DEF ConnsElsewhere
<1>1. TypeOK'
  BY <1>a, <1>b, <1>c, <1>d, <1>e, <1>f, <1>i, Names, Zenon DEF TypeOK
<1>2. RolesOK' /\ BufferOK'
  BY <1>a, <1>b, <1>g, <1>i, ZenonT(60) DEF RolesOK, BufferOK
<1>3. NamesOK'
  <2>1. NamesKept(Old, fd)
    BY <1>c, <1>g, <1>i, Names, Zenon DEF NamesKept
  <2>2. Named(Old, fd, NoFile)'
    BY Names, Zenon DEF Named
  <2> QED BY <2>1, <2>2, <1>a, <1>f, <1>j, <1>k, Names, SlotNames, Zenon
<1>4. FiredOK'
  <2>1. \A q \in Server : \A ge \in fired'[q] :
           /\ ge \in fired[q] /\ ge.fd \in Fd /\ q = New
    BY <1>a, <1>b, <1>c, FiredFd, Names, Zenon
  <2>2. \A ge \in fired[New] : ge.fd = srv'[New].inet_listen_fd => backlog' # <<>>
    BY <1>a, <1>b, <1>i, Names, Zenon DEF FiredOK
  <2>3. \A q \in Server : \A ge \in fired'[q] :
           /\ ge \in fired[q] /\ ge.fd \in Fd /\ ~(q = Old /\ ge.fd = fd)
           /\ ge.fd = srv'[q].inet_listen_fd => backlog' # <<>>
    BY <2>1, <2>2, Names, Zenon
  <2> QED BY <2>3, <1>a, <1>j, <1>k, Names, SlotFired, Zenon
<1>5. ListenOK'
  <2>1. ListensOn(Old, fd, NoFile)
    BY <1>g, <1>i, Names, Zenon DEF ListensOn
  <2>2. ListenNamed'
    BY <2>1, <1>a, <1>j, Names, SlotListen, Zenon
  <2> QED BY <2>2, <1>a, <1>b, <1>c, <1>g, <1>i, Zenon DEF ListenOK, ListenNamed
<1>6. SessionOK'
  BY <1>g, <1>i, Zenon DEF SessionOK
<1>7. NewEndOpen' = NewEndOpen
  BY <1>d, <1>j, Names, SlotNewEnd, Zenon
<1>8. UnixOK'
  BY <1>a, <1>c, <1>d, <1>g, <1>i, <1>7, Names, Zenon DEF UnixOK
<1>9. ReplyMatches'
  BY <1>d, <1>g, <1>i, SMT, Zenon, SMTT(30) DEF ReplyMatches
<1>l. \A d \in Conns : InFlight(d)' => InFlight(d)
  BY <1>d, Zenon DEF InFlight
<1>m. /\ \A d \in Conns : Referenced(d)' => Referenced(d)
      /\ \A q \in Server, g \in Fd, d \in Conns :
            Holds(q, g, d)' => Holds(q, g, d) /\ ~(q = Old /\ g = fd)
  BY <1>b, <1>j, <1>l, Names, SlotSessions, Zenon
<1>10. BacklogOK'
  BY <1>b, <1>m, SocketsKeepBacklog, Zenon
<1>11. OneReader'
  <2>1. \A d \in Conns : ~HandingOver(d)
    BY <1>b, Zenon DEF HandingOver
  <2> QED BY <2>1, <1>a, <1>l, <1>m, FewerReaders, Zenon
<1> QED BY <1>1, <1>2, <1>3, <1>4, <1>5, <1>6, <1>8, <1>9, <1>10, <1>11, ZenonT(60)
           DEF IInv

\* Sending a session descriptor preserves IInv: it is sent at a request boundary,
\* when nothing else is on the channel.
LEMMA TransferSessionFdIInv ==
  ASSUME IInv, NEW p \in Server, NEW fe, TransferSessionFd(p, fe) PROVE IInv'
<1>a. TypeOK /\ RolesOK /\ BufferOK /\ NamesOK /\ FiredOK /\ ListenOK /\ SessionOK
    /\ UnixOK /\ BacklogOK /\ OneReader /\ ReplyMatches
  BY Zenon DEF IInv
<1>b. /\ p = Old /\ srv[Old].pc = "loop" /\ ForNet(Old, fe) /\ NewEndOpen
      /\ fe.fd \in inet_conn_map[Old] /\ fe.mask = "IN" /\ conn[Old][fe.fd].last_read_pos = 0
      /\ srv[Old].unix_socket_init
      /\ UNCHANGED <<inet_conn_map, conn, fdt, ep, backlog, rx, tx, peer, cl, trigger>>
  BY <1>a, Names, Zenon DEF TransferSessionFd, Transferable, RolesOK, ForNet,
     EmptyReadBuf, UnixOK
<1>c. fe \in fired[Old] /\ fe.fd \in Fd /\ fdt[Old][fe.fd] \in Conns
  BY <1>b, NetFile, Names, Zenon
<1>o. PICK c \in Conns : c = fdt[Old][fe.fd]
  BY <1>c, Zenon
<1> DEFINE m == [type |-> "kTransferSessionFd", file |-> c]
           r == [srv[Old] EXCEPT !.pc = "reply_session", !.session_fd = fe.fd]
<1>d. conn[Old][fe.fd] = NewConn
  <2>1. conn[Old][fe.fd].reply = 0
    BY <1>a, <1>b, <1>c, Names, Zenon DEF FiredOK
  <2>2. conn[Old][fe.fd] \in Conn /\ conn[Old][fe.fd].last_write_pos <= conn[Old][fe.fd].reply
    BY <1>a, <1>c, Names, SMT, Zenon, SMTT(30) DEF TypeOK
  <2> QED BY <1>b, <2>1, <2>2, SMT, Zenon, SMTT(30) DEF Conn, NewConn
<1>e. unix.msgs = <<>> /\ unix.replies = 0 /\ Len(unix.msgs) = 0
  BY <1>a, <1>b, NoneOutstanding, Zenon
<1>f. m \in Message /\ m.file = c /\ <<m>> \in Seq(Message) /\ Len(<<m>>) = 1
  BY <1>c, Names, SMT, Zenon, SMTT(30) DEF Message
<1>g. unix' = [unix EXCEPT !.msgs = <<m>>]
  BY <1>a, <1>b, <1>e, <1>o, UnixTypes, SMT, Zenon, SMTT(30) DEF TransferSessionFd
<1>h. /\ unix' \in [queued : BOOLEAN, msgs : Seq(Message), replies : Nat]
      /\ unix'.msgs = <<m>> /\ unix'.queued = unix.queued /\ unix'.replies = 0
  <2> HIDE DEF m
  <2> QED BY <1>a, <1>e, <1>f, <1>g, UnixTypes, Zenon
<1>i. fired' = [fired EXCEPT ![Old] = @ \ {fe}]
  BY <1>b, Zenon DEF TransferSessionFd, Handled
<1>j. /\ r \in SrvState
      /\ r.pc = "reply_session" /\ r.session_fd = fe.fd
      /\ r.unix_listen_fd = srv[Old].unix_listen_fd
      /\ r.inet_listen_fd = srv[Old].inet_listen_fd
      /\ r.unix_conn_fd = srv[Old].unix_conn_fd
      /\ r.unix_client = srv[Old].unix_client
      /\ r.unix_socket_init = srv[Old].unix_socket_init
  BY <1>a, <1>c, Names, SrvTypes, ZenonT(60) DEF SrvState
<1>k. srv' = [srv EXCEPT ![Old] = r]
  BY <1>a, <1>b, Names, Zenon DEF TypeOK, TransferSessionFd
<1> HIDE DEF r
<1>l. srv' \in [Server -> SrvState] /\ srv'[Old] = r /\ srv'[New] = srv[New]
  BY <1>a, <1>j, <1>k, Names, SrvUpdate, Zenon
<1>t. \A q \in Server : /\ srv'[q].inet_listen_fd = srv[q].inet_listen_fd
                         /\ srv'[q].unix_listen_fd = srv[q].unix_listen_fd
                         /\ srv'[q].unix_conn_fd = srv[q].unix_conn_fd
  BY <1>j, <1>l, Names, Zenon
<1>m. \A q \in Server : \A ge \in fired'[q] : ge \in fired[q] /\ (q = Old => ge # fe)
  BY <1>a, <1>i, Names, Zenon DEF TypeOK
<1>1. TypeOK'
  <2>1. fired' \in [Server -> SUBSET FiredEvent]
    BY <1>a, <1>i, Names, Zenon DEF TypeOK
  <2> QED BY <2>1, <1>a, <1>b, <1>h, <1>l, Names, Zenon DEF TypeOK
<1>2. RolesOK' /\ BufferOK'
  BY <1>a, <1>b, <1>j, <1>l, ZenonT(60) DEF RolesOK, BufferOK
<1>3. NamesOK'
  BY <1>a, <1>b, <1>t, SameNames, Zenon
<1>4. FiredOK'
  <2>1. \A q \in Server : fired'[q] \subseteq fired[q]
    BY <1>m, ZenonT(60)
  <2> QED BY <2>1, <1>a, <1>b, <1>t, SameFired, Zenon
<1>5. ListenOK'
  BY <1>a, <1>b, <1>j, <1>l, Names, ZenonT(60) DEF ListenOK
<1>6. SessionOK'
  <2>1. \A ge \in fired'[Old] : ge.fd # fe.fd
    BY <1>a, <1>c, <1>m, Names, Zenon DEF FiredOK
  <2> QED BY <2>1, <1>b, <1>c, <1>d, <1>j, <1>l, Zenon DEF SessionOK
<1>7. NewEndOpen' = NewEndOpen
  BY <1>b, <1>h, Zenon DEF NewEndOpen
<1>8. UnixOK'
  BY <1>a, <1>b, <1>h, <1>j, <1>l, <1>o, <1>7, Names, Zenon DEF UnixOK
<1> HIDE DEF m
<1>9. ReplyMatches'
  <2>1. NewEndOpen' /\ Len(unix'.msgs) + unix'.replies = 1
    BY <1>b, <1>f, <1>h, <1>7, SMT, Zenon, SMTT(30)
  <2> QED BY <2>1, <1>j, <1>l, SMT, Zenon, SMTT(30) DEF ReplyMatches
<1>n. \A d \in Conns : (InFlight(d)' <=> d = c) /\ ~InFlight(d)
  BY <1>e, <1>f, <1>h, SMT, Zenon, SMTT(30) DEF InFlight
<1>10. BacklogOK'
  <2>1. \A d \in Conns : Referenced(d)' => Referenced(d)
    BY <1>b, <1>c, <1>n, <1>o, Names, Zenon DEF Referenced
  <2> QED BY <2>1, <1>a, <1>b, Zenon DEF BacklogOK
<1>11. OneReader'
  <2>1. \A q \in Server, g \in Fd, d \in Conns : Holds(q, g, d)' <=> Holds(q, g, d)
    BY <1>b, Zenon DEF Holds
  <2>2. \A d \in Conns : ~HandingOver(d) /\ (HandingOver(d)' <=> d = c)
    BY <1>b, <1>j, <1>l, <1>o, Zenon DEF HandingOver
  <2>3. Holds(Old, fe.fd, c)
    BY <1>b, <1>o, Zenon DEF Holds
  <2>4. \A d \in Conns, g, h \in Fd :
           /\ \A q \in Server : Holds(q, g, d) /\ Holds(q, h, d) => g = h
           /\ ~(Holds(Old, g, d) /\ Holds(New, h, d))
    BY <2>2, <1>a, ZenonT(60) DEF OneReader
  <2>5. \A d \in Conns, g, h \in Fd :
           Holds(Old, g, d)' /\ (Holds(New, h, d)' \/ InFlight(d)') =>
              HandingOver(d)' /\ conn'[Old][g] = NewConn
    <3> SUFFICES ASSUME NEW d \in Conns, NEW g \in Fd, NEW h \in Fd, Holds(Old, g, d)',
                        Holds(New, h, d)' \/ InFlight(d)'
                 PROVE  HandingOver(d)' /\ conn'[Old][g] = NewConn
      BY Zenon
    <3>0. Holds(Old, g, d) /\ (Holds(New, h, d) \/ InFlight(d)')
      BY <2>1, Names, Zenon
    <3>1. d = c /\ Holds(Old, g, c)
      BY <3>0, <2>4, <1>n, Zenon
    <3>2. g = fe.fd
      BY <3>1, <2>3, <2>4, <1>c, Names, Zenon
    <3> QED BY <3>1, <3>2, <2>2, <1>b, <1>d, Zenon
  <2>6. \A d \in Conns, h \in Fd : ~(Holds(New, h, d)' /\ InFlight(d)')
    <3> SUFFICES ASSUME NEW h \in Fd, Holds(New, h, c)' PROVE FALSE
      BY <1>n, Zenon
    <3> QED BY <2>1, <2>3, <2>4, <1>c, Names, Zenon
  <2>7. \A d \in Conns, g, h \in Fd, q \in Server : Holds(q, g, d)' /\ Holds(q, h, d)' => g = h
    BY <2>1, <2>4, Zenon
  <2> QED BY <2>5, <2>6, <2>7, Zenon DEF OneReader
<1> QED BY <1>1, <1>2, <1>3, <1>4, <1>5, <1>6, <1>8, <1>9, <1>10, <1>11, Zenon DEF IInv

\* Closing a session after the reply preserves IInv: Old had nothing buffered for
\* it and no other event of it is left to handle.
LEMMA CloseTransferredIInv ==
  ASSUME IInv, NEW p \in Server, CloseTransferred(p) PROVE IInv'
<1>a. TypeOK /\ RolesOK /\ BufferOK /\ NamesOK /\ FiredOK /\ ListenOK /\ SessionOK
    /\ UnixOK /\ BacklogOK /\ OneReader /\ ReplyMatches
  BY Zenon DEF IInv
<1>b. /\ p = Old /\ srv[Old].pc = "reply_session"
      /\ UNCHANGED <<fired, backlog, rx, tx, peer, cl, trigger>>
  BY <1>a, Names, Zenon DEF CloseTransferred, RolesOK
<1> DEFINE r == [srv[Old] EXCEPT !.pc = "loop", !.session_fd = NoFd]
<1>s. \A q \in Server : srv[q].inet_listen_fd \in Fd \cup {NoFd}
  BY <1>a, SrvTypes, Zenon
<1>c. PICK fd \in Fd :
      /\ fd = srv[Old].session_fd /\ fd \in inet_conn_map[Old] /\ fdt[Old][fd] \in Conns
      /\ conn[Old][fd] = NewConn /\ srv[Old].unix_socket_init
      /\ \A fe \in fired[Old] : fe.fd # fd
  BY <1>a, <1>b, Names, Zenon DEF SessionOK, UnixOK, TypeOK
<1>d. /\ unix' \in [queued : BOOLEAN, msgs : Seq(Message), replies : Nat]
      /\ unix'.queued = unix.queued /\ unix'.msgs = <<>> /\ unix'.replies = 0
      /\ unix.msgs = <<>> /\ Len(unix'.msgs) = 0
  BY <1>b, GetReplyFacts, Zenon DEF CloseTransferred
<1>e. /\ ep' = [ep EXCEPT ![Old][fd] = NoWatch] /\ fdt' = [fdt EXCEPT ![Old][fd] = NoFile]
      /\ inet_conn_map' = [inet_conn_map EXCEPT ![Old] = @ \ {fd}]
      /\ conn' = [conn EXCEPT ![Old][fd] = NewConn]
  BY <1>b, <1>c, Zenon DEF CloseTransferred, CloseConn, DelEvent
<1>f. NoWatch \in Watch /\ NoWatch.file = NoFile
  BY Names, Zenon DEF NoWatch, Watch
<1>g. /\ r \in SrvState
      /\ r.pc = "loop" /\ r.unix_listen_fd = srv[Old].unix_listen_fd
      /\ r.inet_listen_fd = srv[Old].inet_listen_fd
      /\ r.unix_conn_fd = srv[Old].unix_conn_fd
      /\ r.unix_client = srv[Old].unix_client
      /\ r.unix_socket_init = srv[Old].unix_socket_init
  BY <1>a, Names, SrvTypes, ZenonT(60) DEF SrvState
<1>h. srv' = [srv EXCEPT ![Old] = r]
  BY <1>a, <1>b, Names, Zenon DEF TypeOK, CloseTransferred
<1>k. conn' = conn
  BY <1>a, <1>c, <1>e, Zenon DEF TypeOK
<1> HIDE DEF r
<1>i. srv' \in [Server -> SrvState] /\ srv'[Old] = r /\ srv'[New] = srv[New]
  BY <1>a, <1>g, <1>h, Names, SrvUpdate, Zenon
<1>t. \A q \in Server : /\ srv'[q].inet_listen_fd = srv[q].inet_listen_fd
                         /\ srv'[q].unix_listen_fd = srv[q].unix_listen_fd
                         /\ srv'[q].unix_conn_fd = srv[q].unix_conn_fd
  BY <1>g, <1>i, Names, Zenon
<1>j. SetSlot(Old, fd, NoFile, NoWatch)
  BY <1>a, <1>e, Names, SlotSet, Zenon
<1>l. ConnsElsewhere(Old, fd)
  BY <1>k, Zenon DEF ConnsElsewhere
<1>m. \A q \in Server : inet_conn_map'[q] \subseteq inet_conn_map[q]
  BY <1>a, <1>e, Names, Zenon DEF TypeOK
<1>1. TypeOK'
  <2>1. inet_conn_map' \in [Server -> SUBSET Fd]
    BY <1>a, <1>e, Names, Zenon DEF TypeOK
  <2> QED BY <2>1, <1>a, <1>b, <1>c, <1>d, <1>e, <1>f, <1>i, <1>k, Names, ZenonT(60)
             DEF TypeOK
<1>2. RolesOK' /\ BufferOK'
  BY <1>a, <1>k, <1>g, <1>i, ZenonT(60) DEF RolesOK, BufferOK
<1>3. NamesOK'
  <2>1. NamesKept(Old, fd) /\ Named(Old, fd, NoFile)'
    BY <1>t, Names, Zenon DEF NamesKept, Named
  <2> QED BY <2>1, <1>a, <1>f, <1>j, <1>l, Names, SlotNames, Zenon
<1>4. FiredOK'
  <2>1. \A q \in Server : \A ge \in fired'[q] :
           /\ ge \in fired[q] /\ ge.fd \in Fd /\ ~(q = Old /\ ge.fd = fd)
           /\ ge.fd = srv'[q].inet_listen_fd => backlog' # <<>>
    <3>1. \A q \in Server : \A ge \in fired[q] :
             ge.fd \in Fd /\ (ge.fd = srv[q].inet_listen_fd => backlog # <<>>)
      BY <1>a, FiredFd, Zenon DEF FiredOK
    <3>2. fired' = fired /\ backlog' = backlog
      BY <1>b, Zenon
    <3> SUFFICES ASSUME NEW q \in Server, NEW ge \in fired[q]
                 PROVE  /\ ge.fd \in Fd /\ ~(q = Old /\ ge.fd = fd)
                        /\ ge.fd = srv'[q].inet_listen_fd => backlog # <<>>
      BY <3>2, Zenon
    <3> QED BY <3>1, <1>c, <1>t, Zenon
  <2> QED BY <2>1, <1>a, <1>j, <1>l, Names, SlotFired, Zenon
<1>5. ListenOK'
  <2>1. \A q \in Server : srv'[q].pc # "exit" => srv[q].pc # "exit"
    BY <1>b, <1>i, Names, Zenon
  <2>2. fdt[Old][fd] # InetListen
    BY <1>c, Names, Zenon
  <2>3. ListenNamed'
    BY <2>1, <2>2, <1>a, <1>j, <1>t, Names, SlotListenKept, Zenon
  <2> QED BY <2>3, <1>a, <1>b, <1>c, <1>g, <1>i, ZenonT(60) DEF ListenOK, ListenNamed
<1>6. SessionOK'
  BY <1>g, <1>i, ZenonT(60) DEF SessionOK
<1>7. NewEndOpen' = NewEndOpen
  BY <1>d, <1>j, Names, SlotNewEnd, Zenon
<1>8. UnixOK'
  BY <1>a, <1>c, <1>d, <1>g, <1>i, <1>7, Names, ZenonT(60) DEF UnixOK
<1>9. ReplyMatches'
  BY <1>d, <1>g, <1>i, SMT, Zenon, SMTT(30) DEF ReplyMatches
<1>n. \A d \in Conns : InFlight(d)' => InFlight(d)
  BY <1>d, Zenon DEF InFlight
<1>o. /\ \A d \in Conns : Referenced(d)' => Referenced(d)
      /\ \A q \in Server, g \in Fd, d \in Conns :
            Holds(q, g, d)' => Holds(q, g, d) /\ ~(q = Old /\ g = fd)
  BY <1>j, <1>m, <1>n, Names, SlotSessions, Zenon
<1>10. BacklogOK'
  BY <1>b, <1>o, SocketsKeepBacklog, Zenon
<1>11. OneReader'
  <2>1. \A d \in Conns : HandingOver(d) => Holds(Old, fd, d)
    BY <1>c, Zenon DEF HandingOver, Holds
  <2>2. \A d \in Conns, g \in Fd : Holds(Old, g, d)' => ~HandingOver(d)
    BY <2>1, <1>a, <1>o, Names, Zenon DEF OneReader
  <2> QED BY <2>2, <1>a, <1>n, <1>o, FewerReaders, Zenon
<1> QED BY <1>1, <1>2, <1>3, <1>4, <1>5, <1>6, <1>8, <1>9, <1>10, <1>11, Zenon DEF IInv

\* Accepting the UNIX connection preserves IInv.
LEMMA HandleUnixListenIInv ==
  ASSUME IInv, NEW p \in Server, NEW fe \in fired[p], HandleUnixListen(p, fe) PROVE IInv'
<1>a. TypeOK /\ RolesOK /\ BufferOK /\ NamesOK /\ FiredOK /\ ListenOK /\ SessionOK
    /\ UnixOK /\ BacklogOK /\ OneReader /\ ReplyMatches
  BY Zenon DEF IInv
<1>b. /\ fired' \in [Server -> SUBSET FiredEvent] /\ fe.fd \in Fd
      /\ \A q \in Server : \A ge \in fired'[q] : ge \in fired[q] /\ ge.fd \in Fd
  BY HandledFacts, Zenon DEF HandleUnixListen
<1>c. /\ p = New /\ srv[New].pc = "loop"
      /\ UNCHANGED <<inet_conn_map, conn, backlog, rx, tx, peer, cl, trigger>>
  BY <1>a, <1>b, Names, Zenon DEF HandleUnixListen, ForUnixListen, RolesOK
<1>d. PICK fd \in Fd :
          /\ unix.queued /\ fdt[New][fd] = NoFile /\ fdt' = [fdt EXCEPT ![New][fd] = UnixConn]
          /\ unix' = [unix EXCEPT !.queued = FALSE]
          /\ ep' = AddEvent(New, fd, UnixConn, FALSE)
          /\ srv' = [srv EXCEPT ![New].unix_conn_fd = fd, ![New].unix_conn = TRUE]
  BY <1>c, Zenon DEF HandleUnixListen, UnixServerAccept, LowestFree
<1> DEFINE w == [file |-> UnixConn, mask |-> "IN", et |-> FALSE, armed |-> TRUE]
           r == [srv[New] EXCEPT !.unix_conn_fd = fd, !.unix_conn = TRUE]
<1>e. ep' = [ep EXCEPT ![New][fd] = w] /\ w \in Watch /\ w.file = UnixConn
  BY <1>d, Names, Zenon DEF AddEvent, Watch
<1>f. /\ r \in SrvState
      /\ r.pc = srv[New].pc /\ r.unix_conn_fd = fd
      /\ r.inet_listen_fd = srv[New].inet_listen_fd
      /\ r.unix_listen_fd = srv[New].unix_listen_fd
      /\ r.unix_client = srv[New].unix_client
  BY <1>a, Names, SrvTypes, ZenonT(60) DEF SrvState
<1>g. srv' = [srv EXCEPT ![New] = r]
  BY <1>a, <1>d, Names, Zenon DEF TypeOK
<1> HIDE DEF w, r
<1>h. srv' \in [Server -> SrvState] /\ srv'[New] = r /\ srv'[Old] = srv[Old]
  BY <1>a, <1>f, <1>g, Names, SrvUpdate, Zenon
<1>o. SetSlot(New, fd, UnixConn, w)
  <2>1. fdt' = [fdt EXCEPT ![New][fd] = UnixConn]
    BY <1>d, Zenon
  <2> QED BY <2>1, <1>a, <1>e, Names, SlotSet, Zenon
<1>p. ConnsElsewhere(New, fd)
  BY <1>c, Zenon DEF ConnsElsewhere
<1>j. fdt'[Old] = fdt[Old] /\ fdt' \in [Server -> [Fd -> File]]
  <2>1. fdt' = [fdt EXCEPT ![New][fd] = UnixConn]
    BY <1>d, Zenon
  <2> QED BY <2>1, <1>a, Names, Zenon DEF TypeOK
<1>i. ep' \in [Server -> [Fd -> Watch]]
  BY <1>a, <1>e, Names, Zenon DEF TypeOK
<1>k. \A ge \in fired[New] : ge.fd # fd
  BY <1>a, <1>d, Names, FreeUnfired, Zenon
<1>l. /\ unix' \in [queued : BOOLEAN, msgs : Seq(Message), replies : Nat]
      /\ unix'.msgs = unix.msgs /\ unix'.replies = unix.replies /\ ~unix'.queued
  BY <1>a, <1>d, UnixTypes, Zenon
<1>m. \A q \in Server : srv'[q].inet_listen_fd = srv[q].inet_listen_fd
                        /\ srv'[q].unix_listen_fd = srv[q].unix_listen_fd
                        /\ srv'[q].pc = srv[q].pc
                        /\ srv[q].inet_listen_fd \in Fd \cup {NoFd}
  BY <1>a, <1>f, <1>h, SrvTypes, Names, Zenon
<1>n. NewEndOpen /\ NewEndOpen' /\ srv[New].unix_conn_fd = NoFd
  <2>1. NewEndOpen
    BY <1>d, Zenon DEF NewEndOpen
  <2>2. fdt'[New][fd] = UnixConn
    BY <1>o, Zenon DEF SetSlot
  <2>3. NewEndOpen'
    BY <2>2, Zenon DEF NewEndOpen
  <2>4. srv[New].unix_conn_fd = NoFd
    BY <1>a, <1>d, Zenon DEF UnixOK
  <2> QED BY <2>1, <2>3, <2>4, Zenon
<1>1. TypeOK'
  BY <1>a, <1>b, <1>c, <1>h, <1>i, <1>j, <1>l, Zenon DEF TypeOK
<1>2. RolesOK' /\ BufferOK'
  BY <1>a, <1>c, <1>f, <1>h, ZenonT(60) DEF RolesOK, BufferOK
<1>3. NamesOK'
  <2>1. NamesKept(New, fd)
    BY <1>h, <1>m, <1>n, Names, Zenon DEF NamesKept
  <2>2. Named(New, fd, UnixConn)'
    BY <1>f, <1>h, Names, Zenon DEF Named
  <2> QED BY <2>1, <2>2, <1>a, <1>e, <1>o, <1>p, Names, SlotNames, Zenon
<1>4. FiredOK'
  <2>1. \A q \in Server : \A ge \in fired'[q] :
           /\ ge \in fired[q] /\ ge.fd \in Fd /\ ~(q = New /\ ge.fd = fd)
           /\ ge.fd = srv'[q].inet_listen_fd => backlog' # <<>>
    <3>1. \A q \in Server : \A ge \in fired[q] : ge.fd = srv[q].inet_listen_fd => backlog # <<>>
      BY <1>a, FiredListen, Zenon
    <3> QED BY <3>1, <1>b, <1>c, <1>k, <1>m, Zenon
  <2> QED BY <2>1, <1>a, <1>o, <1>p, Names, SlotFired, Zenon
<1>5. ListenOK'
  <2>1. fdt[New][fd] # InetListen
    BY <1>d, Names, Zenon
  <2>2. ListenNamed'
    BY <2>1, <1>a, <1>m, <1>o, Names, SlotListenKept, Zenon
  <2>3. fired'[Old] \subseteq fired[Old]
    BY <1>b, Names, Zenon
  <2> QED BY <2>2, <2>3, <1>a, <1>h, <1>m, Names, ZenonT(60) DEF ListenOK, ListenNamed
<1>6. SessionOK'
  BY <1>a, <1>b, <1>c, <1>h, <1>j, Names, Zenon DEF SessionOK
<1>8. UnixOK'
  BY <1>a, <1>d, <1>f, <1>h, <1>j, <1>l, <1>n, Names, ZenonT(60) DEF UnixOK
<1>9. ReplyMatches'
  BY <1>a, <1>h, <1>l, <1>n, Zenon DEF ReplyMatches
<1>q. \A d \in Conns : InFlight(d)' => InFlight(d)
  BY <1>l, Zenon DEF InFlight
<1>r. /\ \A d \in Conns : Referenced(d)' => Referenced(d)
      /\ \A q \in Server, g \in Fd, d \in Conns :
            Holds(q, g, d)' => Holds(q, g, d) /\ ~(q = New /\ g = fd)
  BY <1>c, <1>o, <1>q, Names, SlotSessions, Zenon
<1>10. BacklogOK'
  BY <1>c, <1>r, SocketsKeepBacklog, Zenon
<1>11. OneReader'
  <2>1. \A d \in Conns : HandingOver(d)' = HandingOver(d)
    BY <1>h, <1>j, Zenon DEF HandingOver
  <2> QED BY <2>1, <1>a, <1>c, <1>q, <1>r, FewerReaders, Zenon
<1> QED BY <1>1, <1>2, <1>3, <1>4, <1>5, <1>6, <1>8, <1>9, <1>10, <1>11, Zenon DEF IInv

\* Receiving the listening descriptor preserves IInv.
LEMMA HandleListenFdMsgIInv ==
  ASSUME IInv, NEW p \in Server, NEW fe \in fired[p], HandleListenFdMsg(p, fe) PROVE IInv'
<1>a. TypeOK /\ RolesOK /\ BufferOK /\ NamesOK /\ FiredOK /\ ListenOK /\ SessionOK
    /\ UnixOK /\ BacklogOK /\ OneReader /\ ReplyMatches
  BY Zenon DEF IInv
<1>b. /\ p = New /\ srv[New].pc = "loop" /\ NewEndOpen
      /\ unix' \in [queued : BOOLEAN, msgs : Seq(Message), replies : Nat]
      /\ unix'.queued = unix.queued /\ unix'.msgs = <<>> /\ unix'.replies = 1
      /\ Len(unix'.msgs) = 0
      /\ fired' \in [Server -> SUBSET FiredEvent] /\ fe.fd \in Fd
      /\ \A q \in Server : \A ge \in fired'[q] : ge \in fired[q] /\ ge.fd \in Fd
  BY ProcessRecvFacts, ZenonT(60) DEF HandleListenFdMsg
<1>c. /\ srv[Old].pc = "reply_listen" /\ srv[New].inet_listen_fd = NoFd
      /\ Head(unix.msgs).file = InetListen
  BY ProcessRecvFacts, SMT, Zenon, SMTT(30) DEF HandleListenFdMsg
<1>d. PICK fd \in Fd :
          /\ fdt[New][fd] = NoFile /\ fdt' = [fdt EXCEPT ![New][fd] = InetListen]
          /\ srv' = [srv EXCEPT ![New].inet_listen_fd = fd]
          /\ ep' = AddEvent(New, fd, InetListen, FALSE)
  BY <1>b, <1>c, Zenon DEF HandleListenFdMsg, LowestFree, AttachInetListenFd
<1>e. UNCHANGED <<inet_conn_map, conn, backlog, rx, tx, peer, cl, trigger>>
  BY Zenon DEF HandleListenFdMsg
<1> DEFINE w == [file |-> InetListen, mask |-> "IN", et |-> FALSE, armed |-> TRUE]
           r == [srv[New] EXCEPT !.inet_listen_fd = fd]
<1>f. ep' = [ep EXCEPT ![New][fd] = w] /\ w \in Watch /\ w.file = InetListen
  BY <1>d, Names, Zenon DEF AddEvent, Watch
<1>g. /\ r \in SrvState
      /\ r.pc = srv[New].pc /\ r.unix_conn_fd = srv[New].unix_conn_fd
      /\ r.inet_listen_fd = fd
      /\ r.unix_listen_fd = srv[New].unix_listen_fd
      /\ r.unix_client = srv[New].unix_client
  BY <1>a, Names, SrvTypes, ZenonT(60) DEF SrvState
<1>h. srv' = [srv EXCEPT ![New] = r]
  BY <1>a, <1>d, Names, Zenon DEF TypeOK
<1> HIDE DEF w, r
<1>i. srv' \in [Server -> SrvState] /\ srv'[New] = r /\ srv'[Old] = srv[Old]
  BY <1>a, <1>g, <1>h, Names, SrvUpdate, Zenon
<1>j. SetSlot(New, fd, InetListen, w)
  <2>1. fdt' = [fdt EXCEPT ![New][fd] = InetListen]
    BY <1>d, Zenon
  <2> QED BY <2>1, <1>a, <1>f, Names, SlotSet, Zenon
<1>o. ConnsElsewhere(New, fd)
  BY <1>e, Zenon DEF ConnsElsewhere
<1>k. fdt' \in [Server -> [Fd -> File]]
  <2>1. fdt' = [fdt EXCEPT ![New][fd] = InetListen]
    BY <1>d, Zenon
  <2> QED BY <2>1, <1>a, Names, Zenon DEF TypeOK
<1>p. ep' \in [Server -> [Fd -> Watch]]
  BY <1>a, <1>f, Names, Zenon DEF TypeOK
<1>l. \A ge \in fired[New] : ge.fd # fd
  BY <1>a, <1>d, Names, FreeUnfired, Zenon
<1>m. \A q \in Server : srv'[q].unix_conn_fd = srv[q].unix_conn_fd
                        /\ srv'[q].unix_listen_fd = srv[q].unix_listen_fd
                        /\ srv'[q].pc = srv[q].pc
  BY <1>a, <1>g, <1>i, Names, Zenon
<1>n. NewEndOpen'
  <2>1. NewEndOpen' = NewEndOpen
    BY <1>b, <1>d, <1>j, Names, SlotNewEnd, Zenon
  <2> QED BY <2>1, <1>b, Zenon
<1>1. TypeOK'
  BY <1>a, <1>b, <1>e, <1>i, <1>k, <1>p, Zenon DEF TypeOK
<1>2. RolesOK' /\ BufferOK'
  BY <1>a, <1>e, <1>g, <1>i, ZenonT(60) DEF RolesOK, BufferOK
<1>3. NamesOK'
  <2>1. NamesKept(New, fd)
    BY <1>c, <1>i, <1>m, Names, Zenon DEF NamesKept
  <2>2. Named(New, fd, InetListen)'
    BY <1>g, <1>i, Names, Zenon DEF Named
  <2> QED BY <2>1, <2>2, <1>a, <1>f, <1>j, <1>o, Names, SlotNames, Zenon
<1>4. FiredOK'
  <2>1. \A ge \in fired'[New] : ge \in fired[New] /\ ge.fd # fd /\ srv'[New].inet_listen_fd = fd
    BY <1>b, <1>g, <1>i, <1>l, Names, Zenon
  <2>2. \A ge \in fired'[Old] : ge \in fired[Old]
           /\ (ge.fd = srv'[Old].inet_listen_fd => backlog' # <<>>)
    <3>1. \A ge \in fired[Old] : ge.fd = srv[Old].inet_listen_fd => backlog # <<>>
      BY <1>a, Names, FiredListen, Zenon
    <3> QED BY <3>1, <1>b, <1>e, <1>i, Names, Zenon
  <2>3. \A q \in Server : \A ge \in fired'[q] :
           /\ ge \in fired[q] /\ ge.fd \in Fd /\ ~(q = New /\ ge.fd = fd)
           /\ ge.fd = srv'[q].inet_listen_fd => backlog' # <<>>
    BY <2>1, <2>2, <1>b, Names, Zenon
  <2> QED BY <2>3, <1>a, <1>j, <1>o, Names, SlotFired, Zenon
<1>5. ListenOK'
  <2>1. ListensOn(New, fd, InetListen)
    BY <1>g, <1>i, <1>m, Names, Zenon DEF ListensOn
  <2>2. ListenNamed'
    BY <2>1, <1>a, <1>j, Names, SlotListen, Zenon
  <2>3. fired'[Old] \subseteq fired[Old]
    BY <1>b, Names, Zenon
  <2> QED BY <2>2, <2>3, <1>a, <1>c, <1>i, ZenonT(60) DEF ListenOK, ListenNamed
<1>6. SessionOK'
  BY <1>c, <1>i, Zenon DEF SessionOK
<1>8. UnixOK'
  BY <1>a, <1>b, <1>g, <1>i, Names, ZenonT(60) DEF UnixOK
<1>9. ReplyMatches'
  BY <1>b, <1>c, <1>i, <1>n, SMT, Zenon, SMTT(30) DEF ReplyMatches
<1>q. \A d \in Conns : ~InFlight(d)' /\ ~HandingOver(d)
  BY <1>b, <1>c, SMT, Zenon, SMTT(30) DEF InFlight, HandingOver
<1>r. /\ \A d \in Conns : Referenced(d)' => Referenced(d)
      /\ \A q \in Server, g \in Fd, d \in Conns :
            Holds(q, g, d)' => Holds(q, g, d) /\ ~(q = New /\ g = fd)
  BY <1>e, <1>j, <1>q, Names, SlotSessions, Zenon
<1>10. BacklogOK'
  BY <1>e, <1>r, SocketsKeepBacklog, Zenon
<1>11. OneReader'
  BY <1>a, <1>q, <1>r, FewerReaders, Zenon
<1> QED BY <1>1, <1>2, <1>3, <1>4, <1>5, <1>6, <1>8, <1>9, <1>10, <1>11, Zenon DEF IInv

\* Receiving a session preserves IInv: New is the only reader besides Old, which is
\* waiting to close it and has nothing buffered.
LEMMA HandleSessionFdMsgIInv ==
  ASSUME IInv, NEW p \in Server, NEW fe \in fired[p], HandleSessionFdMsg(p, fe) PROVE IInv'
<1>a. TypeOK /\ RolesOK /\ BufferOK /\ NamesOK /\ FiredOK /\ ListenOK /\ SessionOK
    /\ UnixOK /\ BacklogOK /\ OneReader /\ ReplyMatches
  BY Zenon DEF IInv
<1>b. /\ p = New /\ srv[New].pc = "loop" /\ NewEndOpen
      /\ unix' \in [queued : BOOLEAN, msgs : Seq(Message), replies : Nat]
      /\ unix'.queued = unix.queued /\ unix'.msgs = <<>> /\ unix'.replies = 1
      /\ Len(unix'.msgs) = 0
      /\ fired' \in [Server -> SUBSET FiredEvent] /\ fe.fd \in Fd
      /\ \A q \in Server : \A ge \in fired'[q] : ge \in fired[q] /\ ge.fd \in Fd
  BY ProcessRecvFacts, ZenonT(60) DEF HandleSessionFdMsg
<1>c. /\ srv[Old].pc = "reply_session"
      /\ Head(unix.msgs).file = fdt[Old][srv[Old].session_fd]
      /\ InFlight(fdt[Old][srv[Old].session_fd])
  BY MovedSession, Zenon
<1>d. PICK c \in Conns : c = fdt[Old][srv[Old].session_fd] /\ c = Head(unix.msgs).file
  BY <1>a, <1>c, Zenon DEF SessionOK
<1>e. PICK fd \in Fd : OpenConn(New, fd, c)
  BY <1>b, <1>d, Zenon DEF HandleSessionFdMsg
<1>f. UNCHANGED <<srv, backlog, rx, tx, peer, cl, trigger>>
  BY Zenon DEF HandleSessionFdMsg
<1> DEFINE w == [file |-> c, mask |-> "IN", et |-> TRUE, armed |-> TRUE]
<1>g. /\ fdt[New][fd] = NoFile /\ fdt' = [fdt EXCEPT ![New][fd] = c]
      /\ inet_conn_map' = [inet_conn_map EXCEPT ![New] = @ \cup {fd}]
      /\ conn' = [conn EXCEPT ![New][fd] = NewConn]
      /\ ep' = [ep EXCEPT ![New][fd] = w]
  BY <1>e, Zenon DEF OpenConn, LowestFree, AddEvent
<1>h. w.file = c
  BY SMT, Zenon, SMTT(30)
<1> HIDE DEF w
<1>i. SetSlot(New, fd, c, w)
  BY <1>a, <1>g, Names, SlotSet, Zenon
<1>o. ConnsElsewhere(New, fd) /\ conn'[New][fd] = NewConn
  <2>1. ConnsElsewhere(New, fd)
    BY <1>a, <1>g, Names, ConnSet, Zenon
  <2> QED BY <2>1, <1>a, <1>g, Names, Zenon DEF TypeOK
<1>p. \A g \in Fd : g \in inet_conn_map'[New] <=> g \in inet_conn_map[New] \/ g = fd
  BY <1>a, <1>g, Names, Zenon DEF TypeOK
<1>j. fdt'[Old] = fdt[Old] /\ conn'[Old] = conn[Old] /\ inet_conn_map'[Old] = inet_conn_map[Old]
  BY <1>a, <1>g, Names, Zenon DEF TypeOK
<1>k. \A ge \in fired[New] : ge.fd # fd
  BY <1>a, <1>g, Names, FreeUnfired, Zenon
<1>l. NewEndOpen'
  <2>1. NewEndOpen' = NewEndOpen
    BY <1>b, <1>d, <1>g, <1>i, Names, SlotNewEnd, Zenon
  <2> QED BY <2>1, <1>b, Zenon
<1>n. \A d \in Conns : ~InFlight(d)'
  <2>1. unix'.msgs = <<>> /\ DOMAIN << >> = {}
    BY <1>b, EmptyQueue, SMT, Zenon, SMTT(30)
  <2>2. DOMAIN unix'.msgs = {}
    BY <2>1, Zenon
  <2> QED BY <2>2, Zenon DEF InFlight
<1>1. TypeOK'
  BY <1>a, <1>b, <1>e, <1>f, Names, OpenConnTypes, ZenonT(60) DEF TypeOK
<1>2. RolesOK' /\ BufferOK'
  <2>1. BufferOK'
    BY <1>a, <1>g, Names, NewConnIs, ConnBuffers, Zenon
  <2> QED BY <2>1, <1>a, <1>f, ZenonT(60) DEF RolesOK
<1>3. NamesOK'
  <2>1. NamesKept(New, fd)
    BY <1>f, Zenon DEF NamesKept
  <2>2. Named(New, fd, c)'
    BY <1>d, Names, Zenon DEF Named
  <2>3. w.file # UnixClient /\ conn'[New][fd].reply = 0
    BY <1>d, <1>h, <1>o, Names, NewConnIs, Zenon
  <2> QED BY <2>1, <2>2, <2>3, <1>a, <1>h, <1>i, <1>o, Names, SlotNames, Zenon
<1>4. FiredOK'
  <2>1. \A q \in Server : \A ge \in fired[q] : ge.fd = srv[q].inet_listen_fd => backlog # <<>>
    BY <1>a, FiredListen, Zenon
  <2>2. \A q \in Server : \A ge \in fired'[q] :
           /\ ge \in fired[q] /\ ge.fd \in Fd /\ ~(q = New /\ ge.fd = fd)
           /\ ge.fd = srv'[q].inet_listen_fd => backlog' # <<>>
    BY <2>1, <1>b, <1>f, <1>k, Zenon
  <2> QED BY <2>2, <1>a, <1>i, <1>o, Names, SlotFired, Zenon
<1>5. ListenOK'
  <2>1. fdt[New][fd] # InetListen
    BY <1>g, Names, Zenon
  <2>2. ListenNamed'
    BY <2>1, <1>a, <1>f, <1>i, Names, SlotListenKept, Zenon
  <2> QED BY <2>2, <1>a, <1>c, <1>f, Zenon DEF ListenOK, ListenNamed
<1>6. SessionOK'
  BY <1>a, <1>b, <1>f, <1>j, Names, Zenon DEF SessionOK
<1>8. UnixOK'
  BY <1>a, <1>b, <1>f, Names, ZenonT(60) DEF UnixOK
<1>9. ReplyMatches'
  BY <1>b, <1>c, <1>f, <1>l, SMT, Zenon, SMTT(30) DEF ReplyMatches
<1>10. BacklogOK'
  <2>1. \A d \in Conns : Referenced(d)' => Referenced(d)
    <3>1. Referenced(c)
      BY <1>c, <1>d, Zenon DEF Referenced
    <3>2. \A q \in Server, g \in Fd : fdt'[q][g] = c \/ fdt'[q][g] = fdt[q][g]
      BY <1>i, Zenon DEF SetSlot
    <3> SUFFICES ASSUME NEW d \in Conns, Referenced(d)', d # c PROVE Referenced(d)
      BY <3>1, Zenon
    <3>3. PICK q \in Server, g \in Fd : fdt'[q][g] = d
      BY <1>n, Zenon DEF Referenced
    <3>4. fdt[q][g] = d
      BY <3>2, <3>3, Zenon
    <3> QED BY <3>4, Zenon DEF Referenced
  <2> QED BY <2>1, <1>a, <1>f, Zenon DEF BacklogOK
<1>11. OneReader'
  <2>1. \A d \in Conns, g \in Fd : Holds(Old, g, d)' <=> Holds(Old, g, d)
    BY <1>j, Zenon DEF Holds
  <2>2. \A d \in Conns, g \in Fd : Holds(New, g, d)' => Holds(New, g, d) \/ (d = c /\ g = fd)
    BY <1>i, <1>p, Names, Zenon DEF Holds, SetSlot
  <2>3. \A d \in Conns : ~InFlight(d)' /\ HandingOver(d)' = HandingOver(d)
    BY <1>f, <1>j, <1>n, Zenon DEF HandingOver
  <2>4. HandingOver(c) /\ \A g \in Fd : ~Holds(New, g, c)
    BY <1>a, <1>c, <1>d, Zenon DEF HandingOver, OneReader
  <2>5. \A g \in Fd : Holds(Old, g, c) => conn[Old][g] = NewConn
    BY <1>a, <1>c, <1>d, ZenonT(60) DEF OneReader
  <2>6. \A d \in Conns, g, h \in Fd, q \in Server : Holds(q, g, d)' /\ Holds(q, h, d)' => g = h
    <3>1. \A d \in Conns, g, h \in Fd, q \in Server : Holds(q, g, d) /\ Holds(q, h, d) => g = h
      BY <1>a, Zenon DEF OneReader
    <3>2. \A d \in Conns, g, h \in Fd : Holds(Old, g, d)' /\ Holds(Old, h, d)' => g = h
      BY <2>1, <3>1, Names, Zenon
    <3>3. ASSUME NEW d \in Conns, NEW g \in Fd, NEW h \in Fd, Holds(New, g, d)', Holds(New, h, d)'
          PROVE  g = h
      <4>1. CASE d = c
        <5>1. g = fd /\ h = fd
          BY <2>2, <2>4, <3>3, <4>1, Zenon
        <5> QED BY <5>1, Zenon
      <4>2. CASE d # c
        <5>1. Holds(New, g, d) /\ Holds(New, h, d)
          BY <2>2, <3>3, <4>2, Zenon
        <5> QED BY <5>1, <3>1, Names, Zenon
      <4> QED BY <4>1, <4>2, Zenon
    <3> QED BY <3>2, <3>3, Names, Zenon
  <2>7. \A d \in Conns, g, h \in Fd : Holds(Old, g, d)' /\ Holds(New, h, d)'
           => HandingOver(d)' /\ conn'[Old][g] = NewConn
    <3>1. \A d \in Conns, g, h \in Fd :
             Holds(Old, g, d) /\ Holds(New, h, d) => HandingOver(d) /\ conn[Old][g] = NewConn
      BY <1>a, Zenon DEF OneReader
    <3> SUFFICES ASSUME NEW d \in Conns, NEW g \in Fd, NEW h \in Fd,
                        Holds(Old, g, d)', Holds(New, h, d)'
                 PROVE  HandingOver(d)' /\ conn'[Old][g] = NewConn
      BY Zenon
    <3>2. HandingOver(d) /\ conn[Old][g] = NewConn
      BY <2>1, <2>2, <2>4, <2>5, <3>1, Zenon
    <3> QED BY <3>2, <2>3, <1>j, Zenon
  <2> QED BY <2>3, <2>6, <2>7, Zenon DEF OneReader
<1> QED BY <1>1, <1>2, <1>3, <1>4, <1>5, <1>6, <1>8, <1>9, <1>10, <1>11, ZenonT(60)
           DEF IInv

-----------------------------------------------------------------------------
(***************************************************************************)
(* IInv is preserved by the handlers of the TCP sockets: accept, read,     *)
(* write and close (server.cc, inet_conn.cc).                              *)
(***************************************************************************)

\* accept() preserves IInv: the backlog is not empty, so it does not block, and the
\* connection it returns was held by nobody.
LEMMA HandleInetListenIInv ==
  ASSUME IInv, NEW p \in Server, NEW fe \in fired[p], HandleInetListen(p, fe) PROVE IInv'
<1>a. TypeOK /\ RolesOK /\ BufferOK /\ NamesOK /\ FiredOK /\ ListenOK /\ SessionOK
    /\ UnixOK /\ BacklogOK /\ OneReader /\ ReplyMatches
  BY Zenon DEF IInv
<1>b. backlog # <<>> /\ backlog' = Tail(backlog) /\ backlog \in Seq(Conns)
  BY <1>a, Zenon DEF HandleInetListen, InetServerAccept, TypeOK
<1>g. /\ backlog' \in Seq(Conns) /\ Head(backlog) \in Conns
      /\ 1 \in DOMAIN backlog /\ Head(backlog) = backlog[1]
      /\ \A i \in DOMAIN backlog' :
            i \in Nat /\ i + 1 \in DOMAIN backlog /\ i + 1 # 1 /\ backlog'[i] = backlog[i + 1]
  BY <1>b, TailOf, SMT, Zenon, SMTT(30)
<1>c. PICK c \in Conns : c = Head(backlog)
  BY <1>g, Zenon
<1>h. PICK fd \in Fd : OpenConn(p, fd, c)
  BY <1>c, Zenon DEF HandleInetListen
<1>d. UNCHANGED <<srv, unix, rx, tx, peer, cl, trigger>>
  BY Zenon DEF HandleInetListen
<1>e. /\ fired' \in [Server -> SUBSET FiredEvent]
      /\ \A q \in Server : \A ge \in fired'[q] :
            ge \in fired[q] /\ ge.fd \in Fd /\ (q = p => ge.fd # fe.fd)
  BY HandledFacts, Zenon DEF HandleInetListen
<1>j. fe.fd = srv[p].inet_listen_fd /\ fe.fd \in Fd /\ srv[p].pc = "loop"
  BY <1>a, FiredFd, Zenon DEF HandleInetListen, ForInetListen
<1> DEFINE w == [file |-> c, mask |-> "IN", et |-> TRUE, armed |-> TRUE]
<1>f. /\ fdt' = [fdt EXCEPT ![p][fd] = c] /\ fdt[p][fd] = NoFile
      /\ inet_conn_map' = [inet_conn_map EXCEPT ![p] = @ \cup {fd}]
      /\ conn' = [conn EXCEPT ![p][fd] = NewConn]
      /\ ep' = [ep EXCEPT ![p][fd] = w] /\ w.file = c
  BY <1>h, Zenon DEF OpenConn, LowestFree, AddEvent
<1> HIDE DEF w
<1>k. SetSlot(p, fd, c, w)
  BY <1>a, <1>f, SlotSet, Zenon
<1>l. ConnsElsewhere(p, fd) /\ conn'[p][fd] = NewConn
  <2>1. ConnsElsewhere(p, fd)
    BY <1>a, <1>f, ConnSet, Zenon
  <2> QED BY <2>1, <1>a, <1>f, Zenon DEF TypeOK
<1>m. /\ \A g \in Fd : g \in inet_conn_map'[p] <=> g \in inet_conn_map[p] \/ g = fd
      /\ \A q \in Server : q # p => inet_conn_map'[q] = inet_conn_map[q]
  BY <1>a, <1>f, Zenon DEF TypeOK
<1>o. \A ge \in fired[p] : ge.fd # fd
  BY <1>a, <1>f, FreeUnfired, Zenon
<1>1. TypeOK'
  BY <1>a, <1>d, <1>e, <1>g, <1>h, OpenConnTypes, ZenonT(60) DEF TypeOK
<1>2. RolesOK'
  BY <1>a, <1>d, ZenonT(60) DEF RolesOK
<1>3. BufferOK'
  BY <1>a, <1>f, NewConnIs, ConnBuffers, Zenon
<1>4. NamesOK'
  <2>1. NamesKept(p, fd)
    BY <1>d, Zenon DEF NamesKept
  <2>2. Named(p, fd, c)'
    BY Names, Zenon DEF Named
  <2>3. w.file # UnixClient /\ conn'[p][fd].reply = 0
    BY <1>f, <1>l, Names, NewConnIs, Zenon
  <2> QED BY <2>1, <2>2, <2>3, <1>a, <1>f, <1>k, <1>l, SlotNames, Zenon
<1>5. FiredOK'
  <2> SUFFICES ASSUME NEW q \in Server, NEW ge \in fired'[q] PROVE ge.fd # srv[q].inet_listen_fd
    <3>1. \A q \in Server : \A ge \in fired'[q] :
             /\ ge \in fired[q] /\ ge.fd \in Fd /\ ~(q = p /\ ge.fd = fd)
             /\ ge.fd = srv'[q].inet_listen_fd => backlog' # <<>>
      BY <1>d, <1>e, <1>o, Zenon
    <3> QED BY <3>1, <1>a, <1>k, <1>l, SlotFired, Zenon
  <2>1. CASE q = p
    BY <2>1, <1>e, <1>j, Zenon
  <2>2. CASE q = New /\ p = Old
    BY <2>2, <1>a, <1>e, <1>j, Names, Zenon DEF ListenOK
  <2>3. CASE q = Old /\ p = New
    <3>1. srv[New].inet_listen_fd # NoFd
      BY <2>3, <1>j, Names, Zenon
    <3>2. srv[Old].inet_listen_fd = NoFd \/ fired[Old] = {}
      BY <3>1, <1>a, Zenon DEF ListenOK
    <3> QED BY <3>2, <2>3, <1>e, Names, Zenon
  <2> QED BY <2>1, <2>2, <2>3, Names, Zenon
<1>6. ListenOK'
  <2>1. fdt[p][fd] # InetListen
    BY <1>f, Names, Zenon
  <2>2. ListenNamed'
    BY <2>1, <1>a, <1>d, <1>k, SlotListenKept, Zenon
  <2>3. fired'[Old] \subseteq fired[Old]
    BY <1>e, Names, Zenon
  <2> QED BY <2>2, <2>3, <1>a, <1>d, ZenonT(60) DEF ListenOK, ListenNamed
<1>q. srv[Old].pc = "reply_session" =>
         /\ p = New /\ srv[Old].session_fd \in Fd
         /\ \A g \in Fd : conn'[Old][g] = conn[Old][g] /\ fdt'[Old][g] = fdt[Old][g]
         /\ inet_conn_map'[Old] = inet_conn_map[Old]
  <2>1. srv[Old].pc = "reply_session" => p = New /\ srv[Old].session_fd \in Fd
    BY <1>a, <1>j, Names, Zenon DEF SessionOK, TypeOK
  <2>2. p = New =>
           /\ \A g \in Fd : conn'[Old][g] = conn[Old][g] /\ fdt'[Old][g] = fdt[Old][g]
           /\ inet_conn_map'[Old] = inet_conn_map[Old]
    BY <1>k, <1>l, <1>m, Names, Zenon DEF SetSlot, ConnsElsewhere
  <2> QED BY <2>1, <2>2, Zenon
<1>7. SessionOK'
  BY <1>a, <1>d, <1>e, <1>q, Names, Zenon DEF SessionOK
<1>n. NewEndOpen' = NewEndOpen
  BY <1>d, <1>f, <1>k, Names, SlotNewEnd, Zenon
<1>i. \A f : InFlight(f)' <=> InFlight(f)
  BY <1>d, Zenon DEF InFlight
<1>8. UnixOK'
  BY <1>a, <1>d, <1>n, <1>q, Zenon DEF UnixOK
<1>s. \A q \in Server, g \in Fd : fdt'[q][g] = c \/ fdt'[q][g] = fdt[q][g]
  BY <1>k, Zenon DEF SetSlot
<1>r. \A d \in Conns : d # c /\ Referenced(d)' => Referenced(d)
  <2> SUFFICES ASSUME NEW d \in Conns, d # c, Referenced(d)' PROVE Referenced(d)
    BY Zenon
  <2>1. CASE InFlight(d)'
    BY <2>1, <1>i, Zenon DEF Referenced
  <2>2. CASE \E q \in Server, g \in Fd : fdt'[q][g] = d
    BY <2>2, <1>s, Zenon DEF Referenced
  <2> QED BY <2>1, <2>2, Zenon DEF Referenced
<1>9. BacklogOK'
  <2> SUFFICES ASSUME BacklogOK PROVE BacklogOK'
    BY <1>a, Zenon
  <2>1. ASSUME NEW i \in DOMAIN backlog' PROVE backlog'[i] # c /\ peer'[backlog'[i]] # "none"
    <3>1. i + 1 \in DOMAIN backlog /\ i + 1 # 1 /\ backlog'[i] = backlog[i + 1]
      BY <1>g, Zenon
    <3>2. backlog[i + 1] # backlog[1] /\ peer[backlog[i + 1]] # "none"
      BY <3>1, <1>g, Zenon DEF BacklogOK
    <3> QED BY <3>1, <3>2, <1>c, <1>d, <1>g, Zenon
  <2>2. \A i, j \in DOMAIN backlog' : backlog'[i] = backlog'[j] => i = j
    <3>1. \A i, j \in DOMAIN backlog : backlog[i] = backlog[j] => i = j
      BY <1>a, Zenon DEF BacklogOK
    <3>2. \A i, j \in Nat : i + 1 = j + 1 => i = j
      BY SMT, Zenon, SMTT(30)
    <3> QED BY <3>1, <3>2, <1>g, Zenon
  <2>3. \A d \in Conns : peer'[d] = "none" \/ (\E i \in DOMAIN backlog' : backlog'[i] = d)
            => ~Referenced(d)'
    <3>1. peer[c] # "none"
      BY <1>a, <1>c, <1>g, Zenon DEF BacklogOK
    <3>2. \A d \in Conns : (\E i \in DOMAIN backlog' : backlog'[i] = d)
             => d # c /\ \E i \in DOMAIN backlog : backlog[i] = d
      BY <2>1, <1>g, Zenon
    <3>3. \A d \in Conns : peer[d] = "none" \/ (\E i \in DOMAIN backlog : backlog[i] = d)
             => ~Referenced(d)
      BY <1>a, Zenon DEF BacklogOK
    <3> QED BY <3>1, <3>2, <3>3, <1>d, <1>r, Zenon
  <2> QED BY <2>1, <2>2, <2>3, <1>a, <1>d, Zenon DEF BacklogOK
<1>10. OneReader'
  <2>1. ~InFlight(c) /\ \A q \in Server, g \in Fd : ~Holds(q, g, c)
    <3>1. ~Referenced(c)
      BY <1>a, <1>c, <1>g, Zenon DEF BacklogOK
    <3> QED BY <3>1, Zenon DEF Referenced, Holds
  <2>2. \A q \in Server, g \in Fd, d \in Conns :
           Holds(q, g, d)' => IF d = c THEN q = p /\ g = fd ELSE Holds(q, g, d)
    <3> SUFFICES ASSUME NEW q \in Server, NEW g \in Fd, NEW d \in Conns, Holds(q, g, d)'
                 PROVE  IF d = c THEN q = p /\ g = fd ELSE Holds(q, g, d)
      BY Zenon
    <3>1. CASE q = p /\ g = fd
      BY <3>1, <1>k, Zenon DEF Holds, SetSlot
    <3>2. CASE ~(q = p /\ g = fd)
      <4>1. Holds(q, g, d)
        BY <3>2, <1>k, <1>m, Zenon DEF Holds, SetSlot
      <4> QED BY <4>1, <2>1, Zenon
    <3> QED BY <3>1, <3>2, Zenon
  <2>3. \A d \in Conns : HandingOver(d) =>
           HandingOver(d)' /\ \A g \in Fd : conn'[Old][g] = conn[Old][g]
    BY <1>d, <1>q, Zenon DEF HandingOver
  <2> SUFFICES ASSUME NEW d \in Conns, NEW g \in Fd, NEW h \in Fd
               PROVE  /\ \A q \in Server : Holds(q, g, d)' /\ Holds(q, h, d)' => g = h
                      /\ Holds(Old, g, d)' /\ (Holds(New, h, d)' \/ InFlight(d)') =>
                            HandingOver(d)' /\ conn'[Old][g] = NewConn
                      /\ ~(Holds(New, h, d)' /\ InFlight(d)')
    BY Zenon DEF OneReader
  <2>4. CASE d = c
    <3>1. ~InFlight(d)' /\ \A q \in Server, e \in Fd : Holds(q, e, d)' => q = p /\ e = fd
      BY <2>1, <2>2, <2>4, <1>i, Zenon
    <3>2. \A q \in Server : Holds(q, g, d)' /\ Holds(q, h, d)' => g = h
      <4>1. \A q \in Server : Holds(q, g, d)' => g = fd
        BY <3>1, Zenon
      <4>2. \A q \in Server : Holds(q, h, d)' => h = fd
        BY <3>1, Zenon
      <4> QED BY <4>1, <4>2, Zenon
    <3>3. ~(Holds(Old, g, d)' /\ Holds(New, h, d)')
      BY <3>1, Names, Zenon
    <3> QED BY <3>1, <3>2, <3>3, Zenon
  <2>5. CASE d # c
    <3>1. /\ \A q \in Server : Holds(q, g, d) /\ Holds(q, h, d) => g = h
          /\ Holds(Old, g, d) /\ (Holds(New, h, d) \/ InFlight(d)) =>
                HandingOver(d) /\ conn[Old][g] = NewConn
          /\ ~(Holds(New, h, d) /\ InFlight(d))
      BY <1>a, Zenon DEF OneReader
    <3>2. \A q \in Server : /\ Holds(q, g, d)' => Holds(q, g, d)
                            /\ Holds(q, h, d)' => Holds(q, h, d)
      BY <2>2, <2>5, Zenon
    <3> QED BY <3>1, <3>2, <2>3, <1>i, Names, Zenon
  <2> QED BY <2>4, <2>5, Zenon
<1>11. ReplyMatches'
  BY <1>a, <1>d, <1>n, Zenon DEF ReplyMatches
<1> QED BY <1>1, <1>2, <1>3, <1>4, <1>5, <1>6, <1>7, <1>8, <1>9, <1>10, <1>11,
           ZenonT(60) DEF IInv

\* A read or write that keeps the connection preserves IInv, provided the new object
\* holds less than a request, and has no reply unless the mask is EPOLLOUT.
LEMMA NetKeep ==
  ASSUME IInv, NEW p \in Server, NEW fe \in fired[p], ForNet(p, fe), Handled(p, fe),
         NEW b \in Conn, conn' = [conn EXCEPT ![p][fe.fd] = b],
         b.last_read_pos < ReqLen, b.last_write_pos <= b.reply,
         \/ ep' = ep /\ b.reply = conn[p][fe.fd].reply
         \/ ep' = ModEvent(p, fe.fd, "OUT")
         \/ ep' = ModEvent(p, fe.fd, "IN") /\ b.reply = 0,
         rx' \in [Conns -> Nat], tx' \in [Conns -> Nat],
         peer' \in [Conns -> {"none", "up", "fin", "rst"}],
         \A c \in Conns : peer'[c] = "none" <=> peer[c] = "none",
         UNCHANGED <<srv, inet_conn_map, fdt, unix, backlog, cl, trigger>>
  PROVE  IInv'
<1>a. TypeOK /\ RolesOK /\ BufferOK /\ NamesOK /\ FiredOK /\ ListenOK /\ SessionOK
    /\ UnixOK /\ BacklogOK /\ OneReader /\ ReplyMatches
  BY Zenon DEF IInv
<1>b. /\ fired' \in [Server -> SUBSET FiredEvent]
      /\ \A q \in Server : \A ge \in fired'[q] :
            ge \in fired[q] /\ ge.fd \in Fd /\ (q = p => ge.fd # fe.fd)
  BY HandledFacts, Zenon
<1>c. PICK fd \in Fd : fd = fe.fd /\ fdt[p][fd] \in Conns
  BY NetFile, Zenon
<1>d. srv[p].pc = "loop"
  BY Zenon DEF ForNet
<1>e. /\ BufferOK' /\ conn' \in [Server -> [Fd -> Conn]]
      /\ \A q \in Server, g \in Fd : conn'[q][g].last_read_pos < READ_BUFFER_SIZE
                                     /\ conn'[q][g].last_write_pos <= conn'[q][g].reply
  BY <1>a, <1>c, ConnBuffers, Zenon
<1>h. ConnsElsewhere(p, fd) /\ conn'[p][fd] = b
  <2>1. ConnsElsewhere(p, fd)
    BY <1>a, <1>c, ConnSet, Zenon
  <2> QED BY <2>1, <1>a, <1>c, Zenon DEF TypeOK
<1>f. /\ ep' \in [Server -> [Fd -> Watch]]
      /\ \A q \in Server, g \in Fd : ep'[q][g].file = ep[q][g].file
      /\ \A q \in Server, g \in Fd : ~(q = p /\ g = fd) => ep'[q][g] = ep[q][g]
      /\ ep'[p][fd].mask # "OUT" =>
            b.reply = 0 \/ (b.reply = conn[p][fd].reply /\ ep'[p][fd].mask = ep[p][fd].mask)
  <2>1. CASE ep' = ep /\ b.reply = conn[p][fe.fd].reply
    BY <2>1, <1>a, <1>c, Zenon DEF TypeOK
  <2>2. ASSUME NEW m \in {"IN", "OUT"}, ep' = ModEvent(p, fe.fd, m), m = "IN" => b.reply = 0
        PROVE  <1>f!:
    <3> DEFINE w == [file |-> ep[p][fd].file, mask |-> m, et |-> FALSE, armed |-> TRUE]
    <3>1. ep' = [ep EXCEPT ![p][fd] = w] /\ w.file = ep[p][fd].file /\ w.mask = m
      BY <2>2, <1>a, <1>c, Zenon DEF ModEvent, TypeOK
    <3>2. w \in Watch
      BY <1>a, WatchTypes, Zenon DEF Watch
    <3> HIDE DEF w
    <3>3. /\ ep' \in [Server -> [Fd -> Watch]]
          /\ \A q \in Server, g \in Fd : ep'[q][g] = IF q = p /\ g = fd THEN w ELSE ep[q][g]
      BY <3>1, <3>2, <1>a, ZenonT(60) DEF TypeOK
    <3> QED BY <2>2, <3>1, <3>3, ZenonT(60)
  <2> QED BY <2>1, <2>2, Zenon
<1>1. TypeOK'
  BY <1>a, <1>b, <1>e, <1>f, ZenonT(60) DEF TypeOK
<1>2. RolesOK' /\ ListenOK'
  <2>1. fired'[Old] \subseteq fired[Old]
    BY <1>b, Names, Zenon
  <2> QED BY <2>1, <1>a, Zenon DEF RolesOK, ListenOK
<1>4. NamesOK'
  <2>1. \A q \in Server, g \in Fd :
           fdt'[q][g] \in Conns /\ ep'[q][g].mask # "OUT" => conn'[q][g].reply = 0
    <3> SUFFICES ASSUME NEW q \in Server, NEW g \in Fd,
                        fdt[q][g] \in Conns, ep'[q][g].mask # "OUT"
                 PROVE  conn'[q][g].reply = 0
      BY Zenon
    <3>1. ep[q][g].mask # "OUT" => conn[q][g].reply = 0
      BY <1>a, ZenonT(60) DEF NamesOK
    <3>2. CASE q = p /\ g = fd
      BY <3>1, <3>2, <1>f, <1>h, Zenon
    <3>3. CASE ~(q = p /\ g = fd)
      BY <3>1, <3>3, <1>f, <1>h, Zenon DEF ConnsElsewhere
    <3> QED BY <3>2, <3>3, Zenon
  <2>2. ASSUME NEW q \in Server, NEW g \in Fd
        PROVE  /\ ep'[q][g].file # NoFile => ep'[q][g].file = fdt'[q][g]
               /\ ep'[q][g].file # UnixClient
    <3>1. (ep[q][g].file # NoFile => ep[q][g].file = fdt[q][g]) /\ ep[q][g].file # UnixClient
      BY <1>a, Zenon DEF NamesOK
    <3>2. ep'[q][g].file = ep[q][g].file
      BY <1>f, Zenon
    <3> QED BY <3>1, <3>2, Zenon
  <2>3. ASSUME NEW q \in Server, NEW g \in Fd
        PROVE  /\ fdt'[q][g] = InetListen => g = srv'[q].inet_listen_fd
               /\ fdt'[q][g] = UnixListen => g = srv'[q].unix_listen_fd
               /\ fdt'[q][g] = UnixConn => g = srv'[q].unix_conn_fd
    BY <1>a, Zenon DEF NamesOK
  <2> SUFFICES ASSUME NEW q \in Server, NEW g \in Fd
               PROVE  /\ ep'[q][g].file # NoFile => ep'[q][g].file = fdt'[q][g]
                      /\ ep'[q][g].file # UnixClient
                      /\ fdt'[q][g] = InetListen => g = srv'[q].inet_listen_fd
                      /\ fdt'[q][g] = UnixListen => g = srv'[q].unix_listen_fd
                      /\ fdt'[q][g] = UnixConn => g = srv'[q].unix_conn_fd
                      /\ fdt'[q][g] \in Conns /\ ep'[q][g].mask # "OUT" => conn'[q][g].reply = 0
    BY Zenon DEF NamesOK
  <2> QED BY <2>1, <2>2, <2>3, ZenonT(60)
<1>5. FiredOK'
  <2>1. \A q \in Server : \A ge \in fired'[q] :
           conn'[q][ge.fd].reply = conn[q][ge.fd].reply /\ ge.fd \in Fd /\ ge \in fired[q]
    <3> SUFFICES ASSUME NEW q \in Server, NEW ge \in fired'[q]
                 PROVE  conn'[q][ge.fd].reply = conn[q][ge.fd].reply /\ ge.fd \in Fd
                        /\ ge \in fired[q]
      BY Zenon
    <3>1. ge.fd \in Fd /\ ge \in fired[q] /\ ~(q = p /\ ge.fd = fd)
      BY <1>b, <1>c, Zenon
    <3>2. conn'[q][ge.fd] = conn[q][ge.fd]
      BY <3>1, <1>h, Zenon DEF ConnsElsewhere
    <3> QED BY <3>1, <3>2, Zenon
  <2>2. \A q \in Server : \A ge \in fired[q] : ge.fd = srv[q].inet_listen_fd => backlog # <<>>
    BY <1>a, FiredListen, Zenon
  <2>3. \A q \in Server : \A ge \in fired'[q] :
            /\ ge \in fired[q]
            /\ ep'[q][ge.fd].file = ep[q][ge.fd].file
            /\ fdt'[q][ge.fd] = fdt[q][ge.fd]
            /\ conn'[q][ge.fd].reply = conn[q][ge.fd].reply
            /\ ge.fd = srv'[q].inet_listen_fd => backlog' # <<>>
    BY <2>1, <2>2, <1>f, ZenonT(60)
  <2> QED BY <2>3, <1>a, FiredKept, Zenon
<1>g. srv[Old].pc = "reply_session" => p = New /\ \A g \in Fd : conn'[Old][g] = conn[Old][g]
  BY <1>d, <1>h, Names, Zenon DEF ConnsElsewhere
<1>6. SessionOK'
  <2>1. inet_conn_map[Old] \subseteq Fd
    BY <1>a, Names, Zenon DEF TypeOK
  <2> QED BY <2>1, <1>a, <1>b, <1>g, Names, ZenonT(60) DEF SessionOK
<1>7. UnixOK' /\ ReplyMatches'
  BY <1>a, Zenon DEF UnixOK, ReplyMatches, NewEndOpen
<1>8. BacklogOK'
  <2>1. \A d \in Conns : Referenced(d)' => Referenced(d)
    BY ZenonT(60) DEF Referenced, InFlight
  <2> QED BY <2>1, SocketsKeepBacklog, Zenon
<1>9. OneReader'
  <2>1. \A q \in Server, g \in Fd, d \in Conns : Holds(q, g, d)' => Holds(q, g, d)
    BY Zenon DEF Holds
  <2>2. \A d \in Conns : InFlight(d)' => InFlight(d)
    BY Zenon DEF InFlight
  <2>3. \A d \in Conns, g \in Fd :
           HandingOver(d) /\ Holds(Old, g, d)' /\ conn[Old][g] = NewConn =>
              HandingOver(d)' /\ conn'[Old][g] = NewConn
    BY <1>g, Zenon DEF HandingOver
  <2> QED BY <2>1, <2>2, <2>3, <1>a, FewerReaders, Zenon
<1> QED BY <1>1, <1>2, <1>4, <1>5, <1>6, <1>7, <1>8, <1>9, <1>e, ZenonT(60) DEF IInv

\* The read handler preserves IInv.
LEMMA HandleReadIInv ==
  ASSUME IInv, NEW p \in Server, NEW fe \in fired[p], HandleRead(p, fe) PROVE IInv'
<1>a. TypeOK /\ BufferOK /\ FiredOK
  BY Zenon DEF IInv
<1>b. ForNet(p, fe) /\ Handled(p, fe) /\ fe.mask = "IN"
      /\ UNCHANGED <<srv, unix, backlog, tx, peer, cl, trigger>>
  BY Zenon DEF HandleRead
<1>c. fe.fd \in Fd /\ fdt[p][fe.fd] \in Conns
  BY <1>b, NetFile, ZenonT(60)
<1> DEFINE c == fdt[p][fe.fd]
           b == conn[p][fe.fd]
           r == GetRequest(b, rx[c], peer[c], MsgLen)
<1> HIDE DEF r
<1>d. /\ b \in Conn /\ b.last_read_pos < ReqLen /\ b.reply = 0 /\ b.last_write_pos = 0
      /\ rx[c] \in Nat
  <2>1. b \in Conn /\ b.last_write_pos <= b.reply /\ rx[c] \in Nat
    BY <1>a, <1>c, ZenonT(60) DEF TypeOK
  <2>2. b.last_read_pos < ReqLen
    BY <1>a, <1>c, Zenon DEF BufferOK
  <2>3. b.reply = 0
    BY <1>a, <1>b, <1>c, Zenon DEF FiredOK
  <2> QED BY <2>1, <2>2, <2>3, SMT, Zenon, SMTT(30) DEF Conn
<1>e. /\ r.nread \in Nat /\ rx[c] - r.nread \in Nat
      /\ r.rs = "kReadAll" => /\ r.conn \in Conn /\ r.conn.last_read_pos < ReqLen
                              /\ r.conn.last_write_pos <= r.conn.reply
      /\ r.rs = "kReadHalf" => /\ r.conn \in Conn /\ r.conn.last_read_pos < ReqLen
                               /\ r.conn.last_write_pos <= r.conn.reply
                               /\ r.conn.reply = b.reply
  <2>1. ReadOutcome(b, rx[c], peer[c], r)
    BY <1>d, GetRequestIs, Zenon DEF r
  <2>2. 0 < ReqLen /\ 0 <= MsgLen /\ \A n \in Nat : 0 <= n
    BY Sizes, HotUpgradeAssumption, SMT, Zenon, SMTT(30)
  <2>3. r.nread \in Nat /\ rx[c] - r.nread \in Nat
    BY <2>1, Zenon DEF ReadOutcome
  <2>4. r.rs = "kReadAll" => /\ r.conn \in Conn /\ r.conn.last_read_pos = 0
                             /\ r.conn.last_write_pos = 0 /\ r.conn.reply = MsgLen
    BY <2>1, Zenon DEF ReadOutcome
  <2>5. r.rs = "kReadHalf" => /\ r.conn \in Conn /\ r.conn.last_write_pos = 0
                              /\ r.conn.reply = b.reply /\ r.conn.last_read_pos < ReqLen
    BY <2>1, Zenon DEF ReadOutcome
  <2>6. b.reply \in Nat
    BY <1>d, Zenon DEF Conn
  <2> QED BY <2>2, <2>3, <2>4, <2>5, <2>6, Zenon
<1>f. /\ rx' = [rx EXCEPT ![c] = @ - r.nread]
      /\ \/ /\ r.rs = "kReadAll"
            /\ conn' = [conn EXCEPT ![p][fe.fd] = r.conn]
            /\ ep' = ModEvent(p, fe.fd, "OUT")
            /\ UNCHANGED <<inet_conn_map, fdt>>
         \/ /\ r.rs = "kReadHalf"
            /\ conn' = [conn EXCEPT ![p][fe.fd] = r.conn]
            /\ UNCHANGED <<inet_conn_map, ep, fdt>>
         \/ CloseConn(p, fe.fd)
  BY Zenon DEF HandleRead, r
<1>g. /\ rx' \in [Conns -> Nat] /\ tx' \in [Conns -> Nat]
      /\ peer' \in [Conns -> {"none", "up", "fin", "rst"}]
      /\ \A d \in Conns : peer'[d] = "none" <=> peer[d] = "none"
  BY <1>a, <1>b, <1>c, <1>e, <1>f, Zenon DEF TypeOK
<1>1. CASE r.rs = "kReadAll" /\ ~CloseConn(p, fe.fd)
  BY <1>1, <1>b, <1>e, <1>f, <1>g, NetKeep, Zenon
<1>2. CASE r.rs = "kReadHalf" /\ ~CloseConn(p, fe.fd)
  BY <1>2, <1>b, <1>e, <1>f, <1>g, NetKeep, Zenon
<1>3. CASE CloseConn(p, fe.fd)
  BY <1>3, <1>b, <1>g, NetClose, Zenon
<1> QED BY <1>1, <1>2, <1>3, <1>f, Zenon

\* The write handler preserves IInv.
LEMMA HandleWriteIInv ==
  ASSUME IInv, NEW p \in Server, NEW fe \in fired[p], HandleWrite(p, fe) PROVE IInv'
<1>a. TypeOK /\ BufferOK
  BY Zenon DEF IInv
<1>b. ForNet(p, fe) /\ Handled(p, fe)
      /\ UNCHANGED <<srv, unix, backlog, rx, cl, trigger>>
  BY Zenon DEF HandleWrite
<1>c. fe.fd \in Fd /\ fdt[p][fe.fd] \in Conns
  BY <1>b, NetFile, Zenon
<1> DEFINE c == fdt[p][fe.fd]
           b == conn[p][fe.fd]
<1>d. b \in Conn /\ b.last_write_pos <= b.reply /\ b.last_read_pos < ReqLen /\ tx[c] \in Nat
  BY <1>a, <1>c, ZenonT(60) DEF TypeOK, BufferOK
<1>1. CASE peer[c] # "rst"
  <2>1. PICK n \in 1..Unsent(b) :
          /\ conn' = [conn EXCEPT ![p][fe.fd] = SendReply(b, n).conn]
          /\ tx' = [tx EXCEPT ![c] = @ + n]
          /\ ep' = IF SendReply(b, n).ws = "kWriteAll" THEN ModEvent(p, fe.fd, "IN") ELSE ep
    BY <1>1, Zenon DEF HandleWrite
  <2>2. n \in Nat
    BY <1>d, SMT, Zenon, SMTT(30) DEF Unsent, Conn
  <2>3. peer' = [peer EXCEPT ![c] = IF @ = "fin" THEN "rst" ELSE @]
        /\ UNCHANGED <<inet_conn_map, fdt>>
    BY <1>1, Zenon DEF HandleWrite
  <2>4. /\ peer' \in [Conns -> {"none", "up", "fin", "rst"}]
        /\ \A d \in Conns : peer'[d] = "none" <=> peer[d] = "none"
    BY <2>3, <1>a, <1>c, ZenonT(60) DEF TypeOK
  <2>5. rx' \in [Conns -> Nat] /\ tx' \in [Conns -> Nat]
    <3>1. tx[c] + n \in Nat
      BY <2>2, <1>d, SMT, Zenon, SMTT(30)
    <3> QED BY <2>1, <3>1, <1>a, <1>b, <1>c, Zenon DEF TypeOK
  <2> DEFINE w == SendReply(b, n)
  <2>6. /\ w.conn \in Conn /\ w.conn.last_read_pos < ReqLen
        /\ w.conn.last_write_pos <= w.conn.reply
        /\ w.ws = "kWriteAll" => w.conn.reply = 0
        /\ w.ws # "kWriteAll" => w.conn.reply = b.reply
    <3>1. CASE n < Unsent(b)
      <4>1. w = [ws |-> "kWriteHalf", conn |-> [b EXCEPT !.last_write_pos = @ + n]]
        BY <3>1, ZenonT(60) DEF SendReply
      <4>2. PICK k : k = b.last_write_pos + n
        BY Zenon
      <4>3. k \in Nat /\ k <= b.reply
        BY <4>2, <3>1, <2>2, <1>d, SMT, Zenon, SMTT(30) DEF Conn, Unsent
      <4>4. w.ws = "kWriteHalf" /\ w.conn = [b EXCEPT !.last_write_pos = k]
        BY <4>1, <4>2, <1>d, SMT, Zenon, SMTT(30) DEF Conn
      <4>5. [b EXCEPT !.last_write_pos = k] \in Conn
        BY <4>3, <1>d, Zenon DEF Conn
      <4>6. /\ [b EXCEPT !.last_write_pos = k].last_read_pos = b.last_read_pos
            /\ [b EXCEPT !.last_write_pos = k].reply = b.reply
            /\ [b EXCEPT !.last_write_pos = k].last_write_pos = k
        BY <1>d, Zenon DEF Conn
      <4> HIDE DEF w
      <4> QED BY <4>3, <4>4, <4>5, <4>6, <1>d, Zenon
    <3>2. CASE ~(n < Unsent(b))
      <4> DEFINE s == [b EXCEPT !.reply = 0]
                 t == [s EXCEPT !.last_write_pos = 0]
      <4>1. w.ws = "kWriteAll" /\ w.conn = t
        BY <3>2, Zenon DEF SendReply
      <4>2. s \in Conn /\ s.last_read_pos = b.last_read_pos /\ s.reply = 0
        BY <1>d, Zenon DEF Conn
      <4> HIDE DEF s
      <4>3. t \in Conn /\ t.last_read_pos = b.last_read_pos /\ t.reply = 0
            /\ t.last_write_pos = 0
        BY <4>2, Zenon DEF Conn
      <4> HIDE DEF t, w
      <4> QED BY <4>1, <4>3, <1>d, SMT, Zenon, SMTT(30) DEF Conn
    <3> QED BY <3>1, <3>2, ZenonT(60)
  <2> HIDE DEF w
  <2>7. conn' = [conn EXCEPT ![p][fe.fd] = w.conn]
        /\ ep' = IF w.ws = "kWriteAll" THEN ModEvent(p, fe.fd, "IN") ELSE ep
    BY <2>1, Zenon DEF w
  <2> QED BY <2>3, <2>4, <2>5, <2>6, <2>7, <1>b, NetKeep, Zenon
<1>2. CASE peer[c] = "rst"
  <2>1. CloseConn(p, fe.fd) /\ UNCHANGED <<tx, peer>>
    BY <1>2, Zenon DEF HandleWrite
  <2>2. rx' \in [Conns -> Nat] /\ tx' \in [Conns -> Nat]
        /\ peer' \in [Conns -> {"none", "up", "fin", "rst"}]
    BY <2>1, <1>a, <1>b, Zenon DEF TypeOK
  <2> QED BY <2>1, <2>2, <1>b, NetClose, Zenon
<1> QED BY <1>1, <1>2, Zenon

\* The error handler, and a session transfer whose send fails, preserve IInv.
LEMMA HandleNetErrorIInv ==
  ASSUME IInv, NEW p \in Server, NEW fe \in fired[p],
         HandleNetError(p, fe) \/ TransferSessionFdFails(p, fe)
  PROVE  IInv'
<1>1. ForNet(p, fe) /\ Handled(p, fe) /\ CloseConn(p, fe.fd)
      /\ UNCHANGED <<srv, unix, backlog, rx, tx, peer, cl, trigger>>
  BY Zenon DEF HandleNetError, TransferSessionFdFails, Transferable
<1>2. rx' \in [Conns -> Nat] /\ tx' \in [Conns -> Nat]
      /\ peer' \in [Conns -> {"none", "up", "fin", "rst"}]
  BY <1>1, ZenonT(60) DEF IInv, TypeOK
<1> QED BY <1>1, <1>2, NetClose, Zenon

\* Closing New's end of the channel preserves IInv.
LEMMA UnixConnCloseIInv ==
  ASSUME IInv, NEW p \in Server, NEW fe \in fired[p], UnixConnClose(p, fe) PROVE IInv'
<1>a. TypeOK /\ RolesOK /\ BufferOK /\ NamesOK /\ FiredOK /\ ListenOK /\ SessionOK
    /\ UnixOK /\ BacklogOK /\ OneReader /\ ReplyMatches
  BY Zenon DEF IInv
<1>b. /\ fired' \in [Server -> SUBSET FiredEvent] /\ fe.fd \in Fd
      /\ \A q \in Server : \A ge \in fired'[q] :
            ge \in fired[q] /\ ge.fd \in Fd /\ (q = p => ge.fd # fe.fd)
  BY HandledFacts, Zenon DEF UnixConnClose
<1>c. PICK fd \in Fd : fd = fe.fd
  BY <1>b, Zenon
<1>d. /\ p = New /\ srv[New].pc = "loop" /\ fd = srv[New].unix_conn_fd
      /\ fd # srv[New].inet_listen_fd
      /\ UNCHANGED <<inet_conn_map, conn, backlog, rx, tx, peer, cl, trigger>>
  BY <1>a, <1>c, Names, Zenon DEF UnixConnClose, ForUnixConn, RolesOK
<1> DEFINE r == [srv[New] EXCEPT !.unix_conn = FALSE]
<1>e. /\ fdt' = [fdt EXCEPT ![New][fd] = NoFile] /\ ep' = [ep EXCEPT ![New][fd] = NoWatch]
      /\ unix' = IF fdt[New][fd] = UnixConn THEN [unix EXCEPT !.msgs = <<>>] ELSE unix
      /\ srv' = [srv EXCEPT ![New] = r]
  BY <1>a, <1>c, <1>d, Names, Zenon DEF UnixConnClose, DelEvent, TypeOK
<1>f. NoWatch \in Watch /\ NoWatch.file = NoFile
  BY Names, Zenon DEF NoWatch, Watch
<1>g. /\ r \in SrvState
      /\ r.pc = srv[New].pc /\ r.unix_conn_fd = srv[New].unix_conn_fd
      /\ r.inet_listen_fd = srv[New].inet_listen_fd
      /\ r.unix_listen_fd = srv[New].unix_listen_fd
      /\ r.unix_client = srv[New].unix_client
  BY <1>a, Names, SrvTypes, ZenonT(60) DEF SrvState
<1> HIDE DEF r
<1>h. srv' \in [Server -> SrvState] /\ srv'[New] = r /\ srv'[Old] = srv[Old]
  BY <1>a, <1>e, <1>g, Names, SrvUpdate, Zenon
<1>i. SetSlot(New, fd, NoFile, NoWatch) /\ ConnsElsewhere(New, fd)
  <2>1. SetSlot(New, fd, NoFile, NoWatch)
    BY <1>a, <1>e, Names, SlotSet, Zenon
  <2> QED BY <2>1, <1>d, Zenon DEF ConnsElsewhere
<1>j. fdt'[Old] = fdt[Old] /\ fdt' \in [Server -> [Fd -> File]]
  BY <1>a, <1>e, Names, Zenon DEF TypeOK
<1>k. ep' \in [Server -> [Fd -> Watch]]
  BY <1>a, <1>e, <1>f, Names, Zenon DEF TypeOK
<1>l. /\ unix' \in [queued : BOOLEAN, msgs : Seq(Message), replies : Nat]
      /\ unix'.queued = unix.queued /\ unix'.replies = unix.replies
      /\ unix'.msgs = IF fdt[New][fd] = UnixConn THEN <<>> ELSE unix.msgs
  <2>1. unix \in [queued : BOOLEAN, msgs : Seq(Message), replies : Nat] /\ <<>> \in Seq(Message)
    BY <1>a, SMT, Zenon, SMTT(30) DEF TypeOK
  <2> QED BY <1>e, <2>1, Zenon
<1>m. \A q \in Server : srv'[q].unix_conn_fd = srv[q].unix_conn_fd
                        /\ srv'[q].unix_listen_fd = srv[q].unix_listen_fd
                        /\ srv'[q].inet_listen_fd = srv[q].inet_listen_fd
                        /\ srv[q].inet_listen_fd \in Fd \cup {NoFd}
                        /\ srv'[q].pc = srv[q].pc
  BY <1>a, <1>g, <1>h, SrvTypes, Names, Zenon
<1>n. ~unix.queued /\ ~NewEndOpen' /\ unix'.msgs = <<>>
  <2>1. ~unix.queued /\ ~unix'.queued
    BY <1>a, <1>d, <1>l, Names, Zenon DEF UnixOK
  <2>2. \A g \in Fd : g # fd => fdt[New][g] # UnixConn
    BY <1>a, <1>d, Names, Zenon DEF NamesOK
  <2>3. \A g \in Fd : fdt'[New][g] # UnixConn
    BY <2>2, <1>i, Names, Zenon DEF SetSlot
  <2>4. ~NewEndOpen'
    BY <2>1, <2>3, Zenon DEF NewEndOpen
  <2>5. fdt[New][fd] # UnixConn => ~NewEndOpen
    BY <2>1, <2>2, Zenon DEF NewEndOpen
  <2>6. ~NewEndOpen => unix.msgs = <<>>
    BY <1>a, Zenon DEF UnixOK
  <2> QED BY <2>1, <2>4, <2>5, <2>6, <1>l, Zenon
<1>1. TypeOK'
  BY <1>a, <1>b, <1>d, <1>h, <1>j, <1>k, <1>l, Zenon DEF TypeOK
<1>2. RolesOK' /\ BufferOK'
  BY <1>a, <1>d, <1>g, <1>h, Zenon DEF RolesOK, BufferOK
<1>3. NamesOK'
  <2>1. NamesKept(New, fd)
    BY <1>m, Zenon DEF NamesKept
  <2>2. Named(New, fd, NoFile)'
    BY Names, Zenon DEF Named
  <2>3. NoWatch.file # UnixClient /\ NoFile \notin Conns
    BY <1>f, Names, Zenon
  <2> QED BY <2>1, <2>2, <2>3, <1>a, <1>f, <1>i, Names, SlotNames, Zenon
<1>4. FiredOK'
  <2>1. \A q \in Server : \A ge \in fired[q] : ge.fd = srv[q].inet_listen_fd => backlog # <<>>
    BY <1>a, FiredListen, Zenon
  <2>2. \A q \in Server : \A ge \in fired'[q] :
           /\ ge \in fired[q] /\ ge.fd \in Fd /\ ~(q = New /\ ge.fd = fd)
           /\ ge.fd = srv'[q].inet_listen_fd => backlog' # <<>>
    <3>1. \A q \in Server : \A ge \in fired'[q] :
             ge \in fired[q] /\ ge.fd \in Fd /\ ~(q = New /\ ge.fd = fd)
      BY <1>b, <1>c, <1>d, Zenon
    <3>2. backlog' = backlog /\ \A q \in Server : srv'[q].inet_listen_fd = srv[q].inet_listen_fd
      BY <1>d, <1>m, Zenon
    <3> QED BY <2>1, <3>1, <3>2, Zenon
  <2> QED BY <2>2, <1>a, <1>i, Names, SlotFired, Zenon
<1>5. ListenOK'
  <2>1. fdt[New][fd] # InetListen
    BY <1>a, <1>d, Names, Zenon DEF NamesOK
  <2>2. ListenNamed'
    BY <2>1, <1>a, <1>i, <1>m, Names, SlotListenKept, Zenon
  <2>3. fired'[Old] \subseteq fired[Old]
    BY <1>b, Names, Zenon
  <2> QED BY <2>2, <2>3, <1>a, <1>h, <1>m, Names, Zenon DEF ListenOK, ListenNamed
<1>6. SessionOK'
  BY <1>a, <1>b, <1>d, <1>h, <1>j, Names, Zenon DEF SessionOK
<1>8. UnixOK'
  BY <1>a, <1>h, <1>l, <1>m, <1>n, Names, ZenonT(60) DEF UnixOK
<1>9. ReplyMatches'
  <2>1. unix'.replies = unix.replies /\ srv'[Old].pc = srv[Old].pc
    BY <1>h, <1>l, Zenon
  <2>2. unix.replies \in Nat /\ Len(unix.msgs) \in Nat
    BY <1>a, UnixTypes, SMT, Zenon, SMTT(30)
  <2>3. Len(<<>>) = 0
    BY SMT, Zenon, SMTT(30)
  <2>4. Len(unix'.msgs) = 0
    BY <2>3, <1>n, Zenon
  <2>5. Len(unix'.msgs) + unix'.replies = unix.replies
    BY <2>1, <2>2, <2>4, SMT, Zenon, SMTT(30)
  <2>6. CASE srv[Old].pc \in {"reply_listen", "reply_session"}
    <3>1. Len(unix.msgs) + unix.replies <= 1
      BY <2>6, <1>a, Zenon DEF ReplyMatches
    <3>2. unix.replies <= 1
      BY <3>1, <2>2, SMT, Zenon, SMTT(30)
    <3> QED BY <2>1, <2>5, <2>6, <3>2, <1>n, Zenon DEF ReplyMatches
  <2>7. CASE srv[Old].pc \notin {"reply_listen", "reply_session"}
    <3>1. Len(unix.msgs) + unix.replies = 0
      BY <2>7, <1>a, Zenon DEF ReplyMatches
    <3>2. unix.replies = 0
      BY <3>1, <2>2, SMT, Zenon, SMTT(30)
    <3> QED BY <2>1, <2>5, <2>7, <3>2, Zenon DEF ReplyMatches
  <2> QED BY <2>6, <2>7, Zenon
<1>o. \A d \in Conns : InFlight(d)' => InFlight(d)
  <2>1. DOMAIN <<>> = {}
    BY SMT, Zenon, SMTT(30)
  <2> QED BY <2>1, <1>n, Zenon DEF InFlight
<1>p. /\ \A d \in Conns : Referenced(d)' => Referenced(d)
      /\ \A q \in Server, g \in Fd, d \in Conns :
            Holds(q, g, d)' => Holds(q, g, d) /\ ~(q = New /\ g = fd)
  <2>1. NoFile \notin Conns
    BY Names, Zenon
  <2>2. \A q \in Server : inet_conn_map'[q] \subseteq inet_conn_map[q]
    BY <1>d, Zenon
  <2> QED BY <2>1, <2>2, <1>i, <1>o, Names, SlotSessions, Zenon
<1>10. BacklogOK'
  <2>1. \A d \in Conns : peer'[d] = "none" <=> peer[d] = "none"
    BY <1>d, Zenon
  <2> QED BY <2>1, <1>d, <1>p, SocketsKeepBacklog, Zenon
<1>11. OneReader'
  <2>1. \A q \in Server, g \in Fd, d \in Conns : Holds(q, g, d)' => Holds(q, g, d)
    BY <1>p, Zenon
  <2>2. \A d \in Conns, g \in Fd :
           HandingOver(d) /\ Holds(Old, g, d)' /\ conn[Old][g] = NewConn =>
              HandingOver(d)' /\ conn'[Old][g] = NewConn
    BY <1>d, <1>h, <1>j, Zenon DEF HandingOver
  <2> QED BY <2>1, <2>2, <1>a, <1>o, FewerReaders, Zenon
<1> QED BY <1>1, <1>2, <1>3, <1>4, <1>5, <1>6, <1>8, <1>9, <1>10, <1>11, Zenon DEF IInv

\* Every handler of the if-chain in main preserves IInv.
LEMMA HandleIInv ==
  ASSUME IInv, NEW p \in Server, NEW fe \in fired[p], Handle(p, fe) PROVE IInv'
<1>1. CASE HandleInetListen(p, fe) \/ HandleUnixListen(p, fe)
  BY <1>1, HandleInetListenIInv, HandleUnixListenIInv, Zenon
<1>2. CASE HandleInetListenFails(p, fe) \/ HandleUnixListenFails(p, fe)
  BY <1>2, ExitIInv, Zenon DEF HandleInetListenFails, ForInetListen, HandleUnixListenFails,
                               ForUnixListen
<1>3. CASE HandleListenFdMsg(p, fe) \/ HandleSessionFdMsg(p, fe) \/ UnixConnClose(p, fe)
  BY <1>3, HandleListenFdMsgIInv, HandleSessionFdMsgIInv, UnixConnCloseIInv, Zenon
<1>4. CASE TransferSessionFd(p, fe) \/ TransferSessionFdFails(p, fe)
  BY <1>4, TransferSessionFdIInv, HandleNetErrorIInv, Zenon
<1>5. CASE HandleRead(p, fe) \/ HandleWrite(p, fe) \/ HandleNetError(p, fe)
  BY <1>5, HandleReadIInv, HandleWriteIInv, HandleNetErrorIInv, Zenon
<1> QED BY <1>1, <1>2, <1>3, <1>4, <1>5, Zenon DEF Handle

\* Every step of a server process preserves IInv.
LEMMA ServerNextIInv ==
  ASSUME IInv, NEW p \in Server, ServerNext(p) PROVE IInv'
<1>1. CASE MeetNew(p) \/ TransferListenFd(p) \/ FinishListenFd(p)
  BY <1>1, MeetNewIInv, TransferListenFdIInv, FinishListenFdIInv, Zenon
<1>2. CASE MeetNewFails(p)
  BY <1>2, ExitIInv, Zenon DEF MeetNewFails, AtTop
<1>3. CASE Poll(p) \/ CloseTransferred(p)
  BY <1>3, PollIInv, CloseTransferredIInv, Zenon
<1>4. CASE \E fe \in fired[p] : Handle(p, fe)
  BY <1>4, HandleIInv, Zenon
<1> QED BY <1>1, <1>2, <1>3, <1>4, Zenon DEF ServerNext

\* A step that changes nothing preserves IInv.
LEMMA UnchangedIInv ==
  ASSUME IInv, UNCHANGED vars PROVE IInv'
<1>1. UNCHANGED <<procs, kernel, cl>> /\ trigger' = trigger /\ trigger \in BOOLEAN
  BY Zenon DEF vars, procs, kernel, IInv, TypeOK
<1> QED BY <1>1, StutterIInv, Zenon

\* IInv is inductive: every step of the servers, of the clients and of the operator
\* who starts, upgrades and stops the processes preserves it.
LEMMA NextIInv == ASSUME IInv, [Next]_vars PROVE IInv'
<1>1. CASE StartNew
  BY <1>1, StartNewIInv, Zenon
<1>2. CASE CreateTrigger
  BY <1>2, StutterIInv, Zenon DEF CreateTrigger
<1>3. CASE KillNew
  BY <1>3, ExitIInv, Names, Zenon DEF KillNew
<1>4. CASE StopOld
  BY <1>4, ExitIInv, Names, Zenon DEF StopOld, AtTop
<1>5. CASE \E p \in Server : ServerNext(p)
  BY <1>5, ServerNextIInv, Zenon
<1>6. ASSUME NEW k \in Clients, ClientNext(k) \/ KillClient(k) PROVE IInv'
  <2>1. CASE ClientConnect(k) \/ ClientWrite(k) \/ ClientRead(k)
    BY <2>1, ClientConnectIInv, ClientWriteIInv, ClientReadIInv, Zenon
  <2>2. CASE ClientFails(k) \/ KillClient(k)
    BY <2>2, ClientEndsIInv, Zenon DEF ClientFails, KillClient
  <2>3. CASE ClientSpins(k)
    BY <2>3, UnchangedIInv, Zenon DEF ClientSpins
  <2> QED BY <1>6, <2>1, <2>2, <2>3, Zenon DEF ClientNext
<1>7. CASE UNCHANGED vars
  BY <1>7, UnchangedIInv, Zenon
<1> QED BY <1>1, <1>2, <1>3, <1>4, <1>5, <1>6, <1>7, Zenon DEF Next, Quiet

-----------------------------------------------------------------------------
(***************************************************************************)
(* What one step may do to the requests Old has begun to read.             *)
(***************************************************************************)

\* What OldOnlyFinishes says of one step.
Finishes ==
    \A fd \in Fd :
        srv[Old].unix_client # NoFd /\ EmptyReadBuf(conn[Old][fd])
        => EmptyReadBuf(conn'[Old][fd]) /\ conn'[Old][fd].reply <= conn[Old][fd].reply

\* A step that leaves the connection objects alone begins nothing.
LEMMA SameFinishes == ASSUME TypeOK, UNCHANGED conn PROVE Finishes
<1>1. \A fd \in Fd : conn[Old][fd].reply \in Nat
  BY Names, SMT, Zenon, SMTT(30) DEF TypeOK, Conn
<1>2. \A n \in Nat : n <= n
  BY SMT, Zenon, SMTT(30)
<1> QED BY <1>1, <1>2, Zenon DEF Finishes

\* Nor does one that replaces an object by one that is empty and owes no more.
LEMMA UpdateFinishes ==
  ASSUME TypeOK, NEW p \in Server, NEW g \in Fd, NEW r, conn' = [conn EXCEPT ![p][g] = r],
         p = Old /\ srv[Old].unix_client # NoFd /\ EmptyReadBuf(conn[Old][g])
            => EmptyReadBuf(r) /\ r.reply <= conn[Old][g].reply
  PROVE  Finishes
<1>1. \A fd \in Fd : conn'[Old][fd] = IF p = Old /\ fd = g THEN r ELSE conn[Old][fd]
  BY Names, Zenon DEF TypeOK
<1>2. \A fd \in Fd : conn[Old][fd].reply \in Nat
  BY Names, SMT, Zenon, SMTT(30) DEF TypeOK, Conn
<1>3. \A n \in Nat : n <= n
  BY SMT, Zenon, SMTT(30)
<1> SUFFICES ASSUME NEW fd \in Fd, srv[Old].unix_client # NoFd, EmptyReadBuf(conn[Old][fd])
             PROVE  EmptyReadBuf(conn'[Old][fd]) /\ conn'[Old][fd].reply <= conn[Old][fd].reply
  BY Zenon DEF Finishes
<1>4. CASE p = Old /\ fd = g
  BY <1>1, <1>4, Zenon
<1>5. CASE ~(p = Old /\ fd = g)
  BY <1>1, <1>2, <1>3, <1>5, Zenon
<1> QED BY <1>4, <1>5, Zenon

\* Nor does accepting, taking over or closing a session.
LEMMA NewFinishes ==
  ASSUME TypeOK, NEW p \in Server, NEW g \in Fd, conn' = [conn EXCEPT ![p][g] = NewConn]
  PROVE  Finishes
<1>1. PICK r : r = NewConn
  BY Zenon
<1>2. EmptyReadBuf(r) /\ r.reply = 0
  BY <1>1, Zenon DEF NewConn, EmptyReadBuf
<1>3. conn[Old][g].reply \in Nat
  BY Names, SMT, Zenon, SMTT(30) DEF TypeOK, Conn
<1>4. r.reply <= conn[Old][g].reply
  BY <1>2, <1>3, SMT, Zenon, SMTT(30)
<1>5. conn' = [conn EXCEPT ![p][g] = r]
  BY <1>1, Zenon
<1> QED BY <1>2, <1>4, <1>5, UpdateFinishes, Zenon

\* Nor does the end of a process.
LEMMA ExitFinishes == ASSUME TypeOK, NEW p \in Server, Exit(p) PROVE Finishes
<1>1. \A fd \in Fd : conn'[Old][fd] = IF p = Old THEN NewConn ELSE conn[Old][fd]
  BY Names, Zenon DEF TypeOK, Exit
<1>2. \A fd \in Fd : conn[Old][fd].reply \in Nat
  BY Names, SMT, Zenon, SMTT(30) DEF TypeOK, Conn
<1>3. EmptyReadBuf(NewConn) /\ NewConn.reply = 0
  BY Zenon DEF NewConn, EmptyReadBuf
<1>4. \A n \in Nat : n <= n /\ 0 <= n
  BY SMT, Zenon, SMTT(30)
<1>5. CASE p = Old
  BY <1>1, <1>2, <1>3, <1>4, <1>5, Zenon DEF Finishes
<1>6. CASE p # Old
  BY <1>1, <1>2, <1>4, <1>6, Zenon DEF Finishes
<1> QED BY <1>5, <1>6, Zenon

\* A read of Old is for a request that has begun: with an empty buffer the session
\* would have been Transferable.
LEMMA HandleReadFinishes ==
  ASSUME IInv, NEW p \in Server, NEW fe, HandleRead(p, fe) PROVE Finishes
<1>1. TypeOK /\ fe.fd \in Fd
  BY NetFile, Zenon DEF IInv, HandleRead
<1>2. ~(p = Old /\ srv[Old].unix_client # NoFd /\ EmptyReadBuf(conn[Old][fe.fd]))
  BY Zenon DEF HandleRead, Transferable
<1>3. PICK r : conn' = [conn EXCEPT ![p][fe.fd] = r]
  BY Zenon DEF HandleRead, CloseConn
<1> QED BY <1>1, <1>2, <1>3, UpdateFinishes, Zenon

\* A write only shortens what is owed.
LEMMA HandleWriteFinishes ==
  ASSUME IInv, NEW p \in Server, NEW fe, HandleWrite(p, fe) PROVE Finishes
<1>1. TypeOK /\ fe.fd \in Fd
  BY NetFile, Zenon DEF IInv, HandleWrite
<1>2. CASE CloseConn(p, fe.fd)
  BY <1>1, <1>2, NewFinishes, Zenon DEF CloseConn
<1>3. CASE ~CloseConn(p, fe.fd)
  <2>1. PICK n : conn' = [conn EXCEPT ![p][fe.fd] = SendReply(conn[p][fe.fd], n).conn]
    BY <1>3, Zenon DEF HandleWrite
  <2>2. PICK b : b = conn[p][fe.fd]
    BY Zenon
  <2>3. PICK r : r = SendReply(b, n).conn
    BY Zenon
  <2>4. b \in Conn
    BY <1>1, <2>2, SMT, Zenon, SMTT(30) DEF TypeOK
  <2>5. EmptyReadBuf(b) => EmptyReadBuf(r) /\ r.reply <= b.reply
    BY <2>3, <2>4, SMT, Zenon, SMTT(30) DEF SendReply, Conn, EmptyReadBuf
  <2>6. conn' = [conn EXCEPT ![p][fe.fd] = r]
    BY <2>1, <2>2, <2>3, Zenon
  <2> QED BY <1>1, <2>2, <2>5, <2>6, UpdateFinishes, Zenon
<1> QED BY <1>2, <1>3, Zenon

\* No handler of the if-chain in main begins a request in Old.
LEMMA HandleFinishes ==
  ASSUME IInv, NEW p \in Server, NEW fe \in fired[p], Handle(p, fe) PROVE Finishes
<1>1. TypeOK /\ fe.fd \in Fd
  BY FiredFd, Zenon DEF IInv
<1>2. CASE HandleInetListen(p, fe) \/ HandleSessionFdMsg(p, fe)
  BY <1>1, <1>2, NewFinishes, Zenon DEF HandleInetListen, HandleSessionFdMsg, OpenConn
<1>3. CASE HandleUnixListen(p, fe) \/ HandleListenFdMsg(p, fe) \/ UnixConnClose(p, fe)
           \/ TransferSessionFd(p, fe)
  BY <1>1, <1>3, SameFinishes, Zenon
     DEF HandleUnixListen, HandleListenFdMsg, UnixConnClose, TransferSessionFd
<1>4. CASE HandleInetListenFails(p, fe) \/ HandleUnixListenFails(p, fe)
  BY <1>1, <1>4, ExitFinishes, Zenon DEF HandleInetListenFails, HandleUnixListenFails
<1>5. CASE TransferSessionFdFails(p, fe) \/ HandleNetError(p, fe)
  BY <1>1, <1>5, NewFinishes, Zenon DEF TransferSessionFdFails, HandleNetError, CloseConn
<1>6. CASE HandleRead(p, fe) \/ HandleWrite(p, fe)
  BY <1>6, HandleReadFinishes, HandleWriteFinishes, Zenon
<1> QED BY <1>2, <1>3, <1>4, <1>5, <1>6, Zenon DEF Handle

\* Nor does any other step.
LEMMA NextFinishes == ASSUME IInv, [Next]_vars PROVE Finishes
<1>1. TypeOK
  BY Zenon DEF IInv
<1>2. CASE StartNew \/ CreateTrigger \/ UNCHANGED vars
  BY <1>1, <1>2, SameFinishes, Zenon DEF StartNew, CreateTrigger, procs, vars
<1>3. CASE KillNew \/ StopOld
  BY <1>1, <1>3, ExitFinishes, Names, Zenon DEF KillNew, StopOld
<1>4. ASSUME NEW p \in Server, ServerNext(p) PROVE Finishes
  <2>1. CASE MeetNew(p) \/ TransferListenFd(p) \/ FinishListenFd(p) \/ Poll(p)
    BY <1>1, <2>1, SameFinishes, Zenon DEF MeetNew, TransferListenFd, FinishListenFd, Poll
  <2>2. CASE MeetNewFails(p)
    BY <1>1, <2>2, ExitFinishes, Zenon DEF MeetNewFails
  <2>3. CASE \E fe \in fired[p] : Handle(p, fe)
    BY <2>3, HandleFinishes, Zenon
  <2>4. CASE CloseTransferred(p)
    <3>1. PICK g : g = srv[p].session_fd
      BY Zenon
    <3>2. g \in Fd
      BY <1>1, <2>4, <3>1, Names, Zenon DEF CloseTransferred, IInv, SessionOK, RolesOK,
         TypeOK
    <3> QED BY <1>1, <2>4, <3>1, <3>2, NewFinishes, Zenon DEF CloseTransferred, CloseConn
  <2> QED BY <1>4, <2>1, <2>2, <2>3, <2>4, Zenon DEF ServerNext
<1>5. ASSUME NEW k \in Clients, ClientNext(k) \/ KillClient(k) PROVE Finishes
  <2>1. UNCHANGED conn
    BY <1>5, Zenon DEF ClientNext, ClientConnect, ClientWrite, ClientRead, ClientFails,
                       ClientSpins, KillClient, ClientEnds, procs, vars
  <2> QED BY <1>1, <2>1, SameFinishes, Zenon
<1> QED BY <1>2, <1>3, <1>4, <1>5, Zenon DEF Next, Quiet
=============================================================================

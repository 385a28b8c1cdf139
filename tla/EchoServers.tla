---------------------------- MODULE EchoServers ----------------------------
(***************************************************************************)
(* The echo server of csapp/concurrent_program/echoservers.cc: one thread, *)
(* a pool of connected descriptors and select.  In each round it accepts   *)
(* at most one client and then reads one line from every ready descriptor, *)
(* with the blocking reader of rio.cc.  Its clients are those of           *)
(* csapp/network_program/client.cc, which wait for the echo of each line,  *)
(* and peers that send all they have and close their sending side; some of *)
(* them may be killed, and their connections reset.                        *)
(*                                                                         *)
(* The kernel is external: descriptors are allocated lowest first, the     *)
(* limit on descriptors, at most FD_SETSIZE, is not reached, and a         *)
(* connection that is reset still gives what it has received.  The first   *)
(* read after that, or write, fails; later reads return end of file, and   *)
(* later writes raise SIGPIPE (the first may too, by the TCP state).       *)
(***************************************************************************)
EXTENDS Rio

CONSTANTS
    Clients,        \* each opens one connection
    Script,         \* [Clients -> Seq(Seq(Char))]: what each reads from its stdin
    Patient,        \* the clients that wait for each echo
    Mortal,         \* the clients that may be killed
    FD_SETSIZE

NoClient == "no_client"

ASSUME EchoServersAssumption ==
    /\ Script \in [Clients -> Seq(Seq(Char))]
    /\ \A k \in Clients : \A n \in DOMAIN Script[k] : Script[k][n] # <<>>
    /\ Patient \subseteq Clients /\ Mortal \subseteq Clients
    /\ NoClient \notin Clients
    /\ FD_SETSIZE \in Nat /\ FD_SETSIZE > 2

listenfd == 1       \* descriptor 0 stands for those a process starts with
Fd == 2..(FD_SETSIZE - 1)
NoFd == -1
Slot == 0..(FD_SETSIZE - 1)

VARIABLES
    pool,       \* the pool, its two arrays apart
    clientfd, clientrio,
    pc,         \* "select", "accept", "check", "line" (in rio_readlineb), "killed"
    i,          \* local of check_clients
    rio, line,  \* its local rio_t, and the line being read
    fdt,        \* kernel: the client a descriptor is connected to
    backlog,    \* kernel: connections waiting in listenfd
    cl,         \* each client's position in its script
    sent,       \* bytes each client has sent
    fin,        \* has it closed its sending side?
    rst,        \* was its connection reset, and has a read told so? "no", "reset", "told"
    taken,      \* how many of them the server has read
    out,        \* bytes the server has written to each client
    seen        \* how many of them the client has read

server == <<pool, clientfd, clientrio, pc, i, rio, line>>
vars == <<server, fdt, backlog, cl, sent, fin, rst, taken, out, seen>>

ClientState == [pc : {"connect", "write", "read", "exit"}, line : Nat, pos : Nat]

\* The pool, the reader and the connections: in particular nready, an int that two
\* functions decrement, never becomes negative.
TypeOK ==
    /\ pool \in [maxfd : 1..(FD_SETSIZE - 1), maxi : {-1} \cup Slot, nready : Nat,
                 read_set : SUBSET ({listenfd} \cup Fd),
                 ready_set : SUBSET ({listenfd} \cup Fd)]
    /\ clientfd \in [Slot -> Fd \cup {NoFd}]
    /\ clientrio \in [Slot -> Seq(Byte)]
    /\ pc \in {"select", "accept", "check", "line", "killed"}
    /\ i \in 0..FD_SETSIZE
    /\ rio \in Seq(Char) /\ line \in Seq(Char) /\ Len(line) < MAXLINE
    /\ fdt \in [Fd -> Clients \cup {NoClient}]
    /\ backlog \in Seq(Clients)
    /\ cl \in [Clients -> ClientState]
    /\ sent \in [Clients -> Seq(Char)] /\ fin \in [Clients -> BOOLEAN]
    /\ rst \in [Clients -> {"no", "reset", "told"}]
    /\ out \in [Clients -> Seq(Byte)]
    /\ \A k \in Clients : taken[k] \in 0..Len(sent[k]) /\ seen[k] \in 0..Len(out[k])
-----------------------------------------------------------------------------
(* Kernel *)

Unread(k) == SubSeq(sent[k], taken[k] + 1, Len(sent[k]))

Readable(fd) ==
    IF fd = listenfd THEN backlog # <<>>
    ELSE Unread(fdt[fd]) # <<>> \/ fin[fdt[fd]] \/ rst[fdt[fd]] # "no"

FreeFd == {fd \in Fd : fdt[fd] = NoClient}
-----------------------------------------------------------------------------
(* echoservers.cc *)

\* select(pool.maxfd + 1, ...) looks at the descriptors below its argument.
Watched == {fd \in pool.read_set : fd < pool.maxfd + 1}

Select ==
    /\ pc = "select"
    /\ LET ready == {fd \in Watched : Readable(fd)}
       IN  /\ ready # {}
           /\ pool' = [pool EXCEPT !.ready_set = ready, !.nready = Cardinality(ready)]
           /\ pc' = IF listenfd \in ready THEN "accept" ELSE "check"
    /\ i' = 0
    /\ UNCHANGED <<clientfd, clientrio, rio, line, fdt, backlog, cl, sent, fin, rst, taken, out, seen>>

\* Mutant: nready is decremented in main and here.
AddClient_Twice(connfd) ==
    LET s == Min({s \in Slot : clientfd[s] < 0})
    IN  /\ clientfd' = [clientfd EXCEPT ![s] = connfd]
        /\ clientrio' = [clientrio EXCEPT ![s] = rio_readinitb]
        /\ pool' = [pool EXCEPT !.nready = @ - 2, !.read_set = @ \cup {connfd},
                                !.maxfd = Max({@, connfd}), !.maxi = Max({@, s})]

\* Mutant: nready is not decremented for the listening descriptor.
AddClient_KeepsNready(connfd) ==
    LET s == Min({s \in Slot : clientfd[s] < 0})
    IN  /\ clientfd' = [clientfd EXCEPT ![s] = connfd]
        /\ clientrio' = [clientrio EXCEPT ![s] = rio_readinitb]
        /\ pool' = [pool EXCEPT !.read_set = @ \cup {connfd}, !.maxfd = Max({@, connfd}),
                                !.maxi = Max({@, s})]

\* Mutant: the high-water mark of the slots is not raised.
AddClient_KeepsMaxi(connfd) ==
    LET s == Min({s \in Slot : clientfd[s] < 0})
    IN  /\ clientfd' = [clientfd EXCEPT ![s] = connfd]
        /\ clientrio' = [clientrio EXCEPT ![s] = rio_readinitb]
        /\ pool' = [pool EXCEPT !.nready = @ - 1, !.read_set = @ \cup {connfd},
                                !.maxfd = Max({@, connfd}), !.maxi = Max({@, 0})]

\* add_client: the first free slot; without one the connection stays open, unwatched.
AddClient(connfd) ==
    LET free == {s \in Slot : clientfd[s] < 0}
        s    == Min(free)
    IN  IF free = {}
        THEN /\ pool' = [pool EXCEPT !.nready = @ - 1]
             /\ UNCHANGED <<clientfd, clientrio>>
        ELSE /\ clientfd' = [clientfd EXCEPT ![s] = connfd]
             /\ clientrio' = [clientrio EXCEPT ![s] = rio_readinitb]
             /\ pool' = [pool EXCEPT !.nready = @ - 1, !.read_set = @ \cup {connfd},
                                     !.maxfd = Max({@, connfd}), !.maxi = Max({@, s})]

Accept ==
    /\ pc = "accept"
    /\ LET connfd == Min(FreeFd)
       IN  /\ fdt' = [fdt EXCEPT ![connfd] = Head(backlog)]
           /\ AddClient(connfd)
    /\ backlog' = Tail(backlog)
    /\ pc' = "check"
    /\ UNCHANGED <<i, rio, line, cl, sent, fin, rst, taken, out, seen>>

\* The slots the loop of check_clients still has to serve.
ToServe ==
    {s \in Slot : i <= s /\ s <= pool.maxi /\ clientfd[s] > 0
                  /\ clientfd[s] \in pool.ready_set}

\* The next ready slot.  The reader is copied by value: rio = p->clientrio[i].
CheckClient ==
    /\ pc = "check" /\ pool.nready > 0 /\ ToServe # {}
    /\ i' = Min(ToServe)
    /\ rio' = clientrio[Min(ToServe)] /\ line' = <<>>
    /\ pool' = [pool EXCEPT !.nready = @ - 1]
    /\ pc' = "line"
    /\ UNCHANGED <<clientfd, clientrio, fdt, backlog, cl, sent, fin, rst, taken, out, seen>>

\* The loop ends; main goes on to the next select.
CheckEnds ==
    /\ pc = "check" /\ (pool.nready = 0 \/ ToServe = {})
    /\ pc' = "select"
    /\ UNCHANGED <<pool, clientfd, clientrio, i, rio, line, fdt, backlog, cl, sent, fin,
                   rst, taken, out, seen>>

CurClient == fdt[clientfd[i]]

\* The iteration is over: its rio_t goes with it.
NextSlot == pc' = "check" /\ i' = i + 1 /\ rio' = <<>> /\ line' = <<>>

\* rio_writen(connfd, buf, n): nobody looks at what it returns, nor ignores SIGPIPE.
Write(bytes) ==
    \/ /\ rst[CurClient] = "no"
       /\ out' = [out EXCEPT ![CurClient] = @ \o bytes]
       /\ NextSlot /\ UNCHANGED rst
    \/ /\ rst[CurClient] = "reset"
       /\ rst' = [rst EXCEPT ![CurClient] = "told"]
       /\ NextSlot /\ UNCHANGED out
    \/ /\ rst[CurClient] # "no"
       /\ pc' = "killed" /\ UNCHANGED <<out, i, rio, line, rst>>

\* rio_readlineb up to its next read(); it blocks while the client is silent.  A
\* complete line is echoed with rio_writen.
ReadLine ==
    /\ pc = "line"
    /\ LET k     == CurClient
           full  == Fill(rio, Unread(k))
           n     == Takes(line, full)
           line2 == line \o SubSeq(full, 1, n)
       IN  /\ full # <<>>
           /\ taken' = [taken EXCEPT ![k] = @ + Len(full) - Len(rio)]
           /\ \/ Ended(line2) /\ Write(Returned(line2))
              \/ /\ ~Ended(line2)
                 /\ line' = line2 /\ rio' = SubSeq(full, n + 1, Len(full))
                 /\ UNCHANGED <<out, pc, i, rst>>
    /\ UNCHANGED <<pool, clientfd, clientrio, fdt, backlog, cl, sent, fin, seen>>

NothingLeft == pc = "line" /\ rio = <<>> /\ Unread(CurClient) = <<>>
AtEof == NothingLeft /\ rst[CurClient] # "reset" /\ (fin[CurClient] \/ rst[CurClient] = "told")

\* End of file in the middle of a line
ReadRest ==
    /\ AtEof /\ line # <<>>
    /\ Write(Returned(line))
    /\ UNCHANGED <<pool, clientfd, clientrio, fdt, backlog, cl, sent, fin, taken, seen>>

\* The read fails: rio_readlineb returns -1 without the bytes it had, check_clients
\* takes -1 for a length, and a write of (size_t)-1 bytes fails (EFAULT).
ReadReset ==
    /\ NothingLeft /\ rst[CurClient] = "reset"
    /\ rst' = [rst EXCEPT ![CurClient] = "told"]
    /\ NextSlot
    /\ UNCHANGED <<pool, clientfd, clientrio, fdt, backlog, cl, sent, fin, taken, out, seen>>

\* Mutant: the slot is not freed.
CloseClient_KeepsSlot ==
    /\ AtEof /\ line = <<>>
    /\ fdt' = [fdt EXCEPT ![clientfd[i]] = NoClient]
    /\ pool' = [pool EXCEPT !.read_set = @ \ {clientfd[i]}]
    /\ NextSlot
    /\ UNCHANGED <<clientfd, clientrio, backlog, cl, sent, fin, rst, taken, out, seen>>

\* rio_readlineb returns 0: close, FD_CLR, the slot is free again
CloseClient ==
    /\ AtEof /\ line = <<>>
    /\ fdt' = [fdt EXCEPT ![clientfd[i]] = NoClient]
    /\ pool' = [pool EXCEPT !.read_set = @ \ {clientfd[i]}]
    /\ clientfd' = [clientfd EXCEPT ![i] = NoFd]
    /\ NextSlot
    /\ UNCHANGED <<clientrio, backlog, cl, sent, fin, rst, taken, out, seen>>

ServerNext ==
    \/ Select \/ Accept \/ CheckClient \/ CheckEnds
    \/ ReadLine \/ ReadRest \/ ReadReset \/ CloseClient
-----------------------------------------------------------------------------
(* network_program/client.cc, and peers that do not wait *)

\* bound: no more connections at a time than there are descriptors
OpenClientfd(k) ==
    /\ cl[k].pc = "connect"
    /\ Len(backlog) < Cardinality(FreeFd)
    /\ backlog' = Append(backlog, k)
    /\ cl' = [cl EXCEPT ![k].pc = "write"]
    /\ UNCHANGED <<server, fdt, sent, fin, rst, taken, out, seen>>

\* rio_writen of the line fgets has returned; write() takes any part of the rest
ClientWrite(k) ==
    /\ cl[k].pc = "write" /\ cl[k].line <= Len(Script[k])
    /\ LET text == Script[k][cl[k].line]
       IN  \E n \in (cl[k].pos + 1)..Len(text) :
             /\ sent' = [sent EXCEPT ![k] = @ \o SubSeq(text, cl[k].pos + 1, n)]
             /\ cl' = [cl EXCEPT ![k] =
                  IF n < Len(text) THEN [@ EXCEPT !.pos = n]
                  ELSE [pc |-> IF k \in Patient THEN "read" ELSE "write",
                        line |-> @.line + 1, pos |-> 0]]
    /\ UNCHANGED <<server, fdt, backlog, fin, rst, taken, out, seen>>

\* rio_readlineb: the bytes beyond the line stay in the client's own rio_t
ClientRead(k) ==
    /\ cl[k].pc = "read"
    /\ LET rest == SubSeq(out[k], seen[k] + 1, Len(out[k]))
           n    == Takes(<<>>, rest)
       IN  /\ Ended(SubSeq(rest, 1, n))
           /\ seen' = [seen EXCEPT ![k] = @ + n]
    /\ cl' = [cl EXCEPT ![k].pc = "write"]
    /\ UNCHANGED <<server, fdt, backlog, sent, fin, rst, taken, out>>

\* fgets returns NULL: close
ClientExit(k) ==
    /\ cl[k].pc = "write" /\ cl[k].line > Len(Script[k])
    /\ cl' = [cl EXCEPT ![k].pc = "exit"]
    /\ fin' = [fin EXCEPT ![k] = TRUE]
    /\ UNCHANGED <<server, fdt, backlog, sent, rst, taken, out, seen>>

\* The client is killed; its kernel answers what is not read with a reset.
ClientDies(k) ==
    /\ k \in Mortal /\ cl[k].pc \in {"write", "read"}
    /\ cl' = [cl EXCEPT ![k].pc = "exit"]
    /\ rst' = [rst EXCEPT ![k] = "reset"]
    /\ UNCHANGED <<server, fdt, backlog, sent, fin, taken, out, seen>>

ClientNext(k) == OpenClientfd(k) \/ ClientWrite(k) \/ ClientRead(k) \/ ClientExit(k)
-----------------------------------------------------------------------------
\* init_pool after open_listenfd
Init ==
    /\ pool = [maxfd |-> listenfd, maxi |-> -1, nready |-> 0,
               read_set |-> {listenfd}, ready_set |-> {}]
    /\ clientfd = [s \in Slot |-> NoFd]
    /\ clientrio = [s \in Slot |-> <<>>]
    /\ pc = "select" /\ i = 0 /\ rio = <<>> /\ line = <<>>
    /\ fdt = [fd \in Fd |-> NoClient]
    /\ backlog = <<>>
    /\ cl = [k \in Clients |-> [pc |-> "connect", line |-> 1, pos |-> 0]]
    /\ sent = [k \in Clients |-> <<>>] /\ out = [k \in Clients |-> <<>>]
    /\ fin = [k \in Clients |-> FALSE] /\ rst = [k \in Clients |-> "no"]
    /\ taken = [k \in Clients |-> 0] /\ seen = [k \in Clients |-> 0]

\* Every client is gone and the server waits in select for ever, or it was killed.
Quiet ==
    /\ \/ /\ \A k \in Clients : cl[k].pc = "exit"
          /\ pc = "select" /\ backlog = <<>> /\ FreeFd = Fd
       \/ pc = "killed"
    /\ UNCHANGED vars

\* The clients are followed for as long as there is a server.
Next ==
    \/ ServerNext
    \/ pc # "killed" /\ \E k \in Clients : ClientNext(k) \/ ClientDies(k)
    \/ Quiet

Spec == Init /\ [][Next]_vars

\* The scheduler runs the server and every client; a client's stdin goes on.
FairSpec ==
    /\ Spec
    /\ WF_vars(ServerNext)
    /\ \A k \in Clients : WF_vars(pc # "killed" /\ ClientNext(k))
-----------------------------------------------------------------------------
(***************************************************************************)
(* The slots, the descriptor set, the two high-water marks and the         *)
(* kernel's table describe the same connections: whatever is open is       *)
(* watched by select and found by check_clients, in one slot               *)
(* (echoservers.cc:55-81, 102-105).                                        *)
(***************************************************************************)
PoolOK ==
    LET used == {s \in Slot : clientfd[s] # NoFd}
    IN  /\ \A s, t \in used : clientfd[s] = clientfd[t] => s = t
        /\ {clientfd[s] : s \in used} = Fd \ FreeFd
        /\ pool.read_set = {listenfd} \cup {clientfd[s] : s \in used}
        /\ \A s \in used : clientfd[s] <= pool.maxfd /\ s <= pool.maxi

(***************************************************************************)
(* nready says how many slots check_clients still has to serve, so the     *)
(* loop neither stops early nor runs over slots that are not ready, and a  *)
(* client accepted in this round is not among them (echoservers.cc:57,     *)
(* 88-94).                                                                 *)
(***************************************************************************)
ReadyAccounted ==
    /\ pc = "select" => pool.nready = 0
    /\ pc = "check" => pool.nready = Cardinality(ToServe)

\* A byte of k the server has read is echoed, or in the line being read, or unread
\* in the connection's read buffer, in this order.
Kept(k) ==
    \A s \in Slot : clientfd[s] # NoFd /\ fdt[clientfd[s]] = k =>
        LET pending == IF pc = "line" /\ i = s THEN line \o rio ELSE clientrio[s]
        IN  SelectSeq(out[k], LAMBDA b : b # "nul") \o pending = SubSeq(sent[k], 1, taken[k])

(***************************************************************************)
(* clientrio is "Set of active read buffers" (echoservers.cc:10), a rio_t  *)
(* "Persistent state for the robust I/O (Rio) package" (csapp.h:38): no    *)
(* byte that was read is lost.                                             *)
(***************************************************************************)
NothingDropped == \A k \in Clients : Kept(k)

(***************************************************************************)
(* It is true of a client that waits for each echo and completes its       *)
(* lines, and nothing is written to it that it has not sent, whatever the  *)
(* other clients send and whoever of them is killed: however its line is   *)
(* cut into reads, and whichever slot and descriptor it has inherited, it  *)
(* gets back what it sent (echoservers.cc:83-107, rio.cc:50-101).          *)
(***************************************************************************)
PatientExact == \A k \in Patient : Kept(k) /\ IsPrefix(out[k], sent[k])

(***************************************************************************)
(* "Echo a text line from each ready connected descriptor"                 *)
(* (echoservers.cc:135): the server catches up with what its clients send, *)
(* whoever of them it reads from first, unless writing to one that was     *)
(* killed has ended it.                                                    *)
(***************************************************************************)
ReadyIsServed ==
    (\E k \in Clients : taken[k] < Len(sent[k]))
    ~> (\A k \in Clients : taken[k] = Len(sent[k])) \/ pc = "killed"

(***************************************************************************)
(* Clients that wait for their echoes get them all, and the server takes   *)
(* back every descriptor, also that of a connection whose read has failed  *)
(* (echoservers.cc:95-103, 124-137).  Only SIGPIPE ends it before that.    *)
(***************************************************************************)
AllEchoed ==
    \/ <>(pc = "killed")
    \/ <>[](FreeFd = Fd /\ \A k \in Patient : out[k] = FlattenSeq(Script[k]))
=============================================================================

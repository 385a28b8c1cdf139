------------------------- MODULE EchoServersProofs -------------------------
(***************************************************************************)
(* The select server for any clients, any scripts and any FD_SETSIZE: the  *)
(* pool always describes the open connections, and nready always counts    *)
(* the slots that check_clients has still to serve.                        *)
(***************************************************************************)
EXTENDS EchoServers, FiniteSetTheorems, SequenceTheorems, TLAPS

\* The ready slots from n on; ToServe is Serve(i).
Serve(n) ==
    {s \in Slot : n <= s /\ s <= pool.maxi /\ clientfd[s] > 0 /\ clientfd[s] \in pool.ready_set}

\* A pool: the high-water marks, the count and the two sets.
PoolRec ==
    [maxfd : 1..(FD_SETSIZE - 1), maxi : {-1} \cup Slot, nready : Nat,
     read_set : SUBSET ({listenfd} \cup Fd), ready_set : SUBSET ({listenfd} \cup Fd)]

\* The types of the pool, of the loop over it and of the kernel's side of it.  A reader
\* in the pool is always empty: check_clients fills a copy of it.
PoolType ==
    /\ pool \in PoolRec
    /\ clientfd \in [Slot -> Fd \cup {NoFd}]
    /\ clientrio = [s \in Slot |-> <<>>]
    /\ pc \in {"select", "accept", "check", "line", "killed"}
    /\ i \in 0..FD_SETSIZE
    /\ fdt \in [Fd -> Clients \cup {NoClient}]
    /\ backlog \in Seq(Clients)

\* What ReadyAccounted says at the other two places of a round: accept has a connection
\* to take, and the slots to serve are those of select; a line is read for a slot in use,
\* and the slots after it remain.
StageOK ==
    /\ pc = "accept" =>
          /\ backlog # <<>> /\ pool.ready_set \subseteq pool.read_set
          /\ pool.nready = Cardinality(Serve(i)) + 1
    /\ pc = "line" =>
          /\ i \in Slot /\ clientfd[i] # NoFd
          /\ pool.nready = Cardinality(Serve(i + 1))

\* There is a descriptor for every connection that waits.
BacklogFits == Len(backlog) <= Cardinality(FreeFd)

\* The half of the invariant that is about the pool.
PoolInv == PoolType /\ PoolOK /\ ReadyAccounted /\ StageOK /\ BacklogFits

\* The half that is about the bytes: the line in hand and the two streams of each client.
StreamInv ==
    /\ rio \in Seq(Char) /\ line \in Seq(Char) /\ Len(line) < MAXLINE
    /\ cl \in [Clients -> ClientState] /\ \A k \in Clients : cl[k].line > 0
    /\ sent \in [Clients -> Seq(Char)] /\ fin \in [Clients -> BOOLEAN]
    /\ rst \in [Clients -> {"no", "reset", "told"}]
    /\ out \in [Clients -> Seq(Byte)]
    /\ taken \in [Clients -> Nat] /\ seen \in [Clients -> Nat]
    /\ \A k \in Clients : taken[k] <= Len(sent[k]) /\ seen[k] <= Len(out[k])

Inv == PoolInv /\ StreamInv
-----------------------------------------------------------------------------
\* A set of naturals that is not empty has a least element, and Min is it.
LEMMA MinOfNats ==
    ASSUME NEW S, S \subseteq Nat, S # {}
    PROVE  Min(S) \in S /\ \A y \in S : Min(S) <= y
<1>1. PICK x \in S : \A y \in S : ~(<<y, x>> \in OpToRel(<, Nat))
  BY NatLessThanWellFounded, WFMin, SMT, Zenon, SMTT(30)
<1>2. ASSUME NEW y \in S PROVE x <= y
  <2>1. <<y, x>> \in Nat \X Nat /\ y \in Nat /\ x \in Nat
    BY SMT, Zenon, SMTT(30)
  <2>2. ~(y < x)
    BY <1>1, <2>1, Zenon DEF OpToRel
  <2> QED  BY <2>1, <2>2, SMT, Zenon, SMTT(30)
<1> QED  BY <1>2, Zenon DEF Min

\* The greater of two numbers.
LEMMA MaxOfTwo ==
    ASSUME NEW a \in Int, NEW b \in Int
    PROVE  Max({a, b}) = IF a >= b THEN a ELSE b
<1>1. \E x \in {a, b} : \A y \in {a, b} : x >= y
  BY SMT, Zenon, SMTT(30)
<1>2. Max({a, b}) \in {a, b} /\ \A y \in {a, b} : Max({a, b}) >= y
  BY <1>1, SMT, Zenon, SMTT(30) DEF Max
<1> QED  BY <1>2, SMT, Zenon, SMTT(30)

\* Slots and descriptors are finitely many, and there are more slots than descriptors:
\* FD_SETSIZE slots, and no connection has descriptor 0 or that of the listening socket.
LEMMA FiniteSlots ==
    /\ IsFiniteSet(Slot) /\ IsFiniteSet(Fd) /\ Cardinality(Fd) < Cardinality(Slot)
    /\ \A n : IsFiniteSet(Serve(n)) /\ Cardinality(Serve(n)) \in Nat
    /\ IsFiniteSet(FreeFd) /\ Cardinality(FreeFd) \in Nat
<1>1. /\ IsFiniteSet(Slot) /\ Cardinality(Slot) = FD_SETSIZE
      /\ IsFiniteSet(Fd) /\ Cardinality(Fd) = FD_SETSIZE - 2
  <2>1. 0 \in Int /\ 2 \in Int /\ FD_SETSIZE - 1 \in Int /\ FD_SETSIZE - 1 >= 2
    BY EchoServersAssumption, SMT, Zenon, SMTT(30)
  <2>2. IsFiniteSet(Slot) /\ Cardinality(Slot) = (FD_SETSIZE - 1) - 0 + 1
    BY <2>1, FS_Interval, SMT, Zenon, SMTT(30) DEF Slot
  <2>3. IsFiniteSet(Fd) /\ Cardinality(Fd) = (FD_SETSIZE - 1) - 2 + 1
    BY <2>1, FS_Interval, SMT, Zenon, SMTT(30) DEF Fd
  <2> QED  BY <2>2, <2>3, EchoServersAssumption, SMT, Zenon, SMTT(30)
<1>2. \A n : Serve(n) \in SUBSET Slot
  BY SMT, Zenon, SMTT(30) DEF Serve
<1>3. FreeFd \in SUBSET Fd
  BY SMT, Zenon, SMTT(30) DEF FreeFd
<1> QED  BY <1>1, <1>2, <1>3, FS_Subset, FS_CardinalityType, EchoServersAssumption,
            SMT, Zenon, SMTT(30)

\* As many descriptors are ready as the slots that hold them.
LEMMA SameCount ==
    ASSUME PoolType, PoolOK, NEW R, R \subseteq Fd \ FreeFd,
           NEW S, S = {s \in Slot : clientfd[s] \in R}
    PROVE  IsFiniteSet(R) /\ Cardinality(R) = Cardinality(S)
<1> DEFINE f == [s \in S |-> clientfd[s]]
<1>1. \A s, t \in S : clientfd[s] = clientfd[t] => s = t
  BY SMT, Zenon, SMTT(30) DEF PoolOK, Fd, NoFd
<1>2. \A fd \in R : \E s \in S : clientfd[s] = fd
  BY SMT, Zenon, SMTT(30) DEF PoolOK
<1>3. f \in [S -> R] /\ (\A s, t \in S : f[s] = f[t] => s = t) /\ \A fd \in R : \E s \in S : f[s] = fd
  BY <1>1, <1>2, SMT, Zenon, SMTT(30)
<1>4. f \in Bijection(S, R)
  BY <1>3, Zenon DEF Bijection, Injection, Surjection, IsInjective
<1>5. IsFiniteSet(S)
  BY FiniteSlots, FS_Subset, SMT, Zenon, SMTT(30)
<1> QED  BY <1>4, <1>5, FS_Bijection, Zenon DEF ExistsBijection

\* select counts the ready descriptors; what is ready and not the listening socket is in
\* one slot below maxi.
LEMMA SelectPool == ASSUME PoolInv, Select PROVE PoolInv'
<1> USE DEF PoolInv
<1>1. PICK ready : ready = {fd \in Watched : Readable(fd)}
  BY Zenon
<1>2. /\ pool' = [pool EXCEPT !.ready_set = ready, !.nready = Cardinality(ready)]
      /\ pc' = IF listenfd \in ready THEN "accept" ELSE "check"
      /\ i' = 0 /\ clientfd' = clientfd /\ clientrio' = clientrio /\ fdt' = fdt
      /\ backlog' = backlog
  BY <1>1, SMT, Zenon, SMTT(30) DEF Select
<1>3. ready \subseteq pool.read_set /\ (listenfd \in ready => backlog # <<>>)
  BY <1>1, SMT, Zenon, SMTT(30) DEF Watched, Readable
<1> DEFINE R == ready \ {listenfd}
<1> DEFINE S == {s \in Slot : clientfd[s] \in R}
<1>4. R \subseteq Fd \ FreeFd
  BY <1>3, SMT, Zenon, SMTT(30) DEF PoolOK
<1>5. IsFiniteSet(R) /\ Cardinality(R) = Cardinality(S) /\ Cardinality(S) \in Nat
  <2>1. IsFiniteSet(R) /\ Cardinality(R) = Cardinality(S)
    BY <1>4, SameCount, Zenon
  <2> QED  BY <2>1, FS_CardinalityType, Zenon
<1>6. /\ Cardinality(ready) \in Nat
      /\ Cardinality(ready) = IF listenfd \in ready THEN Cardinality(S) + 1 ELSE Cardinality(S)
  <2>1. CASE listenfd \in ready
    <3>1. ready = R \cup {listenfd} /\ listenfd \notin R
      BY <2>1, SMT, Zenon, SMTT(30)
    <3> QED  BY <2>1, <3>1, <1>5, FS_AddElement, SMT, Zenon, SMTT(30)
  <2>2. CASE listenfd \notin ready
    BY <2>2, <1>5, SMT, Zenon, SMTT(30)
  <2> QED  BY <2>1, <2>2, SMT, Zenon, SMTT(30)
<1>7. pool'.ready_set = ready /\ pool'.nready = Cardinality(ready) /\ pool'.maxi = pool.maxi
      /\ pool'.read_set = pool.read_set /\ pool'.maxfd = pool.maxfd
  BY <1>2, SMT, Zenon, SMTT(30) DEF PoolType, PoolRec
<1>8. Serve(i)' = S /\ ToServe' = S
  <2>1. \A s \in Slot : clientfd[s] \in R <=>
            0 <= s /\ s <= pool.maxi /\ clientfd[s] > 0 /\ clientfd[s] \in ready
    BY <1>3, <1>4, SMT, Zenon, SMTT(30)
       DEF PoolType, PoolRec, PoolOK, Slot, Fd, NoFd, listenfd
  <2> QED  BY <2>1, <1>2, <1>7, SMT, Zenon, SMTT(30) DEF Serve, ToServe
<1>9. PoolType'
  <2>1. ready \in SUBSET ({listenfd} \cup Fd)
    BY <1>3, SMT, Zenon, SMTT(30) DEF PoolType, PoolRec
  <2>2. pool' \in PoolRec
    BY <2>1, <1>2, <1>6, Zenon DEF PoolType, PoolRec
  <2>3. pc' \in {"accept", "check"} /\ i' \in 0..FD_SETSIZE
    BY <1>2, EchoServersAssumption, SMT, Zenon, SMTT(30)
  <2> QED  BY <2>2, <2>3, <1>2, Zenon DEF PoolType
<1>10. PoolOK' /\ BacklogFits'
  BY <1>2, <1>7, SMT, Zenon, SMTT(30) DEF PoolOK, BacklogFits, FreeFd
<1>11. ReadyAccounted' /\ StageOK'
  BY <1>2, <1>3, <1>6, <1>7, <1>8, Zenon DEF ReadyAccounted, StageOK
<1> QED  BY <1>9, <1>10, <1>11, SMT, Zenon, SMTT(30)
\* accept finds a descriptor, and add_client a slot: with every slot in use, two of them
\* would hold the same descriptor.
LEMMA RoomForOne ==
    ASSUME PoolInv, pc = "accept"
    PROVE  /\ Min(FreeFd) \in FreeFd
           /\ {s \in Slot : clientfd[s] < 0} # {}
           /\ Min({s \in Slot : clientfd[s] < 0}) \in {s \in Slot : clientfd[s] < 0}
<1> USE DEF PoolInv
<1>1. FreeFd # {}
  <2>1. Len(backlog) > 0 /\ Len(backlog) \in Nat
    BY SMT, Zenon, SMTT(30) DEF PoolType, StageOK
  <2> QED  BY <2>1, FS_EmptySet, SMT, Zenon, SMTT(30) DEF BacklogFits
<1>2. FreeFd \subseteq Nat
  BY EchoServersAssumption, SMT, Zenon, SMTT(30) DEF FreeFd, Fd
<1>3. ASSUME \A s \in Slot : ~(clientfd[s] < 0) PROVE FALSE
  <2>1. clientfd \in [Slot -> Fd]
    BY <1>3, SMT, Zenon, SMTT(30) DEF PoolType, NoFd
  <2>2. \E s, t \in Slot : s # t /\ clientfd[s] = clientfd[t]
    BY <2>1, FiniteSlots, FS_PigeonHole, Zenon
  <2> QED  BY <2>1, <2>2, EchoServersAssumption, SMT, Zenon, SMTT(30) DEF PoolOK, Fd, NoFd
<1>4. {s \in Slot : clientfd[s] < 0} # {}
  BY <1>3, SMT, Zenon, SMTT(30)
<1>5. {s \in Slot : clientfd[s] < 0} \subseteq Nat
  BY SMT, Zenon, SMTT(30) DEF Slot
<1> QED  BY <1>1, <1>2, <1>4, <1>5, MinOfNats, Zenon

\* The new connection gets a free descriptor and a free slot.  Its descriptor was not
\* open when select looked, so it is not among the ready ones.
LEMMA AcceptPool == ASSUME PoolInv, Accept PROVE PoolInv'
<1> USE DEF PoolInv
<1>1. PICK fd : fd = Min(FreeFd)
  BY Zenon
<1>2. PICK s : s = Min({t \in Slot : clientfd[t] < 0})
  BY Zenon
<1>3. /\ pc = "accept" /\ pc' = "check" /\ i' = i
      /\ fdt' = [fdt EXCEPT ![fd] = Head(backlog)] /\ backlog' = Tail(backlog)
      /\ AddClient(fd)
  BY <1>1, SMT, Zenon, SMTT(30) DEF Accept
<1>4. fd \in FreeFd /\ s \in Slot /\ clientfd[s] < 0
  BY <1>1, <1>2, <1>3, RoomForOne, SMT, Zenon, SMTT(30)
<1>5. /\ clientfd' = [clientfd EXCEPT ![s] = fd]
      /\ clientrio' = [clientrio EXCEPT ![s] = <<>>]
      /\ pool' = [pool EXCEPT !.nready = @ - 1, !.read_set = @ \cup {fd},
                              !.maxfd = Max({@, fd}), !.maxi = Max({@, s})]
  BY <1>2, <1>3, RoomForOne, SMT, Zenon, SMTT(30) DEF AddClient, rio_readinitb
<1>6. /\ backlog # <<>> /\ backlog \in Seq(Clients) /\ Head(backlog) \in Clients
      /\ Tail(backlog) \in Seq(Clients) /\ Len(Tail(backlog)) = Len(backlog) - 1
      /\ Head(backlog) # NoClient
  BY <1>3, EchoServersAssumption, SMT, Zenon, SMTT(30) DEF PoolType, StageOK
<1>7. fd \in Fd /\ fdt[fd] = NoClient /\ s \in Slot /\ clientfd[s] = NoFd
  BY <1>4, SMT, Zenon, SMTT(30) DEF FreeFd, PoolType, Fd
<1>8. FreeFd' = FreeFd \ {fd}
  BY <1>3, <1>6, <1>7, SMT, Zenon, SMTT(30) DEF FreeFd, PoolType
<1>9. /\ pool'.nready = pool.nready - 1 /\ pool'.read_set = pool.read_set \cup {fd}
      /\ pool'.ready_set = pool.ready_set
      /\ pool'.maxfd = (IF pool.maxfd >= fd THEN pool.maxfd ELSE fd)
      /\ pool'.maxi = (IF pool.maxi >= s THEN pool.maxi ELSE s)
  <2>1. pool.maxfd \in Int /\ pool.maxi \in Int /\ fd \in Int /\ s \in Int
    BY <1>7, SMT, Zenon, SMTT(30) DEF PoolType, PoolRec, Slot, Fd
  <2>2. /\ Max({pool.maxfd, fd}) = (IF pool.maxfd >= fd THEN pool.maxfd ELSE fd)
        /\ Max({pool.maxi, s}) = (IF pool.maxi >= s THEN pool.maxi ELSE s)
    BY <2>1, MaxOfTwo, SMT, Zenon, SMTT(30)
  <2> QED  BY <1>5, <2>2, SMT, Zenon, SMTT(30) DEF PoolType, PoolRec
<1>10. Serve(i)' = Serve(i) /\ ToServe' = Serve(i)
  <2>1. fd \notin pool.ready_set
    BY <1>3, <1>4, <1>7, SMT, Zenon, SMTT(30) DEF StageOK, PoolOK, Fd, listenfd
  <2>2. \A t \in Slot : clientfd'[t] = IF t = s THEN fd ELSE clientfd[t]
    BY <1>5, <1>7, SMT, Zenon, SMTT(30) DEF PoolType
  <2>3. \A t \in Slot : clientfd[t] > 0 => t <= pool.maxi
    BY SMT, Zenon, SMTT(30) DEF PoolOK, NoFd
  <2>4. NoFd = -1
    BY SMT, Zenon, SMTT(30) DEF NoFd
  <2>5. \A t \in Slot :
          (i <= t /\ t <= pool'.maxi /\ clientfd'[t] > 0 /\ clientfd'[t] \in pool.ready_set)
          <=> (i <= t /\ t <= pool.maxi /\ clientfd[t] > 0 /\ clientfd[t] \in pool.ready_set)
    BY <2>1, <2>2, <2>3, <2>4, <1>7, <1>9, SMT, Zenon, SMTT(30) DEF PoolType, PoolRec, Slot
  <2> QED  BY <2>5, <1>3, <1>9, SMT, Zenon, SMTT(30) DEF Serve, ToServe
<1>11. PoolType'
  <2>1. pool.nready - 1 \in Nat
    BY <1>3, FiniteSlots, SMT, Zenon, SMTT(30) DEF StageOK
  <2>2. /\ pool.read_set \cup {fd} \in SUBSET ({listenfd} \cup Fd)
        /\ pool'.maxfd \in 1..(FD_SETSIZE - 1) /\ pool'.maxi \in {-1} \cup Slot
    BY <1>7, <1>9, EchoServersAssumption, SMT, Zenon, SMTT(30) DEF PoolType, PoolRec, Fd
  <2>3. pool' \in PoolRec
    BY <2>1, <2>2, <1>5, <1>9, Zenon DEF PoolType, PoolRec
  <2>4. clientfd' \in [Slot -> Fd \cup {NoFd}] /\ clientrio' = [t \in Slot |-> <<>>]
    BY <1>5, <1>7, SMT, Zenon, SMTT(30) DEF PoolType
  <2>5. fdt' \in [Fd -> Clients \cup {NoClient}]
    BY <1>3, <1>6, Zenon DEF PoolType
  <2> QED  BY <2>3, <2>4, <2>5, <1>3, <1>6, Zenon DEF PoolType
<1>12. PoolOK'
  <2>1. \A t \in Slot : clientfd'[t] = IF t = s THEN fd ELSE clientfd[t]
    BY <1>5, <1>7, SMT, Zenon, SMTT(30) DEF PoolType
  <2>2. fd # NoFd /\ \A t \in Slot : clientfd[t] # fd
    BY <1>4, <1>7, SMT, Zenon, SMTT(30) DEF PoolOK, Fd, NoFd
  <2> DEFINE used == {t \in Slot : clientfd[t] # NoFd}
  <2>3. {t \in Slot : clientfd'[t] # NoFd} = used \cup {s}
    BY <2>1, <2>2, <1>7, SMT, Zenon, SMTT(30)
  <2>4. {clientfd'[t] : t \in used \cup {s}} = {clientfd[t] : t \in used} \cup {fd}
    BY <2>1, <1>7, SMT, Zenon, SMTT(30)
  <2>5. \A t, u \in used \cup {s} : clientfd'[t] = clientfd'[u] => t = u
    BY <2>1, <2>2, <1>7, SMT, Zenon, SMTT(30) DEF PoolOK
  <2>6. {clientfd[t] : t \in used} \cup {fd} = Fd \ FreeFd'
    BY <1>7, <1>8, SMT, Zenon, SMTT(30) DEF PoolOK
  <2>7. pool'.read_set = {listenfd} \cup ({clientfd[t] : t \in used} \cup {fd})
    BY <1>9, SMT, Zenon, SMTT(30) DEF PoolOK
  <2>8. \A t \in used \cup {s} : clientfd'[t] <= pool'.maxfd /\ t <= pool'.maxi
    <3>0. pool.maxfd \in Int /\ pool.maxi \in Int /\ fd \in Int /\ s \in Int
      BY <1>7, SMT, Zenon, SMTT(30) DEF PoolType, PoolRec, Slot, Fd
    <3>1. \A t \in used : clientfd[t] \in Int /\ t \in Int
      BY SMT, Zenon, SMTT(30) DEF PoolType, Slot, Fd, NoFd
    <3>2. \A t \in used : clientfd[t] <= pool.maxfd /\ t <= pool.maxi
      BY SMT, Zenon, SMTT(30) DEF PoolOK
    <3> QED  BY <3>0, <3>1, <3>2, <2>1, <1>7, <1>9, SMT, Zenon, SMTT(30)
  <2> QED  BY <2>3, <2>4, <2>5, <2>6, <2>7, <2>8, Zenon DEF PoolOK
<1>13. BacklogFits'
  <2>1. Cardinality(FreeFd \ {fd}) = Cardinality(FreeFd) - 1
    BY <1>4, FiniteSlots, FS_RemoveElement, Zenon
  <2>2. Len(backlog) - 1 <= Cardinality(FreeFd) - 1
    BY <1>6, FiniteSlots, SMT, Zenon, SMTT(30) DEF BacklogFits
  <2> QED  BY <2>1, <2>2, <1>3, <1>6, <1>8, Zenon DEF BacklogFits
<1>14. ReadyAccounted' /\ StageOK'
  BY <1>3, <1>9, <1>10, FiniteSlots, SMT, Zenon, SMTT(30) DEF ReadyAccounted, StageOK
<1> QED  BY <1>11, <1>12, <1>13, <1>14, SMT, Zenon, SMTT(30)

\* The next ready slot is taken from those to serve, and from the count.
LEMMA CheckClientPool == ASSUME PoolInv, CheckClient PROVE PoolInv'
<1> USE DEF PoolInv
<1>1. PICK s : s = Min(ToServe)
  BY Zenon
<1>2. /\ pc = "check" /\ pool.nready > 0 /\ ToServe # {} /\ i' = s /\ pc' = "line"
      /\ pool' = [pool EXCEPT !.nready = @ - 1]
      /\ clientfd' = clientfd /\ clientrio' = clientrio /\ fdt' = fdt /\ backlog' = backlog
  BY <1>1, SMT, Zenon, SMTT(30) DEF CheckClient
<1>3. s \in ToServe /\ \A t \in ToServe : s <= t
  <2>1. ToServe \subseteq Nat
    BY SMT, Zenon, SMTT(30) DEF ToServe, Slot
  <2> QED  BY <2>1, <1>1, <1>2, MinOfNats, Zenon
<1>4. /\ pool'.nready = pool.nready - 1 /\ pool'.read_set = pool.read_set
      /\ pool'.ready_set = pool.ready_set /\ pool'.maxfd = pool.maxfd /\ pool'.maxi = pool.maxi
  BY <1>2, SMT, Zenon, SMTT(30) DEF PoolType, PoolRec
<1>5. Serve(i + 1)' = ToServe \ {s}
  <2>1. ASSUME NEW t \in Slot
        PROVE  s + 1 <= t /\ t <= pool.maxi /\ clientfd[t] > 0 /\ clientfd[t] \in pool.ready_set
               <=> t \in ToServe \ {s}
    BY <1>3, SMT, Zenon, SMTT(30) DEF ToServe, Slot, PoolType
  <2> QED  BY <2>1, <1>2, <1>4, SMT, Zenon, SMTT(30) DEF Serve, ToServe
<1>6. Cardinality(ToServe \ {s}) = Cardinality(ToServe) - 1
  <2>1. ToServe = Serve(i)
    BY Zenon DEF ToServe, Serve
  <2> QED  BY <2>1, <1>3, FiniteSlots, FS_RemoveElement, Zenon
<1>7. s \in Slot /\ clientfd[s] # NoFd
  BY <1>3, SMT, Zenon, SMTT(30) DEF ToServe, NoFd
<1>8. PoolType'
  <2>0. pool.nready - 1 \in Nat
    BY <1>2, SMT, Zenon, SMTT(30) DEF PoolType, PoolRec
  <2>1. pool' \in PoolRec
    BY <2>0, <1>2, Zenon DEF PoolType, PoolRec
  <2>2. i' \in 0..FD_SETSIZE
    BY <1>2, <1>7, EchoServersAssumption, SMT, Zenon, SMTT(30) DEF Slot
  <2> QED  BY <2>1, <2>2, <1>2, Zenon DEF PoolType
<1>9. PoolOK' /\ BacklogFits'
  BY <1>2, <1>4, SMT, Zenon, SMTT(30) DEF PoolOK, BacklogFits, FreeFd
<1>10. ReadyAccounted' /\ StageOK'
  BY <1>2, <1>4, <1>5, <1>6, <1>7, Zenon DEF ReadyAccounted, StageOK
<1> QED  BY <1>8, <1>9, <1>10, SMT, Zenon, SMTT(30)

\* The loop ends when the count says so or when no slot is left: it is the same.
LEMMA CheckEndsPool == ASSUME PoolInv, CheckEnds PROVE PoolInv'
<1> USE DEF PoolInv
<1>1. /\ pc' = "select" /\ pc = "check" /\ (pool.nready = 0 \/ ToServe = {})
      /\ UNCHANGED <<pool, clientfd, clientrio, i, fdt, backlog>>
  BY SMT, Zenon, SMTT(30) DEF CheckEnds
<1>2. pool.nready = 0
  BY <1>1, FS_EmptySet, SMT, Zenon, SMTT(30) DEF ReadyAccounted
<1>3. PoolType' /\ PoolOK' /\ BacklogFits'
  BY <1>1, SMT, Zenon, SMTT(30) DEF PoolType, PoolOK, BacklogFits, FreeFd
<1> QED  BY <1>1, <1>2, <1>3, SMT, Zenon, SMTT(30) DEF ReadyAccounted, StageOK
\* What does not touch the pool, the kernel's table or the loop keeps the pool's half.
LEMMA OtherPool ==
    ASSUME PoolInv, UNCHANGED <<pool, clientfd, clientrio, fdt, backlog, pc, i>>
    PROVE  PoolInv'
<1> USE DEF PoolInv
<1>1. PoolType'
  BY Zenon DEF PoolType
<1>2. PoolOK' /\ BacklogFits'
  BY SMT, Zenon, SMTT(30) DEF PoolOK, BacklogFits, FreeFd
<1>3. ReadyAccounted' /\ StageOK'
  BY Zenon DEF ReadyAccounted, StageOK, ToServe, Serve
<1> QED  BY <1>1, <1>2, <1>3, SMT, Zenon, SMTT(30)

\* Reading a line goes on, ends in the next slot, or ends the process.
LEMMA LinePool ==
    ASSUME PoolInv, pc = "line", UNCHANGED <<pool, clientfd, clientrio, fdt, backlog>>,
           \/ pc' = "check" /\ i' = i + 1
           \/ pc' \in {"line", "killed"} /\ i' = i
    PROVE  PoolInv'
<1> USE DEF PoolInv
<1>1. i \in Slot /\ clientfd[i] # NoFd /\ pool.nready = Cardinality(Serve(i + 1))
  BY SMT, Zenon, SMTT(30) DEF StageOK
<1>2. PoolType'
  <2>1. i' \in 0..FD_SETSIZE
    BY <1>1, EchoServersAssumption, SMT, Zenon, SMTT(30) DEF Slot, PoolType
  <2>2. pc' \in {"select", "accept", "check", "line", "killed"}
    BY SMT, Zenon, SMTT(30)
  <2> QED  BY <2>1, <2>2, Zenon DEF PoolType
<1>3. PoolOK' /\ BacklogFits'
  BY SMT, Zenon, SMTT(30) DEF PoolOK, BacklogFits, FreeFd
<1>4. CASE pc' = "check" /\ i' = i + 1
  <2>1. ToServe' = Serve(i + 1)
    BY <1>4, SMT, Zenon, SMTT(30) DEF ToServe, Serve
  <2> QED  BY <1>1, <1>2, <1>3, <1>4, <2>1, Zenon DEF ReadyAccounted, StageOK
<1>5. CASE pc' \in {"line", "killed"} /\ i' = i
  <2>1. Serve(i + 1)' = Serve(i + 1)
    BY <1>5, SMT, Zenon, SMTT(30) DEF Serve
  <2>2. pc' # "check" /\ pc' # "accept" /\ pc' # "select"
    BY <1>5, SMT, Zenon, SMTT(30)
  <2> QED  BY <1>1, <1>2, <1>3, <1>5, <2>1, <2>2, Zenon DEF ReadyAccounted, StageOK
<1> QED  BY <1>4, <1>5, SMT, Zenon, SMTT(30)

\* close gives the descriptor back, FD_CLR stops watching it, and the slot is free; the
\* slots after it are as they were.
LEMMA ClosePool == ASSUME PoolInv, CloseClient PROVE PoolInv'
<1> USE DEF PoolInv
<1>1. PICK fd : fd = clientfd[i]
  BY Zenon
<1>2. /\ pc = "line" /\ pc' = "check" /\ i' = i + 1 /\ fdt' = [fdt EXCEPT ![fd] = NoClient]
      /\ pool' = [pool EXCEPT !.read_set = @ \ {fd}] /\ clientfd' = [clientfd EXCEPT ![i] = NoFd]
      /\ clientrio' = clientrio /\ backlog' = backlog
  BY <1>1, SMT, Zenon, SMTT(30) DEF CloseClient, AtEof, NothingLeft, NextSlot
<1>3. i \in Slot /\ fd # NoFd /\ pool.nready = Cardinality(Serve(i + 1))
  BY <1>1, <1>2, SMT, Zenon, SMTT(30) DEF StageOK
<1>4. fd \in Fd /\ fd \notin FreeFd /\ fd # listenfd
  BY <1>1, <1>3, SMT, Zenon, SMTT(30) DEF PoolOK, PoolType, Fd, listenfd
<1>5. FreeFd' = FreeFd \cup {fd}
  BY <1>2, <1>4, SMT, Zenon, SMTT(30) DEF FreeFd, PoolType
<1>6. /\ pool'.nready = pool.nready /\ pool'.read_set = pool.read_set \ {fd}
      /\ pool'.ready_set = pool.ready_set /\ pool'.maxfd = pool.maxfd /\ pool'.maxi = pool.maxi
  BY <1>2, SMT, Zenon, SMTT(30) DEF PoolType, PoolRec
<1>7. \A t \in Slot : clientfd'[t] = IF t = i THEN NoFd ELSE clientfd[t]
  BY <1>2, <1>3, SMT, Zenon, SMTT(30) DEF PoolType
<1>8. PoolType'
  <2>1. pool.read_set \ {fd} \in SUBSET ({listenfd} \cup Fd)
    BY SMT, Zenon, SMTT(30) DEF PoolType, PoolRec
  <2>2. pool' \in PoolRec
    BY <2>1, <1>2, Zenon DEF PoolType, PoolRec
  <2>3. i' \in 0..FD_SETSIZE
    BY <1>2, <1>3, EchoServersAssumption, SMT, Zenon, SMTT(30) DEF Slot
  <2>4. clientfd' \in [Slot -> Fd \cup {NoFd}] /\ fdt' \in [Fd -> Clients \cup {NoClient}]
    BY <1>2, Zenon DEF PoolType
  <2> QED  BY <2>2, <2>3, <2>4, <1>2, Zenon DEF PoolType
<1>9. PoolOK'
  <2> DEFINE used == {t \in Slot : clientfd[t] # NoFd}
  <2>1. {t \in Slot : clientfd'[t] # NoFd} = used \ {i}
    BY <1>7, SMT, Zenon, SMTT(30)
  <2>2. \A t, u \in used : clientfd[t] = clientfd[u] => t = u
    BY SMT, Zenon, SMTT(30) DEF PoolOK
  <2>3. {clientfd'[t] : t \in used \ {i}} = {clientfd[t] : t \in used} \ {fd}
    BY <1>1, <1>3, <1>7, <2>2, SMT, Zenon, SMTT(30)
  <2>4. \A t, u \in used \ {i} : clientfd'[t] = clientfd'[u] => t = u
    BY <1>7, <2>2, SMT, Zenon, SMTT(30)
  <2>5. {clientfd[t] : t \in used} \ {fd} = Fd \ FreeFd'
    BY <1>5, SMT, Zenon, SMTT(30) DEF PoolOK
  <2>6. pool'.read_set = {listenfd} \cup ({clientfd[t] : t \in used} \ {fd})
    BY <1>4, <1>6, SMT, Zenon, SMTT(30) DEF PoolOK
  <2>7. \A t \in used \ {i} : clientfd'[t] <= pool'.maxfd /\ t <= pool'.maxi
    BY <1>6, <1>7, SMT, Zenon, SMTT(30) DEF PoolOK
  <2> QED  BY <2>1, <2>3, <2>4, <2>5, <2>6, <2>7, Zenon DEF PoolOK
<1>10. BacklogFits'
  <2>1. Cardinality(FreeFd \cup {fd}) = Cardinality(FreeFd) + 1
    BY <1>4, FiniteSlots, FS_AddElement, Zenon
  <2>2. Len(backlog) <= Cardinality(FreeFd) + 1
    BY FiniteSlots, SMT, Zenon, SMTT(30) DEF BacklogFits, PoolType
  <2> QED  BY <2>1, <2>2, <1>2, <1>5, Zenon DEF BacklogFits
<1>11. ToServe' = Serve(i + 1)
  <2>1. \A t \in Slot : i + 1 <= t => clientfd'[t] = clientfd[t]
    BY <1>3, <1>7, SMT, Zenon, SMTT(30) DEF Slot
  <2> QED  BY <2>1, <1>2, <1>6, SMT, Zenon, SMTT(30) DEF ToServe, Serve
<1>12. ReadyAccounted' /\ StageOK'
  BY <1>2, <1>3, <1>6, <1>11, Zenon DEF ReadyAccounted, StageOK
<1> QED  BY <1>8, <1>9, <1>10, <1>12, SMT, Zenon, SMTT(30)

\* A client connects while a descriptor is left for it.
LEMMA OpenPool ==
    ASSUME PoolInv, NEW k \in Clients, OpenClientfd(k) PROVE PoolInv'
<1> USE DEF PoolInv
<1>1. /\ backlog' = Append(backlog, k) /\ Len(backlog) < Cardinality(FreeFd)
      /\ pool' = pool /\ clientfd' = clientfd /\ clientrio' = clientrio /\ pc' = pc /\ i' = i
      /\ fdt' = fdt
  BY SMT, Zenon, SMTT(30) DEF OpenClientfd, server
<1>2. backlog' \in Seq(Clients) /\ backlog' # <<>> /\ Len(backlog') = Len(backlog) + 1
  BY <1>1, AppendProperties, SMT, Zenon, SMTT(30) DEF PoolType
<1>3. PoolType' /\ PoolOK'
  <2>1. PoolType'
    BY <1>1, <1>2, ZenonT(60) DEF PoolType
  <2>2. PoolOK'
    BY <1>1, SMT, Zenon, SMTT(30) DEF PoolOK, FreeFd
  <2> QED  BY <2>1, <2>2, SMT, Zenon, SMTT(30)
<1>4. BacklogFits'
  <2>1. FreeFd' = FreeFd
    BY <1>1, SMT, Zenon, SMTT(30) DEF FreeFd
  <2>2. Len(backlog) \in Nat
    BY SMT, Zenon, SMTT(30) DEF PoolType
  <2> QED  BY <1>1, <1>2, <2>1, <2>2, FiniteSlots, SMT, Zenon, SMTT(30) DEF BacklogFits
<1>5. ReadyAccounted' /\ StageOK'
  BY <1>1, <1>2, Zenon DEF ReadyAccounted, StageOK, ToServe, Serve
<1> QED  BY <1>3, <1>4, <1>5, SMT, Zenon, SMTT(30)

\* init_pool: no connection, no slot in use, only the listening socket watched.
LEMMA InitPool == ASSUME Init PROVE PoolInv
<1>1. PoolType
  <2>1. pool \in PoolRec
    BY EchoServersAssumption, SMT, Zenon, SMTT(30) DEF Init, PoolRec, listenfd
  <2>2. 0 \in 0..FD_SETSIZE /\ <<>> \in Seq(Clients)
    BY EchoServersAssumption, SMT, Zenon, SMTT(30)
  <2>3. clientfd \in [Slot -> Fd \cup {NoFd}] /\ fdt \in [Fd -> Clients \cup {NoClient}]
    BY SMT, Zenon, SMTT(30) DEF Init
  <2> QED  BY <2>1, <2>2, <2>3, Zenon DEF Init, PoolType
<1>2. FreeFd = Fd
  BY SMT, Zenon, SMTT(30) DEF Init, FreeFd
<1>3. PoolOK
  <2>1. {s \in Slot : clientfd[s] # NoFd} = {}
    BY SMT, Zenon, SMTT(30) DEF Init
  <2>2. pool.read_set = {listenfd}
    BY SMT, Zenon, SMTT(30) DEF Init
  <2> QED  BY <2>1, <2>2, <1>2, SMT, Zenon, SMTT(30) DEF PoolOK
<1>4. BacklogFits
  BY FiniteSlots, SMT, Zenon, SMTT(30) DEF Init, BacklogFits
<1>5. pc = "select" /\ pool.nready = 0
  BY SMT, Zenon, SMTT(30) DEF Init
<1> QED  BY <1>1, <1>3, <1>4, <1>5, Zenon DEF PoolInv, ReadyAccounted, StageOK
-----------------------------------------------------------------------------
\* A part of a sequence, from within it to within it.
LEMMA PartOfSeq ==
    ASSUME NEW S, NEW s \in Seq(S), NEW m \in Nat, NEW n \in Nat, m > 0, n <= Len(s)
    PROVE  /\ SubSeq(s, m, n) \in Seq(S)
           /\ Len(SubSeq(s, m, n)) = IF m <= n THEN n - m + 1 ELSE 0
<1>1. \A j \in m..n : s[j] \in S
  BY ElementOfSeq, SMT, Zenon, SMTT(30)
<1> QED  BY <1>1, SubSeqProperties, SMT, Zenon, SMTT(30)

\* read() into an empty buffer takes some of what there is; a buffer with bytes in it
\* stays as it is.
LEMMA FillFacts ==
    ASSUME NEW r \in Seq(Char), NEW a \in Seq(Char)
    PROVE  Fill(r, a) \in Seq(Char) /\ Len(Fill(r, a)) - Len(r) \in 0..Len(a)
<1>1. CASE r # <<>>
  BY <1>1, SMT, Zenon, SMTT(30) DEF Fill
<1>2. CASE r = <<>>
  <2>1. PICK n : n = Min({Len(a), RIO_BUFSIZE})
    BY Zenon
  <2>2. n \in {Len(a), RIO_BUFSIZE} /\ \A y \in {Len(a), RIO_BUFSIZE} : n <= y
    <3>1. {Len(a), RIO_BUFSIZE} \subseteq Nat /\ {Len(a), RIO_BUFSIZE} # {}
      BY RioAssumption, SMT, Zenon, SMTT(30)
    <3> QED  BY <2>1, <3>1, MinOfNats, Zenon
  <2>3. n \in 0..Len(a)
    BY <2>2, RioAssumption, SMT, Zenon, SMTT(30)
  <2>4. SubSeq(a, 1, n) \in Seq(Char) /\ Len(SubSeq(a, 1, n)) = n
    BY <2>3, PartOfSeq, SMT, Zenon, SMTT(30)
  <2>5. Fill(r, a) = SubSeq(a, 1, n) /\ Len(r) = 0
    BY <1>2, <2>1, SMT, Zenon, SMTT(30) DEF Fill
  <2> QED  BY <2>3, <2>4, <2>5, SMT, Zenon, SMTT(30)
<1> QED  BY <1>1, <1>2, SMT, Zenon, SMTT(30)

\* rio_readlineb takes no more than there is, nor than usrbuf has room for.
LEMMA TakesFacts ==
    ASSUME NEW S, NEW r \in Seq(S), NEW T, NEW l \in Seq(T), Len(l) < MAXLINE
    PROVE  Takes(l, r) \in 0..Len(r) /\ Len(l) + Takes(l, r) < MAXLINE
<1> DEFINE M == {Len(r), (MAXLINE - 1) - Len(l)} \cup {j \in DOMAIN r : r[j] = "nl"}
<1>1. M \subseteq Nat /\ M # {}
  BY RioAssumption, SMT, Zenon, SMTT(30)
<1>2. Min(M) \in M /\ \A y \in M : Min(M) <= y
  BY <1>1, MinOfNats, ZenonT(60)
<1>3. Min(M) \in Nat /\ Min(M) <= Len(r) /\ Min(M) <= (MAXLINE - 1) - Len(l)
  BY <1>1, <1>2, SMT, Zenon, SMTT(30)
<1>4. Takes(l, r) = Min(M)
  BY Zenon DEF Takes
<1>5. Len(l) \in Nat /\ Len(r) \in Nat
  BY SMT, Zenon, SMTT(30)
<1> HIDE DEF M
<1> QED  BY <1>3, <1>4, <1>5, RioAssumption, SMT, Zenon, SMTT(30)

\* What rio_readlineb returns is the line or the line and a '\0'.
LEMMA ReturnedType == ASSUME NEW l \in Seq(Char) PROVE Returned(l) \in Seq(Byte)
<1>1. l \in Seq(Byte) /\ "nul" \in Byte
  BY SeqMonotonic, SMT, Zenon, SMTT(30) DEF Byte
<1> QED  BY <1>1, AppendProperties, SMT, Zenon, SMTT(30) DEF Returned

\* A line is read from a connection that is open.
LEMMA CurClientType == ASSUME PoolInv, pc = "line" PROVE CurClient \in Clients
BY SMT, Zenon, SMTT(30) DEF PoolInv, PoolType, PoolOK, StageOK, FreeFd, CurClient

\* What the server has not read of a client's bytes.
LEMMA UnreadFacts ==
    ASSUME StreamInv, NEW k \in Clients
    PROVE  Unread(k) \in Seq(Char) /\ Len(Unread(k)) = Len(sent[k]) - taken[k]
<1>1. /\ sent[k] \in Seq(Char) /\ taken[k] \in Nat /\ Len(sent[k]) \in Nat
      /\ taken[k] <= Len(sent[k])
  BY SMT, Zenon, SMTT(30) DEF StreamInv
<1> QED  BY <1>1, PartOfSeq, SMT, Zenon, SMTT(30) DEF Unread
\* An echo only adds to what was written to the client of the slot in hand.
LEMMA WriteFacts ==
    ASSUME Inv, pc = "line", NEW b \in Seq(Byte), Write(b)
    PROVE  /\ out' \in [Clients -> Seq(Byte)] /\ rst' \in [Clients -> {"no", "reset", "told"}]
           /\ \A k \in Clients : seen[k] <= Len(out'[k])
           /\ rio' \in Seq(Char) /\ line' \in Seq(Char) /\ Len(line') < MAXLINE
           /\ \/ pc' = "check" /\ i' = i + 1
              \/ pc' = "killed" /\ i' = i
<1>1. PICK c : c = CurClient
  BY Zenon
<1>2. c \in Clients
  BY <1>1, CurClientType, SMT, Zenon, SMTT(30) DEF Inv
<1>3. <<>> \in Seq(Char) /\ Len(<<>>) < MAXLINE
  BY RioAssumption, SMT, Zenon, SMTT(30)
<1>4. CASE /\ out' = [out EXCEPT ![c] = @ \o b]
           /\ NextSlot /\ UNCHANGED rst
  <2>1. out[c] \in Seq(Byte) /\ out[c] \o b \in Seq(Byte) /\ Len(out[c] \o b) = Len(out[c]) + Len(b)
    BY <1>2, SMT, Zenon, SMTT(30) DEF Inv, StreamInv
  <2>2. out' \in [Clients -> Seq(Byte)]
    BY <1>2, <1>4, <2>1, Zenon DEF Inv, StreamInv
  <2>3. ASSUME NEW k \in Clients PROVE seen[k] <= Len(out'[k])
    <3>1. seen[k] <= Len(out[k]) /\ seen[k] \in Nat /\ Len(out[k]) \in Nat /\ Len(b) \in Nat
      BY SMT, Zenon, SMTT(30) DEF Inv, StreamInv
    <3>2. out'[k] = IF k = c THEN out[c] \o b ELSE out[k]
      BY <1>2, <1>4, SMT, Zenon, SMTT(30) DEF Inv, StreamInv
    <3> QED  BY <2>1, <3>1, <3>2, SMT, Zenon, SMTT(30)
  <2> QED  BY <1>3, <1>4, <2>2, <2>3, SMT, Zenon, SMTT(30) DEF NextSlot, Inv, StreamInv
<1>5. CASE /\ rst' = [rst EXCEPT ![c] = "told"]
           /\ NextSlot /\ UNCHANGED out
  BY <1>2, <1>3, <1>5, SMT, Zenon, SMTT(30) DEF NextSlot, Inv, StreamInv
<1>6. CASE pc' = "killed" /\ UNCHANGED <<out, i, rio, line, rst>>
  BY <1>6, SMT, Zenon, SMTT(30) DEF Inv, StreamInv
<1> QED  BY <1>1, <1>4, <1>5, <1>6, Zenon DEF Write

\* Some of the client's bytes move from the connection to the reader and the line.
LEMMA ReadLineInv == ASSUME Inv, ReadLine PROVE Inv'
<1>1. PICK k : k = CurClient
  BY Zenon
<1>2. PICK full : full = Fill(rio, Unread(k))
  BY Zenon
<1>3. PICK n : n = Takes(line, full)
  BY Zenon
<1>4. PICK line2 : line2 = line \o SubSeq(full, 1, n)
  BY Zenon
<1>5. /\ pc = "line" /\ taken' = [taken EXCEPT ![k] = @ + Len(full) - Len(rio)]
      /\ \/ Write(Returned(line2))
         \/ /\ line' = line2 /\ rio' = SubSeq(full, n + 1, Len(full))
            /\ UNCHANGED <<out, pc, i, rst>>
      /\ UNCHANGED <<pool, clientfd, clientrio, fdt, backlog, cl, sent, fin, seen>>
  BY <1>1, <1>2, <1>3, <1>4, Zenon DEF ReadLine
<1>6. k \in Clients
  BY <1>1, <1>5, CurClientType, SMT, Zenon, SMTT(30) DEF Inv
<1>7. full \in Seq(Char) /\ Len(full) - Len(rio) \in 0..(Len(sent[k]) - taken[k])
  <2>1. Unread(k) \in Seq(Char) /\ Len(Unread(k)) = Len(sent[k]) - taken[k]
    BY <1>6, UnreadFacts, SMT, Zenon, SMTT(30) DEF Inv
  <2>2. rio \in Seq(Char)
    BY SMT, Zenon, SMTT(30) DEF Inv, StreamInv
  <2>3. full \in Seq(Char) /\ Len(full) - Len(rio) \in 0..Len(Unread(k))
    BY <2>1, <2>2, <1>2, FillFacts, Zenon
  <2> QED  BY <2>1, <2>3, SMT, Zenon, SMTT(30)
<1>8. n \in 0..Len(full) /\ Len(line) + n < MAXLINE /\ line \in Seq(Char)
  <2>1. line \in Seq(Char) /\ Len(line) < MAXLINE
    BY SMT, Zenon, SMTT(30) DEF Inv, StreamInv
  <2> QED  BY <2>1, <1>3, <1>7, TakesFacts, Zenon
<1>9. /\ SubSeq(full, 1, n) \in Seq(Char) /\ Len(SubSeq(full, 1, n)) = n
      /\ SubSeq(full, n + 1, Len(full)) \in Seq(Char)
  <2>1. Len(full) \in Nat /\ n \in Nat /\ n + 1 \in Nat /\ n + 1 > 0 /\ n <= Len(full)
    BY <1>7, <1>8, SMT, Zenon, SMTT(30)
  <2>2. SubSeq(full, 1, n) \in Seq(Char) /\ Len(SubSeq(full, 1, n)) = IF 1 <= n THEN n - 1 + 1 ELSE 0
    BY <2>1, <1>7, PartOfSeq, SMT, Zenon, SMTT(30)
  <2>3. SubSeq(full, n + 1, Len(full)) \in Seq(Char)
    BY <2>1, <1>7, PartOfSeq, SMT, Zenon, SMTT(30)
  <2> QED  BY <2>1, <2>2, <2>3, SMT, Zenon, SMTT(30)
<1>10. line2 \in Seq(Char) /\ Len(line2) = Len(line) + n
  BY <1>4, <1>8, <1>9, ConcatProperties, SMT, Zenon, SMTT(30)
<1>11. /\ out' \in [Clients -> Seq(Byte)] /\ rst' \in [Clients -> {"no", "reset", "told"}]
       /\ \A c \in Clients : seen[c] <= Len(out'[c])
       /\ rio' \in Seq(Char) /\ line' \in Seq(Char) /\ Len(line') < MAXLINE
       /\ \/ pc' = "check" /\ i' = i + 1
          \/ pc' \in {"line", "killed"} /\ i' = i
  <2>1. CASE Write(Returned(line2))
    <3>1. Returned(line2) \in Seq(Byte)
      BY <1>10, ReturnedType, SMT, Zenon, SMTT(30)
    <3> QED  BY <2>1, <3>1, <1>5, WriteFacts, Zenon
  <2>2. CASE /\ line' = line2 /\ rio' = SubSeq(full, n + 1, Len(full))
             /\ UNCHANGED <<out, pc, i, rst>>
    BY <2>2, <1>5, <1>8, <1>9, <1>10, SMT, Zenon, SMTT(30) DEF Inv, StreamInv
  <2> QED  BY <2>1, <2>2, <1>5, SMT, Zenon, SMTT(30)
<1>12. taken' \in [Clients -> Nat] /\ \A c \in Clients : taken'[c] <= Len(sent[c])
  <2>1. /\ taken \in [Clients -> Nat] /\ Len(sent[k]) \in Nat
        /\ \A c \in Clients : taken[c] <= Len(sent[c])
    BY <1>6, SMT, Zenon, SMTT(30) DEF Inv, StreamInv
  <2>2. Len(full) \in Int /\ Len(rio) \in Int
    BY <1>7, SMT, Zenon, SMTT(30) DEF Inv, StreamInv
  <2> QED  BY <2>1, <2>2, <1>5, <1>6, <1>7, SMT, Zenon, SMTT(30)
<1>13. StreamInv'
  BY <1>5, <1>11, <1>12, Zenon DEF Inv, StreamInv
<1>14. PoolInv'
  BY <1>5, <1>11, LinePool, Zenon DEF Inv
<1> QED  BY <1>13, <1>14, SMT, Zenon, SMTT(30) DEF Inv
\* The other ends of a line: the rest before end of file, a failed read, the close.
LEMMA LineEndsInv == ASSUME Inv, ReadRest \/ ReadReset \/ CloseClient PROVE Inv'
<1>1. CASE ReadRest
  <2>1. /\ pc = "line" /\ Write(Returned(line))
        /\ UNCHANGED <<pool, clientfd, clientrio, fdt, backlog, cl, sent, fin, taken, seen>>
    BY <1>1, Zenon DEF ReadRest, AtEof, NothingLeft
  <2>2. Returned(line) \in Seq(Byte)
    BY ReturnedType, SMT, Zenon, SMTT(30) DEF Inv, StreamInv
  <2>3. /\ out' \in [Clients -> Seq(Byte)] /\ rst' \in [Clients -> {"no", "reset", "told"}]
        /\ \A k \in Clients : seen[k] <= Len(out'[k])
        /\ rio' \in Seq(Char) /\ line' \in Seq(Char) /\ Len(line') < MAXLINE
        /\ \/ pc' = "check" /\ i' = i + 1
           \/ pc' = "killed" /\ i' = i
    BY <2>1, <2>2, WriteFacts, Zenon
  <2>4. StreamInv'
    BY <2>1, <2>3, Zenon DEF Inv, StreamInv
  <2>5. \/ pc' = "check" /\ i' = i + 1
        \/ pc' \in {"line", "killed"} /\ i' = i
    BY <2>3, SMT, Zenon, SMTT(30)
  <2>6. PoolInv'
    BY <2>1, <2>5, LinePool, Zenon DEF Inv
  <2> QED  BY <2>4, <2>6, SMT, Zenon, SMTT(30) DEF Inv
<1>2. CASE ReadReset
  <2>1. /\ pc = "line" /\ rst' = [rst EXCEPT ![CurClient] = "told"]
        /\ pc' = "check" /\ i' = i + 1 /\ rio' = <<>> /\ line' = <<>>
        /\ UNCHANGED <<pool, clientfd, clientrio, fdt, backlog, cl, sent, fin, taken, out, seen>>
    BY <1>2, Zenon DEF ReadReset, NothingLeft, NextSlot
  <2>2. rst' \in [Clients -> {"no", "reset", "told"}]
    BY <2>1, Zenon DEF Inv, StreamInv
  <2>3. <<>> \in Seq(Char) /\ Len(<<>>) < MAXLINE
    BY RioAssumption, SMT, Zenon, SMTT(30)
  <2>4. StreamInv'
    BY <2>1, <2>2, <2>3, Zenon DEF Inv, StreamInv
  <2>5. PoolInv'
    BY <2>1, LinePool, Zenon DEF Inv
  <2> QED  BY <2>4, <2>5, SMT, Zenon, SMTT(30) DEF Inv
<1>3. CASE CloseClient
  <2>1. /\ rio' = <<>> /\ line' = <<>>
        /\ UNCHANGED <<cl, sent, fin, rst, taken, out, seen>>
    BY <1>3, Zenon DEF CloseClient, NextSlot
  <2>2. <<>> \in Seq(Char) /\ Len(<<>>) < MAXLINE
    BY RioAssumption, SMT, Zenon, SMTT(30)
  <2>3. StreamInv'
    BY <2>1, <2>2, Zenon DEF Inv, StreamInv
  <2> QED  BY <1>3, <2>3, ClosePool, SMT, Zenon, SMTT(30) DEF Inv
<1> QED  BY <1>1, <1>2, <1>3, SMT, Zenon, SMTT(30)

\* The steps of a round between two lines.
LEMMA RoundInv == ASSUME Inv, Select \/ Accept \/ CheckClient \/ CheckEnds PROVE Inv'
<1>1. CASE Select \/ Accept \/ CheckEnds
  <2>1. UNCHANGED <<rio, line, cl, sent, fin, rst, taken, out, seen>>
    BY <1>1, SMT, Zenon, SMTT(30) DEF Select, Accept, CheckEnds
  <2>2. StreamInv'
    BY <2>1, Zenon DEF Inv, StreamInv
  <2> QED  BY <1>1, <2>2, SelectPool, AcceptPool, CheckEndsPool, SMT, Zenon, SMTT(30)
              DEF Inv
<1>2. CASE CheckClient
  <2>1. /\ rio' = clientrio[Min(ToServe)] /\ line' = <<>> /\ ToServe # {}
        /\ UNCHANGED <<cl, sent, fin, rst, taken, out, seen>>
    BY <1>2, Zenon DEF CheckClient
  <2>2. Min(ToServe) \in Slot
    <3>1. ToServe \subseteq Nat /\ ToServe \subseteq Slot
      BY SMT, Zenon, SMTT(30) DEF ToServe, Slot
    <3> QED  BY <2>1, <3>1, MinOfNats, Zenon
  <2>3. rio' \in Seq(Char) /\ line' \in Seq(Char) /\ Len(line') < MAXLINE
    BY <2>1, <2>2, RioAssumption, SMT, Zenon, SMTT(30) DEF Inv, PoolInv, PoolType
  <2>4. StreamInv'
    BY <2>1, <2>3, Zenon DEF Inv, StreamInv
  <2> QED  BY <1>2, <2>4, CheckClientPool, SMT, Zenon, SMTT(30) DEF Inv
<1> QED  BY <1>1, <1>2, SMT, Zenon, SMTT(30)

\* A client moves to another state of its loop.
LEMMA ClientMoves ==
    ASSUME Inv, NEW k \in Clients
    PROVE  /\ \A c \in ClientState :
                 c.line > 0 /\ cl' = [cl EXCEPT ![k] = c] =>
                     cl' \in [Clients -> ClientState] /\ \A d \in Clients : cl'[d].line > 0
           /\ \A p \in {"write", "exit"} :
                 cl' = [cl EXCEPT ![k].pc = p] =>
                     cl' \in [Clients -> ClientState] /\ \A d \in Clients : cl'[d].line > 0
<1>1. cl \in [Clients -> ClientState] /\ \A d \in Clients : cl[d].line > 0
  BY Zenon DEF Inv, StreamInv
<1>2. ASSUME NEW c \in ClientState, c.line > 0, cl' = [cl EXCEPT ![k] = c]
      PROVE  cl' \in [Clients -> ClientState] /\ \A d \in Clients : cl'[d].line > 0
  <2>1. cl' \in [Clients -> ClientState]
    BY <1>1, <1>2, Zenon
  <2>2. ASSUME NEW d \in Clients PROVE cl'[d] \in {c, cl[d]}
    BY <1>1, <1>2, Zenon
  <2>3. ASSUME NEW d \in Clients PROVE cl'[d].line > 0
    BY <1>1, <1>2, <2>2, Zenon
  <2> QED  BY <2>1, <2>3, Zenon
<1>3. ASSUME NEW p \in {"write", "exit"}, cl' = [cl EXCEPT ![k].pc = p]
      PROVE  cl' \in [Clients -> ClientState] /\ \A d \in Clients : cl'[d].line > 0
  <2>1. cl[k] \in ClientState /\ cl[k].line > 0
    BY <1>1, Zenon
  <2>2. [cl[k] EXCEPT !.pc = p] \in ClientState /\ [cl[k] EXCEPT !.pc = p].line > 0
    BY <2>1, SMT, Zenon, SMTT(30) DEF ClientState
  <2> QED  BY <1>2, <1>3, <2>2, Zenon
<1> QED  BY <1>2, <1>3, Zenon

\* A client connects, writes, reads, closes or is killed.
LEMMA ClientInv ==
    ASSUME Inv, NEW k \in Clients, ClientNext(k) \/ ClientDies(k) PROVE Inv'
<1>1. CASE OpenClientfd(k)
  <2>1. /\ cl' = [cl EXCEPT ![k].pc = "write"]
        /\ UNCHANGED <<rio, line, sent, fin, rst, taken, out, seen>>
    BY <1>1, SMT, Zenon, SMTT(30) DEF OpenClientfd, server
  <2>2. cl' \in [Clients -> ClientState] /\ \A c \in Clients : cl'[c].line > 0
    BY <2>1, ClientMoves, Zenon
  <2>3. StreamInv'
    BY <2>1, <2>2, Zenon DEF Inv, StreamInv
  <2> QED  BY <1>1, <2>3, OpenPool, SMT, Zenon, SMTT(30) DEF Inv
<1>2. ASSUME UNCHANGED <<server, fdt, backlog>> PROVE PoolInv' /\ rio' = rio /\ line' = line
  <2>1. UNCHANGED <<pool, clientfd, clientrio, fdt, backlog, pc, i>> /\ rio' = rio /\ line' = line
    BY <1>2, SMT, Zenon, SMTT(30) DEF server
  <2> QED  BY <2>1, OtherPool, Zenon DEF Inv
<1>3. CASE ClientWrite(k)
  <2>1. PICK text : text = Script[k][cl[k].line]
    BY Zenon
  <2>2. PICK n \in (cl[k].pos + 1)..Len(text) :
          /\ sent' = [sent EXCEPT ![k] = @ \o SubSeq(text, cl[k].pos + 1, n)]
          /\ cl' = [cl EXCEPT ![k] =
               IF n < Len(text) THEN [@ EXCEPT !.pos = n]
               ELSE [pc |-> IF k \in Patient THEN "read" ELSE "write",
                     line |-> @.line + 1, pos |-> 0]]
    BY <1>3, <2>1, Zenon DEF ClientWrite
  <2>3. /\ cl[k].line <= Len(Script[k]) /\ UNCHANGED <<server, fdt, backlog>>
        /\ UNCHANGED <<fin, rst, taken, out, seen>>
    BY <1>3, Zenon DEF ClientWrite
  <2>4. cl[k] \in ClientState /\ cl[k].line \in Nat /\ cl[k].pos \in Nat /\ cl[k].line > 0
    BY SMT, Zenon, SMTT(30) DEF Inv, StreamInv, ClientState
  <2>5. text \in Seq(Char)
    <3>1. Script[k] \in Seq(Seq(Char)) /\ cl[k].line \in 1..Len(Script[k])
      BY <2>3, <2>4, EchoServersAssumption, SMT, Zenon, SMTT(30)
    <3> QED  BY <2>1, <3>1, ElementOfSeq, Zenon
  <2>6. n \in Nat /\ n <= Len(text)
    BY <2>4, <2>5, SMT, Zenon, SMTT(30)
  <2>7. SubSeq(text, cl[k].pos + 1, n) \in Seq(Char)
    BY <2>4, <2>5, <2>6, PartOfSeq, SMT, Zenon, SMTT(30)
  <2>8. PICK part : part = SubSeq(text, cl[k].pos + 1, n)
    BY Zenon
  <2>9. /\ sent[k] \in Seq(Char) /\ sent[k] \o part \in Seq(Char)
        /\ Len(sent[k] \o part) = Len(sent[k]) + Len(part)
        /\ Len(sent[k]) \in Nat /\ Len(part) \in Nat
    <3>1. sent[k] \in Seq(Char) /\ part \in Seq(Char)
      BY <2>7, <2>8, Zenon DEF Inv, StreamInv
    <3> QED  BY <3>1, ConcatProperties, LenProperties, Zenon
  <2>10. sent' = [sent EXCEPT ![k] = @ \o part]
    BY <2>2, <2>8, ZenonT(60)
  <2>11. /\ sent' \in [Clients -> Seq(Char)]
         /\ \A c \in Clients : sent'[c] = IF c = k THEN sent[k] \o part ELSE sent[c]
    BY <2>9, <2>10, SMT, Zenon, SMTT(30) DEF Inv, StreamInv
  <2>12. \A c \in Clients : taken[c] <= Len(sent'[c])
    <3>1. \A c \in Clients : taken[c] <= Len(sent[c]) /\ taken[c] \in Nat
      BY SMT, Zenon, SMTT(30) DEF Inv, StreamInv
    <3> QED  BY <2>9, <2>11, <3>1, SMT, Zenon, SMTT(30)
  <2>13. /\ [cl[k] EXCEPT !.pos = n] \in ClientState /\ [cl[k] EXCEPT !.pos = n].line > 0
         /\ [pc |-> IF k \in Patient THEN "read" ELSE "write",
             line |-> cl[k].line + 1, pos |-> 0] \in ClientState
    BY <2>4, <2>6, SMT, Zenon, SMTT(30) DEF ClientState
  <2>14. cl' \in [Clients -> ClientState] /\ \A c \in Clients : cl'[c].line > 0
    <3>1. cl[k].line + 1 > 0
      BY <2>4, SMT, Zenon, SMTT(30)
    <3>2. CASE n < Len(text)
      BY <2>2, <2>13, <3>2, ClientMoves, Zenon
    <3>3. CASE ~(n < Len(text))
      BY <2>2, <2>13, <3>1, <3>3, ClientMoves, Zenon
    <3> QED  BY <3>2, <3>3, ZenonT(60)
  <2>15. StreamInv'
    BY <1>2, <2>3, <2>11, <2>12, <2>14, Zenon DEF Inv, StreamInv
  <2> QED  BY <1>2, <2>3, <2>15, SMT, Zenon, SMTT(30) DEF Inv
<1>4. CASE ClientRead(k)
  <2>1. PICK rest : rest = SubSeq(out[k], seen[k] + 1, Len(out[k]))
    BY Zenon
  <2>2. PICK n : n = Takes(<<>>, rest)
    BY Zenon
  <2>3. /\ seen' = [seen EXCEPT ![k] = @ + n] /\ cl' = [cl EXCEPT ![k].pc = "write"]
        /\ UNCHANGED <<server, fdt, backlog>> /\ UNCHANGED <<sent, fin, rst, taken, out>>
    BY <1>4, <2>1, <2>2, Zenon DEF ClientRead
  <2>4. out[k] \in Seq(Byte) /\ seen[k] \in Nat /\ Len(out[k]) \in Nat /\ seen[k] <= Len(out[k])
    BY SMT, Zenon, SMTT(30) DEF Inv, StreamInv
  <2>5. rest \in Seq(Byte) /\ Len(rest) = Len(out[k]) - seen[k]
    BY <2>1, <2>4, PartOfSeq, SMT, Zenon, SMTT(30)
  <2>6. n \in 0..Len(rest)
    <3>1. <<>> \in Seq(Byte) /\ Len(<<>>) < MAXLINE
      BY RioAssumption, SMT, Zenon, SMTT(30)
    <3> QED  BY <2>2, <2>5, <3>1, TakesFacts, Zenon
  <2>7. seen' \in [Clients -> Nat] /\ \A c \in Clients : seen'[c] <= Len(out[c])
    BY <2>3, <2>4, <2>5, <2>6, SMT, Zenon, SMTT(30) DEF Inv, StreamInv
  <2>8. cl' \in [Clients -> ClientState] /\ \A c \in Clients : cl'[c].line > 0
    BY <2>3, ClientMoves, Zenon
  <2>9. StreamInv'
    BY <1>2, <2>3, <2>7, <2>8, Zenon DEF Inv, StreamInv
  <2> QED  BY <1>2, <2>3, <2>9, SMT, Zenon, SMTT(30) DEF Inv
<1>5. CASE ClientExit(k) \/ ClientDies(k)
  <2>1. /\ cl' = [cl EXCEPT ![k].pc = "exit"] /\ UNCHANGED <<server, fdt, backlog>>
        /\ UNCHANGED <<sent, taken, out, seen>>
    BY <1>5, SMT, Zenon, SMTT(30) DEF ClientExit, ClientDies
  <2>2. fin' \in [Clients -> BOOLEAN] /\ rst' \in [Clients -> {"no", "reset", "told"}]
    BY <1>5, Zenon DEF ClientExit, ClientDies, Inv, StreamInv
  <2>3. cl' \in [Clients -> ClientState] /\ \A c \in Clients : cl'[c].line > 0
    BY <2>1, ClientMoves, Zenon
  <2>4. StreamInv'
    BY <1>2, <2>1, <2>2, <2>3, Zenon DEF Inv, StreamInv
  <2> QED  BY <1>2, <2>1, <2>4, SMT, Zenon, SMTT(30) DEF Inv
<1> QED  BY <1>1, <1>3, <1>4, <1>5, SMT, Zenon, SMTT(30) DEF ClientNext

\* After init_pool, before the first connection.
LEMMA InitInv == ASSUME Init PROVE Inv
<1>1. /\ rio \in Seq(Char) /\ line \in Seq(Char) /\ Len(line) < MAXLINE
      /\ cl \in [Clients -> ClientState] /\ \A k \in Clients : cl[k].line > 0
  BY RioAssumption, SMT, Zenon, SMTT(30) DEF Init, ClientState
<1>2. /\ sent \in [Clients -> Seq(Char)] /\ fin \in [Clients -> BOOLEAN]
      /\ rst \in [Clients -> {"no", "reset", "told"}]
      /\ out \in [Clients -> Seq(Byte)]
      /\ taken \in [Clients -> Nat] /\ seen \in [Clients -> Nat]
      /\ \A k \in Clients : taken[k] <= Len(sent[k]) /\ seen[k] <= Len(out[k])
  BY SMT, Zenon, SMTT(30) DEF Init
<1> QED  BY <1>1, <1>2, InitPool, ZenonT(60) DEF Inv, StreamInv

\* Every step of the server and of its clients preserves the invariant.
LEMMA NextInv == ASSUME Inv, [Next]_vars PROVE Inv'
<1>1. CASE ServerNext
  BY <1>1, RoundInv, ReadLineInv, LineEndsInv, SMT, Zenon, SMTT(30) DEF ServerNext
<1>2. CASE \E k \in Clients : ClientNext(k) \/ ClientDies(k)
  BY <1>2, ClientInv, SMT, Zenon, SMTT(30)
<1>3. CASE UNCHANGED vars
  <2>1. /\ UNCHANGED <<pool, clientfd, clientrio, fdt, backlog, pc, i>>
        /\ UNCHANGED <<rio, line, cl, sent, fin, rst, taken, out, seen>>
    BY <1>3, SMT, Zenon, SMTT(30) DEF vars, server
  <2>2. PoolInv'
    BY <2>1, OtherPool, SMT, Zenon, SMTT(30) DEF Inv
  <2>3. StreamInv'
    BY <2>1, Zenon DEF Inv, StreamInv
  <2> QED  BY <2>2, <2>3, SMT, Zenon, SMTT(30) DEF Inv
<1> QED  BY <1>1, <1>2, <1>3, SMT, Zenon, SMTT(30) DEF Next, Quiet
-----------------------------------------------------------------------------
(***************************************************************************)
(* The pool and the streams stay consistent for any number of clients,     *)
(* whatever they send and however reads and writes cut it                  *)
(* (echoservers.cc:47-137).                                                *)
(***************************************************************************)
THEOREM EchoServersInvariant == Spec => []Inv
<1>1. Init => Inv
  BY InitInv, SMT, Zenon, SMTT(30)
<1>2. Inv /\ [Next]_vars => Inv'
  BY NextInv, SMT, Zenon, SMTT(30)
<1> QED  BY <1>1, <1>2, PTL DEF Spec

(***************************************************************************)
(* Every variable has its type: nready never becomes negative, i and the   *)
(* slots stay below FD_SETSIZE, and a line never fills usrbuf beyond       *)
(* MAXLINE - 1 (echoservers.cc:57, 88-94, rio.cc:75-101).                  *)
(***************************************************************************)
THEOREM TypeCorrect == Spec => []TypeOK
<1>1. ASSUME Inv PROVE TypeOK
  <2>1. clientrio \in [Slot -> Seq(Byte)]
    BY <1>1, SMT, Zenon, SMTT(30) DEF Inv, PoolInv, PoolType
  <2>2. \A k \in Clients : taken[k] \in 0..Len(sent[k]) /\ seen[k] \in 0..Len(out[k])
    BY <1>1, SMT, Zenon, SMTT(30) DEF Inv, StreamInv
  <2> QED  BY <1>1, <2>1, <2>2, Zenon DEF Inv, PoolInv, PoolType, PoolRec, StreamInv, TypeOK
<1> QED  BY <1>1, EchoServersInvariant, PTL

(***************************************************************************)
(* The slots, the descriptor set, the high-water marks and the kernel's    *)
(* table always describe the same connections, whatever FD_SETSIZE is: no  *)
(* accepted client is left out of the pool (echoservers.cc:55-81,          *)
(* 102-105).                                                               *)
(***************************************************************************)
THEOREM PoolAlwaysOK == Spec => []PoolOK
BY EchoServersInvariant, PTL DEF Inv, PoolInv

(***************************************************************************)
(* nready, decremented in add_client and in check_clients, always counts   *)
(* the ready slots still to serve (echoservers.cc:57, 88-94).              *)
(***************************************************************************)
THEOREM ReadyAlwaysAccounted == Spec => []ReadyAccounted
BY EchoServersInvariant, PTL DEF Inv, PoolInv
=============================================================================

-------------------------- MODULE HotUpgradeProofs --------------------------
(***************************************************************************)
(* The theorems about HotUpgrade.  They hold for every number of           *)
(* descriptors, clients, connections and requests, and every message       *)
(* length and buffer size that the assumptions of HotUpgrade and InetConn  *)
(* admit; the lemmas of the modules above do the work, action by action.   *)
(***************************************************************************)
EXTENDS HotUpgradeKeptProofs, HotUpgradeBytesProofs

\* The inductive invariant holds in every reachable state of the hot upgrade.
THEOREM InductiveInvariant == Spec => []IInv
<1>1. Init => IInv
  BY InitIInv, Zenon
<1>2. IInv /\ [Next]_vars => IInv'
  BY NextIInv, Zenon
<1> QED BY <1>1, <1>2, PTL DEF Spec

\* Type correctness; in particular last_read_pos_ stays inside read_buf_ and
\* last_write_pos_ never passes the end of the reply (inet_conn.cc).
THEOREM TypeCorrect == Spec => []TypeOK
<1>1. IInv => TypeOK
  BY Zenon DEF IInv
<1> QED BY <1>1, InductiveInvariant, PTL

\* At no time do two descriptors of a process stand for the same connection, and two
\* processes do only in the window in which Old, with an empty buffer, waits for the
\* reply to the transfer: no request is ever read half by each (server.cc).
THEOREM OneReaderAlways == Spec => []OneReader
<1>1. IInv => OneReader
  BY Zenon DEF IInv
<1> QED BY <1>1, InductiveInvariant, PTL

\* Whenever Old blocks for a reply while New's end is open, exactly one message or
\* reply is on the channel: the blocking read of GetReply never waits for
\* something nobody will send (unix_client.cc).
THEOREM ReplyAlwaysMatches == Spec => []ReplyMatches
<1>1. IInv => ReplyMatches
  BY Zenon DEF IInv
<1> QED BY <1>1, InductiveInvariant, PTL

\* Both processes may hold the listening socket for a time, yet a process that goes on
\* to accept() on the blocking listening socket always finds a connection (server.cc).
THEOREM AcceptIsReady == Spec => []AcceptNeverBlocks
<1>1. IInv => AcceptNeverBlocks
  BY Zenon DEF IInv, FiredOK, AcceptNeverBlocks, ForInetListen
<1> QED BY <1>1, InductiveInvariant, PTL

\* Once Old has begun to hand over it reads no further request of any session, whatever
\* is sent to it and whoever crashes: it finishes the requests it has begun
\* (server.cc:64).
THEOREM OldReadsNoNewRequest == Spec => OldOnlyFinishes
<1>1. IInv /\ [Next]_vars => [Finishes]_vars
  BY NextFinishes, Zenon
<1> QED BY <1>1, InductiveInvariant, PTL DEF Spec, OldOnlyFinishes, Finishes

\* No interleaving of the handover with clients that come, ask and die loses a session or
\* the listening socket: it takes the end of a server process (server.cc:92-199).
THEOREM LossNeedsCrash == Spec => []LossOnlyByCrash
<1>1. Init => KInv
  BY InitKept, Zenon DEF KInv
<1>2. IInv /\ IInv' /\ KInv /\ [Next]_vars => KInv'
  BY NextKInv, Zenon
<1>3. IInv /\ KInv => LossOnlyByCrash
  BY KeptSessions, Zenon DEF KInv, LossOnlyByCrash, AllRun
<1> QED BY <1>1, <1>2, <1>3, InductiveInvariant, PTL DEF Spec

\* When the operator triggers the upgrade after New has started, New answers in time, accept()
\* does not fail and no server is killed or stopped, nobody is dropped, whenever clients
\* come, ask or die (server.cc:92-199).
THEOREM NobodyDropped ==
  ASSUME Faults \subseteq {"kill_client"} PROVE Spec => []SessionsKept
<1> DEFINE R == AllRun /\ Kept /\ TriggerOK
<1>1. Init => R
  <2>1. Init => AllRun /\ TriggerOK
    BY Names, SMT, Zenon, SMTT(30) DEF Init, AllRun, TriggerOK
  <2> QED BY <2>1, InitKept, ZenonT(60)
<1>2. IInv /\ IInv' /\ R /\ [Next]_vars => R'
  BY RunsOn, NextKept, Zenon
<1>3. IInv /\ R => SessionsKept
  BY KeptSessions, Zenon
<1> HIDE DEF R
<1> QED BY <1>1, <1>2, <1>3, InductiveInvariant, PTL DEF Spec

\* No session goes deaf, for every number of clients, connections and descriptors and
\* whatever crashes: its epoll entry (epoll.cc, server.cc:74-88, 164) waits for EPOLLOUT
\* exactly while a reply is owed, and an edge that was reported is still to be handled, is
\* being handed over or has left no unread byte behind.
THEOREM NoSessionGoesDeaf == Spec => []NeverDeaf
<1>1. Init => EInv
  BY InitEInv, SMT, Zenon, SMTT(30)
<1>2. IInv /\ IInv' /\ EInv /\ [Next]_vars => EInv'
  BY NextEInv, SMT, Zenon, SMTT(30)
<1>3. EInv => NeverDeaf
  BY SMT, Zenon, SMTT(30) DEF EInv
<1> QED BY <1>1, <1>2, <1>3, InductiveInvariant, PTL DEF Spec

\* No byte is lost, duplicated or invented while a session moves, for every number of
\* clients, connections and descriptors, every split of requests and replies into reads and
\* writes, and whatever crashes: what a client that is served has written of its request
\* and not yet read of the reply is in the socket or in one object (inet_conn.cc:30-96,
\* server.cc:92-199, client.cc:18-56).
THEOREM NoByteLost == Spec => []BytesAccounted
<1>1. Init => KInv /\ BInv
  BY InitKept, InitBInv, Zenon DEF KInv
<1>2. IInv /\ IInv' /\ KInv /\ [Next]_vars => KInv'
  BY NextKInv, Zenon
<1>3. IInv /\ IInv' /\ KInv /\ BInv /\ [Next]_vars => BInv'
  BY NextBInv, Zenon
<1>4. IInv /\ BInv => BytesAccounted
  BY BytesAccountedIs, Zenon
<1> QED BY <1>1, <1>2, <1>3, <1>4, InductiveInvariant, PTL DEF Spec

\* When nothing is killed or fails and the trigger file comes after New listens, the servers
\* implement the echo service of EchoService, for every number of clients, connections,
\* descriptors and requests: on every connection a request that was sent in full is
\* answered once and in full, and the next one comes after the answer was read, whichever
\* process reads and writes the bytes (server.cc, client.cc).  That the answer comes at all
\* is the fairness part of Invisible, which TLC checks.
THEOREM UpgradeIsInvisible == ASSUME Faults = {} PROVE Spec => Service!Safety
<1> DEFINE R == AllRun /\ Kept /\ TriggerOK /\ BInv /\ ClientsStay
<1>1. Init => R /\ Service!Init
  <2>1. Init => AllRun /\ TriggerOK
    BY Names, SMT, Zenon, SMTT(30) DEF Init, AllRun, TriggerOK
  <2> QED BY <2>1, InitKept, InitBInv, InitService, Zenon
<1>2. IInv /\ IInv' /\ R /\ [Next]_vars
      => R' /\ [Service!Next]_([c \in Conns |-> Phase(c)])
  <2>1. Faults \subseteq {"kill_client"}
    BY SMT, Zenon, SMTT(30)
  <2>2. IInv /\ R => SessionsKept
    BY KeptSessions, Zenon
  <2>3. IInv /\ IInv' /\ R /\ [Next]_vars => AllRun' /\ Kept' /\ TriggerOK' /\ BInv'
    BY <2>1, RunsOn, NextKept, NextBInv, Zenon DEF KInv
  <2> QED BY <2>2, <2>3, StepService, Zenon
<1> HIDE DEF R
<1> QED BY <1>1, <1>2, InductiveInvariant, PTL DEF Spec, Service!Safety
=============================================================================

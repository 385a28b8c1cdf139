# TLA+ verification of axlgrep.github.io

The repository is a blog with two bodies of C/C++ code: `hot_upgrade_demo/`, a pair of
echo servers that hand over a listening socket and live client sessions between two
processes, and `csapp/`, exercise programs of a systems course.  This directory models the
parts of that code in which several actors meet, checks them with TLC on small instances,
and proves with TLAPS, for all instances, the safety properties of the hot upgrade up to its
refinement of an echo service, that the shared buffer is a FIFO, and the invariants of the select
server's pool, of the forking server and of the programs with signal handlers.

## The system

### Hot upgrade (`hot_upgrade_demo/`)

`./server ./unix_client_trigger` (here **Old**) listens on TCP port 9221.  An operator
starts `./server -u` (**New**), which listens on a UNIX socket, and then creates the file
`./unix_client_trigger`.  Old looks for the file at the top of its loop, connects to New,
sends the listening descriptor in an `SCM_RIGHTS` message, blocks in `GetReply` until New has
registered it, and closes its own copy.  From then on, whenever a client session of Old
becomes readable and its read buffer is empty, Old sends the session's descriptor the same
way, waits for the reply, and closes its copy.  `./client` opens connections and sends one
request after the other, waiting for each reply.

Both servers run the same single-threaded loop (`server.cc`): trigger file, `Epoll::Poll`,
then each fired event by a chain of comparisons of descriptor *numbers*.  Everything that
is hard about the program lives in the gap between a number, the file it names, and the
epoll entry that belongs to the file.

### Shared buffer (`csapp/concurrent_program/sbuf.c`)

A ring buffer with a mutex and two counting semaphores, used by producer and consumer
threads.

### Echo server with select (`csapp/concurrent_program/echoservers.cc`)

A single-threaded server keeps its connected descriptors in the slots of a pool.  Each round
calls `select`, accepts at most one client, and reads one line from every ready descriptor with
`rio_readlineb` of `csapp/system_io/rio.cc`, a buffered and blocking reader.  The program on the
other end is `csapp/network_program/client.cc`.

### Echo server with fork (`csapp/concurrent_program/echo_serverp.cc`)

The parent accepts and forks a child per connection; a handler reaps children on SIGCHLD.

### Server that selects on its input (`csapp/concurrent_program/select.cc`)

It watches standard input and the listening socket, and serves one connection at a time.

### Handlers, job list and shell (`csapp/exceptional_control_flow/`)

Eight programs that fork and wait: `signal1.c` to `signal4.c` reap children in a SIGCHLD handler
while `main` is blocked in `read`; `waitpid1.cc` reaps in `main`; `procmask1.c` and `procmask2.c`
share a job list between `main` and the handler; `shellex.c` is a shell with foreground and
background jobs.

## Modules

| module | what it models |
|---|---|
| `InetConn` | `inet_conn.cc`: what `GetRequest` and `SendReply` do to the object for one event, as operators on byte counts |
| `HotUpgrade` | the two servers, the clients, the kernel between them; all safety and liveness properties |
| `EchoService` | the abstract service: a request sent in full is answered once, in full |
| `MCHotUpgrade` | instances for TLC: who opens which connections |
| `ConnStream` | one `InetConn` fed by a peer that pipelines; bytes have an identity |
| `SBuf` | `sbuf.c`, one step per semaphore operation and per access to shared data |
| `BoundedFifo` | the abstract bounded FIFO |
| `MCSBuf` | instances for TLC |
| `Rio` | `rio.cc`: what the buffered line reader does between two calls of `read`, as operators |
| `EchoServers` | the select server, its pool, and its clients |
| `MCEchoServers` | instances for TLC: what the clients send |
| `EchoServerp` | the forking server: parent, children, signal handler |
| `SelectServer` | `select.cc` |
| `Processes` | the eight programs of `exceptional_control_flow/` |
| `HotUpgradeInv` | the inductive invariants of `HotUpgrade` |
| `HotUpgradeInvProofs` | facts about the operators, used by all its proofs; one lemma per action: it preserves `IInv` |
| `HotUpgradeKeptProofs` | what `SessionsKept` and `NeverDeaf` rest on is preserved |
| `HotUpgradeBytesProofs` | what `BytesAccounted` rests on is preserved; every step is one of `EchoService` or none |
| `HotUpgradeProofs` | the theorems about `HotUpgrade` |
| `SBufProofs` | the invariant of `SBuf`, its theorems, and the refinement of `BoundedFifo` |
| `EchoServersProofs` | the invariant of `EchoServers` and its theorems |
| `EchoServerpProofs` | the invariant of `EchoServerp` and its theorems |
| `ProcessesProofs` | the invariant of `Processes` and its theorems |

### HotUpgrade: state and actions

`srv[p]` holds the locals of `main` and the fields of `Epoll` of server `p` and where it is:
`loop`, or blocked in the middle of a transfer.  `inet_conn_map[p]` is the key set of the map
of that name and `conn[p][fd]` the object a key points to.  `fired[p]` is what remains of the
array the last `Poll` filled.

The kernel is external to the repository and is modelled from the calls the code makes.
`fdt[p]` is a descriptor table that gives out the lowest free number.  `ep[p]` is the
interest list: an entry has a file, a mask, and the two bits that tell an edge-triggered
entry from a level-triggered one; `EPOLL_CTL_MOD` without `EPOLLET`, as `ModEvent` calls it,
makes the entry level-triggered.  `unix` is the UNIX connection with its two directions,
`backlog` the accept queue, `rx[c]` and `tx[c]` the bytes that wait on a connection for the
server and for the client, `peer[c]` the client's end.  A socket lives while a table or a
message in flight refers to it.

| code | actions |
|---|---|
| `main`, before `Poll` | `MeetNew`, `MeetNewFails` (no New: `exit(-1)`), `TransferListenFd`, `FinishListenFd` |
| `Epoll::Poll` | `Poll` |
| the four branches of `main` | `HandleInetListen`, `HandleInetListenFails` (`accept` fails: `exit(-1)`); `HandleUnixListen`, `HandleUnixListenFails`; `HandleListenFdMsg`, `HandleSessionFdMsg`, `UnixConnClose`; the session actions |
| `handle_net_event` | `TransferSessionFd`, `TransferSessionFdFails`, `CloseTransferred`, `HandleRead`, `HandleWrite`, `HandleNetError` |
| `client.cc` | `ClientConnect`, `ClientWrite`, `ClientRead`, `ClientFails`, `ClientSpins` |
| operator, crashes | `StartNew`, `CreateTrigger`, `KillNew`, `StopOld`, `KillClient` |

A blocking call splits its function into two actions (`TransferSessionFd` /
`CloseTransferred`); every other handler is one action, because the code between two system
calls is private to a single-threaded process and a system call that another process can
observe occurs at most once per handler with an effect that matters (a read and the
`epoll_ctl` after it commute with the other processes' steps).  The events of one `Poll` may be
handled in any order, which includes the order of the array.

### ConnStream

`HotUpgrade` counts bytes; `ConnStream` spells them.  A byte is `[req, pos]`, so mixing two
requests, dropping or repeating a byte is visible.  The peer sends any of the request
lengths, cut in any way, without waiting for replies, and may close at any
point, in the middle of a request too.

### SBuf

`sbuf_insert` is `InsertWait` (P slots), `Lock`, `InsertBump` (`++rear`), `InsertStore`,
`Unlock`, `InsertAnnounce` (V items); `sbuf_remove` likewise.  `front` and `rear` are C ints:
`Bump` wraps at `INT_MAX` and `Rem` is the remainder of C, which is negative for a negative
dividend.  The abstract queue `Stored` is the window of `buf` from the last place removed to the last
place inserted: a place that is counted in `rear` but not written yet is not in it, one that is
counted in `front` but not read yet still is.

`sbuf_remove` is `void` (`sbuf.c:47`): it reads the item into a local and returns nothing, although its comment
says "Remove and return the first item".  The model follows the code: `RemoveLoad` puts the item into the hands of the
thread (`Held`) and `RemoveAnnounce`, the end of the call, drops it.  `BoundedFifo` has the same shape: `Put`, `Get` by a
consumer with empty hands, `Return`.  What `IsFifo` says is therefore that every item is taken once, in order, by
one call; no caller gets it.

### EchoServers

`pool`, `clientfd` and `clientrio` are the fields of the struct; `i`, `rio` and `line` are the
locals of `check_clients` and the line under construction.  `Select` is one pass of `main` to the
next decision, `Accept` is `accept` with the whole of `add_client`, `CheckClient` picks the next
ready slot, `ReadLine` is `rio_readlineb` from one `read` to the next and, when the line is
complete, the `rio_writen` after it, `ReadRest` and `CloseClient` are its two ends of file.  It
has no step while the descriptor it reads from is silent: that is how the code blocks.
A client in `Patient` is `client.cc`, which waits for the echo of each line; the others send
everything and close their sending side.  A client in `Mortal` may be killed at any point and its
connection reset (`rst`): the bytes that have arrived are still read; then `ReadReset` is the read
that fails, which `check_clients` takes for a line of -1 bytes, and `Write` either fails unnoticed or
ends the server by SIGPIPE (`pc = "killed"`), which nothing in the code ignores.  Bytes are ordinary characters, newlines and the `'\0'`
that ends a C string.

### EchoServerp

The parent's actions are `Accept`, `Fork` or `ForkFails`, and `CloseConnfd`; none is taken while `handling`.
`Deliver`, `Reap` and `Return` are `sigchld_handler`, one step per `waitpid`.  `pending` is one
bit.  A child runs `ChildStart` (closes `listenfd`), `ChildEcho`, `ChildClose`, `ChildExit`.

### SelectServer

`Select` is `ready_set = read_set` with the `select` after it, which overwrites `read_set`; `Command`
and `Accept` are the two branches of the loop on the copy, each of which blocks when its descriptor is
not ready; `Echo` is the end of `echo` and the `close`.  `read_set` is never cleared: descriptors 1 and 2 may
be in it from the start (`Stale`), and `select` may call them ready or not.

### Processes

`prog` is chosen in `Init`; the actions of one program are those of its source.  A child may end at any
time (`Exit`) and sets `pending`, one bit.  `Deliver` starts the handler before `main` takes another step, and
makes a blocked `read` fail when it is not restarted: always restarted with `Signal` of `signal4.c`, and
either way with `signal()`, whose behaviour depends on the system (`restarts`).  `Handler1` is `handler1`,
`HandlerReap` and `HandlerReturn` are the loop of `handler2` and `handler`, one step per `waitpid`, with
`deletejob`.  `ForkLoop`, `ReadCall`, `ReadReturns`, `ReadInterrupted` and `ReadCheck` are `main` of the signal
programs: the test of `errno` is a step after the failed `read`, so a handler can come between them.
`Block`, `ForkJob`, `AddJob`, `Unblock` are `procmask2.c` (and, without the first and last, `procmask1.c`).
`Eval`, `WaitFg` and `EndOfFile` are the shell; a line is the sequence of its words.  Every `fork` may fail,
and `eval`'s `pid` is any value when it is read uninitialized.

## Runs

| run | config | shows |
|---|---|---|
| `hot_upgrade` | `HotUpgrade.cfg` | an upgrade at any moment between two clients' requests, nobody dies: no session has two readers, replies on the UNIX socket match, `accept` never blocks, no byte is lost, nobody is dropped; Old only finishes, sessions drain, and the clients see `EchoService` |
| `hot_upgrade_crash` | `HotUpgradeCrash.cfg` | the same with New or clients killed at any point, a trigger file too early, an accept too late or failing, Old stopped when idle: sessions are lost only if a server has ended; the server that is left drops a session only between two requests and in one of two known ways, and loses the listening socket only if New ended before it replied for it (`DroppedAtRest`); Old never hangs in `GetReply`, even if the clients stop |
| `hot_upgrade_split` | `HotUpgradeSplit.cfg` | one client, three requests of two header and three body bytes in any pieces, all faults: the inductive invariant holds, every byte is accounted for and no edge is missed |
| `hot_upgrade_stop` | `HotUpgradeStop.cfg` | *violation*, see Findings |
| `conn_stream` | `ConnStream.cfg` | echo and framing byte by byte, lengths 0 to 3 with room for 2 |
| `sbuf` | `SBuf.cfg` | mutual exclusion, accounting of slots and items, refinement of `BoundedFifo`, every item gets through |
| `echo_servers` | `EchoServers.cfg` | two patient clients with complete lines beside a peer that pipelines, sends a line that is too long, stops in the middle of it and may be killed: the pool is consistent, `nready` counts what is left to serve, the server catches up with everybody's bytes, the patient clients get back exactly what they sent, every descriptor is taken back, unless SIGPIPE ends the server |
| `echo_servers_two_lines`, `echo_servers_blocked` | `EchoServersTwoLines.cfg`, `EchoServersBlocked.cfg` | *violations*, see Findings |
| `echo_serverp` | `EchoServerp.cfg` | children that end at any moment and signals that coalesce: every child is reaped, every descriptor is closed by whoever holds it, a failed `fork` included |
| `processes` | `Processes.cfg` | all eight programs: children are reaped although signals coalesce, `errno` survives between `read` and its test, a program ends with an error only for the reasons the code provides for, input is processed, no job is deleted before it is added when SIGCHLD is blocked, the shell waits for its foreground jobs |
| `select` | `SelectServer.cfg` | *violation*, see Findings |

### Bounds

* Two connections: the handover is per session, and the interesting pairs are one session in
  transfer while another is accepted, read or closed.  Five descriptors are what New needs for
  its listening sockets, the UNIX connection and two sessions; a smaller table would block
  a legal step.  `MaxFd` is a bound and not the limit of the system: at the bound the model has no `accept`.  That `accept`
  fails, for this or any other reason, is the fault `"accept_fails"`.
* `MaxRounds` 2 lets a client ask before and after its session has moved; the crash run uses
  1, since a death ends the story.
* A header and body of 1 byte make requests that can be cut once; `hot_upgrade_split` uses 2
  and 3, so that a cut can be inside the header, between header and body, and twice inside the body.
  The read buffer has 3 or 5 bytes: a request fits exactly or with one to spare.
* `SBuf`: two producers, two consumers, two slots, five items: the ring wraps twice and is
  both full and empty.  `INT_MAX` is 5 too: the last item has the last number an int can hold.
* `EchoServers`: two descriptors for three clients, so that slots and numbers are reused; a
  reader of 2 bytes and lines of up to 3 (`MAXLINE` 4), so that a line takes several reads; the
  line of 4 of the peer that pipelines is cut at `MAXLINE`.  `OpenClientfd` keeps the number of connections
  below the descriptor limit.
* `EchoServerp`: three connections and two processes: two signals can coalesce, and `fork` fails
  for the third.
* `Processes`: three forks, as in the signal programs: one child can be running, one be a zombie and one
  be reaped while a signal is pending.
* `SelectServer`: two clients, so that one waits while the other is served or after it has left.

Symmetry is not used: the runs with liveness would be unsound with it.
`ConnStream.cfg` turns off deadlock checking, because a closed connection is the end, and so does
`EchoServersBlocked.cfg` and `SelectServer.cfg`, whose subject is a server that stops.  In
`HotUpgrade` the stutter `Quiet` marks the states where all clients have stopped and in `SBuf`
`Drained` the state where consumers wait for ever; `Quiet` of `EchoServers` and of `EchoServerp` is the idle server (or the killed one), `Idle` of `Processes` a program that is over, spins in `while (1)`,
or has reached the bound on forks; every other deadlock would be reported.

### Fairness

`FairSpec` asks weak fairness of each server's loop and of each client: the operating system
runs every process that can run.  `FairServers`, of the crash run, asks it of the servers only.  Nothing is asked of the operator or of crashes.  A server
blocked in `GetReply` or in `epoll_wait` has no enabled step, so fairness does not free it.
`SBuf` has weak fairness per thread, `EchoServers` for the server and for each client: a client
goes on with its input, which is what makes a blocking read end.  `EchoServerp` has it for the
parent and for each child; its clients may stay for ever.  `Processes` has it for `main`, for the handler
and for the end of each child but a job of the shell: `date` and `sleep` return.  Nobody has to type.
`SelectServer` has it for the server, for a user who goes on typing, and for clients that close in the end, so
that what it refutes is not refuted by an idle user.

## Proofs

A leaf names the backend that proves it.  `SMT, Zenon, SMTT(30)` asks the SMT solver, then Zenon, then the SMT solver again with
more time: `tlapm` gives up on a translation to SMT after five seconds, which a busy machine may need, and
the second attempt finds most of the work done.

### Hot upgrade

`HotUpgradeProofs` proves, for any sets of clients and connections, any bound on the descriptors,
any message length that fits the buffer and any set of faults:

* `InductiveInvariant`: `Spec => []IInv`;
* `TypeCorrect`: `Spec => []TypeOK`;
* `OneReaderAlways`: `Spec => []OneReader`;
* `ReplyAlwaysMatches`: `Spec => []ReplyMatches`;
* `AcceptIsReady`: `Spec => []AcceptNeverBlocks`;
* `OldReadsNoNewRequest`: `Spec => OldOnlyFinishes`;
* `LossNeedsCrash`: `Spec => []LossOnlyByCrash`;
* `NobodyDropped`: `Spec => []SessionsKept` if `Faults` has at most `"kill_client"`;
* `NoSessionGoesDeaf`: `Spec => []NeverDeaf`;
* `NoByteLost`: `Spec => []BytesAccounted`;
* `UpgradeIsInvisible`: `Spec => Service!Safety` if `Faults` is empty, that is, `HotUpgrade` implements
  `EchoService` but for its fairness.

**Assumptions.** `BufferAssumption` (a header is not empty and is shorter than the read
buffer) and `HotUpgradeAssumption` (each client has at least one connection, no two share
one, a request fits in the buffer, connections are none of the four other kinds of file).  TLC evaluates both in
every run of `MCHotUpgrade`.

**The argument.** None of these properties is inductive.  That a session has one
reader depends on what Old is waiting for, which depends on what is on the UNIX socket, which
depends on what the descriptor numbers in `main` stand for.  `IInv` (module `HotUpgradeInv`)
adds these facts:

* `NamesOK`: an epoll entry is for the file its number names now, and a listening or UNIX
  socket is open only under the number `main` remembers for it (the converse is false for
  `unix_conn_fd`, see Findings);
* `FiredOK`: an event that is still to be handled is about an open descriptor, there is one
  per descriptor, and a listen event still has a connection waiting;
* `ListenOK`: Old lets go of the listening socket before either server polls it again;
* `SessionOK`: the session Old waits for is registered and has empty buffers;
* `UnixOK`: there is one UNIX connection, carrying at most the one message Old waits for;
* `BacklogOK`: a connection in the accept queue is in no descriptor table yet;
* `RolesOK`, `BufferOK`: Old never has New's sockets; a read buffer never holds a complete
  request.

`AcceptNeverBlocks` needs the last part of `FiredOK` and of `ListenOK`: both servers hold the
listening socket between New's `AttachInetListenFd` and Old's `DetachInetListenFd`, but Old is
blocked in `GetReply` with no event left to handle, so only New takes from the queue.

`HotUpgradeInvProofs` begins with the facts about `GetRequest` and `SendReply` (positions stay in range,
what each status means) and about queues and references.  Most handlers change one descriptor of one process,
its epoll entry and its connection object: `SetSlot` and the lemmas named `Slot...` say once for all of them under which conditions each
conjunct of `IInv` survives.  Then there is one lemma per action, with a step per conjunct
that the action can disturb; `NextIInv` combines them.  `IInv` is also an invariant
of the run `hot_upgrade_split`, in which every fault is enabled.

`OldOnlyFinishes` is an action property.  It follows from `IInv` and a lemma for each action that touches a
connection object; the one that matters is `HandleReadFinishes`: a read of Old into an empty buffer would have
been `Transferable`.

**Nobody is dropped.**  `SessionsKept` is false after a crash, so it cannot be part of `IInv`.  `KInv` says that
`Kept` holds as long as both processes run.  Sessions are closed in six places, and `Kept` has what is needed to
see that each is harmless:

* `SessionTaken`: when the reply to a session is in, New has that session or its client is gone, so that Old
  may close its copy; `ListenKept` says the same of the listening socket;
* `ChannelKept`: both ends of the UNIX connection stay open and New knows its end by pointer and by number.  Hence
  `sendmsg` does not fail (`TransferSessionFdFailsNever`) and `handle_unix_event` does not give up
  (`UnixConnCloseNever`);
* `HupOK`: an `EPOLLHUP` still to be handled is for a client that has reset its connection;
* `MapOK`: every open session is in `inet_conn_map`, so `handle_net_event` always finds it;
* `ClientsKept`: a client that is there has a descriptor in some server or is in the accept queue.

`ReadKeepsUp` adds that `GetRequest` never reports an error or an end of file for a client that is there.
`NobodyDropped` then shows that both processes run on: `exit` is reached only through a fault, or by
a trigger without a listening New, which `TriggerOK` excludes.  The hypothesis is needed: each of the other
faults ends a process, and `hot_upgrade_stop` shows what follows for one of them.  No run lists `KInv`: what
the runs check is `LossOnlyByCrash` and `SessionsKept` themselves.

**No session goes deaf.**  `NeverDeaf` is about edge-triggered entries: an edge that `Poll` has reported does not
come again.  `EInv` adds what makes an event reach the right branch of `main` and leaves no edge behind:

* `IdleOK`: `session_fd`, the argument of the call that waits for a reply, is set only while Old waits;
* `NumbersOK`: `unix_listen_fd` names the UNIX listening socket and, while `unix_conn` points to it, `unix_conn_fd`
  the UNIX connection, so that an event of a session is not taken for theirs (after `unix_conn = NULL` it
  may be, see Findings: the session is then closed, not deaf);
* `ArmedOK`: an entry that waits for `EPOLLOUT` is level-triggered.

A step changes the entry of one descriptor; `TouchedEInv` reduces `EInv'` to that descriptor.  For a read that ends
with `kReadHalf`, `GetRequestIs` says that the socket is empty, hence nothing unread stays behind the edge.

**No byte is lost.**  `BytesAccounted` is about the sessions that did not die with a process.  `BInv` says which these are
(`Served`), that there is nothing on a connection before it is opened (`FreshOK`) and nothing in a process that has ended
(`ExitedOK`), and that a client between two requests has no part of one in hand (`ClientsOK`).
`Tally` is what a client in a given state expects of one connection: bytes of the request in the socket or in a read buffer, bytes of the
reply unsent or on their way.  The step that needs all of it is the handover: `OneReader` gives that a
connection has an object that is not new in one process at most, so `ConnOf` is the same before and after.

**The upgrade is invisible.**  `Phase` maps a connection to `EchoService` by the tally of its client.  With no faults
`SessionsKept` holds and `ClientsStay` (no client ends, its connections stay open), so every connection is `Served` and
`Tally` decides which action of `EchoService` a step is: the write of the last byte of a request is `Ask`, the
write of the last byte of a reply `Answer`, the read of it `Receive`, and every other step, whichever process takes
it, none.  That an answer comes at all is the fairness part of `Invisible`.

### Shared buffer

`SBufProofs` proves, for any numbers of slots, producers and consumers:

* `SBufInvariant`: `Spec => []Inv`;
* `OneThreadInside`: `Spec => []MutualExclusion`;
* `SemaphoresAgree`: `Spec => []Accounting`;
* `BufferIsFifo`: `Spec => IsFifo`, that is, `SBuf` implements `BoundedFifo`: no item is overwritten, lost or
  taken by two calls before the call that took it returns.

**Assumptions.** `SBufAssumption` (at least one slot; producers and consumers are finite, disjoint sets),
and the hypothesis `MaxItems <= INT_MAX` of each theorem: without it the counters overflow and the
theorems are false.

**The argument.** `Inv` is `TypeOK`, `MutualExclusion`, `Accounting` and `Numbered`.  `Accounting` says that
`slots`, `items`, `rear - front` and the numbers of threads at each stage of the two operations add up.  It
is what bounds `rear - front` by `n`, but it does not bound `rear` itself, and the step `++rear` keeps
its meaning only if it does not overflow.  `Numbered` closes this gap: `rear` and the producers on their way
to `InsertBump` together are the items numbered so far, hence at most `MaxItems`; it also says that a producer
inside has an item.  The sums are over sets of threads; `CountMoves` says how one thread's step changes one of them,
and `CountsAfter` gathers the five that occur.

For the refinement, `Stored` is `Window(buf, Removed, Inserted)`.  `PlacesDiffer` is the arithmetic of the
ring: two numbers less than `n` apart have different remainders.  From it, `WindowAppend` shows that a store behind the
window overwrites nothing of it and appends one item, and `WindowTail` that moving its front drops the first.
`InsertPuts` and `RemoveGets` then go through the actions: `InsertStore` is `Put`, `RemoveLoad` is
`Get`, `RemoveAnnounce` is `Return`, and every other step leaves the queue and the hands alone.  `EmptyHanded`, a
consumer holds an item only between its load and its return, is what lets `RemoveLoad` be a `Get`; `InsertBump` and `RemoveBump` do so because the thread inside is the
only one that can be between its increment and its access.

### Echo server with select

`EchoServersProofs` proves, for any clients, whatever they send, any `FD_SETSIZE` and any sizes of the buffers:

* `EchoServersInvariant`: `Spec => []Inv`;
* `TypeCorrect`: `Spec => []TypeOK`;
* `PoolAlwaysOK`: `Spec => []PoolOK`;
* `ReadyAlwaysAccounted`: `Spec => []ReadyAccounted`.

**Assumptions.** `RioAssumption` (a buffer holds at least one byte, a line at least one and its `'\0'`) and
`EchoServersAssumption` (no line of a script is empty, `FD_SETSIZE` leaves room for a connection, and the mark of a
free descriptor is no client).  As in the runs, `OpenClientfd` keeps the connections below the descriptor limit.

**The argument.** `ReadyAccounted` looks at two places of a round; `StageOK` says what `nready` counts at the other two, before
`add_client` and while a line is read.  `BacklogFits`, a descriptor for every connection that waits, is why `accept`
succeeds.  `SameCount` is the step from `select` to the slots: a ready descriptor is in one slot, so as many
slots are ready as descriptors.  `AcceptPool` needs that the new descriptor was not open when `select` looked, hence is
not taken for a ready one although its number may have been used before.  `RoomForOne` is a pigeonhole: with every slot in use two
of them would hold the same descriptor, so "Toomany clients" cannot occur.  The other half of `Inv`, about the
bytes, rests on `FillFacts` and `TakesFacts`: what `rio_readlineb` takes is there and fits into `usrbuf`.

### Echo server with fork

`EchoServerpProofs` proves, for any set of clients and any limit on processes (`EchoServerpAssumption`: the
limit is not zero, and `"none"` is no client):

* `EchoServerpInvariant`: `Spec => []Inv`;
* `TypeCorrect`: `Spec => []TypeOK`;
* `HeldOnlyByUser`: `Spec => []HeldByUser`;
* `NoZombieForgotten`: `Spec => []ZombieIsKnown`.

`Inv` adds `ConnfdOK` to the three: the parent has a connection in `connfd` exactly between `accept` and `close`.  It is why
the table `fork` copies has one connection in it, and why a failed `fork` leaves nothing open.

### Handlers, job list and shell

`ProcessesProofs` proves, for any set of the eight programs and any number of forks (`ProcessesAssumption`):

* `ProcessesInvariant`: `Spec => []Inv`;
* `TypeCorrect`: `Spec => []TypeOK`;
* `ErrorsAreForeseen`: `Spec => []ErrorOnlyByRead`;
* `ForegroundAlwaysDone`: `Spec => []ForegroundDone`;
* `AddedBeforeReaped`: `Spec => []ReapedAfterAdd`.

`Inv` adds which statements each program has (`FlowOK`), that a pid is given out once (`ChildOK`), when SIGCHLD is blocked
(`BlockOK`), and that the shell's `front` holds no job but the one it waits for (`ShellOK`).  The part that is not
obvious is `HandlerOK`.  `handler1` waits for one child per signal and would end the program if there were none:
`ZombieForEach` says that there is a zombie for the pending signal and another one for the running handler.  `signal2.c` and
`signal3.c` test `errno` after a failed `read`, and another run of the handler would overwrite it: but the handler that made
`read` fail went on until there was no child left, so no signal can come before the test.

### Only model-checked

* Liveness (`Drains`, `OldReturns`, `AllEchoed`, `AllThrough`, `ReadyIsServed`, `AllReaped`,
  `InputProcessed`, `ConnectionEnds`, and the fairness part of `Invisible`): fairness and `ENABLED` are out of the
  prover's reach.
* `EchoExact`, `Framed` and `ClosedForAReason` of `ConnStream`, and its `TypeOK`: the stream of a peer is made with
  `FlattenSeq` and the reference of `EchoExact` with `SelectSeq`.  Both are defined by recursion, and what they compute for every
  input, even that the stream is a sequence of bytes, needs an induction over data, which the installed provers cannot do.
* `DroppedAtRest` of `HotUpgrade`: a proof would need one more invariant, that a closed number `unix_conn_fd` still
  names is given to sessions with new objects only until New looks at their first event.
* `PatientExact` of `EchoServers`, for the same reason: it compares streams through `SelectSeq`.

## Findings

* **A closed descriptor number is still taken for the UNIX connection**
  (`hot_upgrade_stop`, `server.cc:175-182`).  When Old is stopped after the upgrade, New closes
  its end of the UNIX connection and sets `unix_conn` to `NULL`, but leaves `unix_conn_fd` as it
  is.  The next client that New accepts gets that number.  Its first event goes to
  `handle_unix_event`, which returns -1 because `unix_conn` is `NULL`, and the client's
  connection is closed.
* **The read buffer of a slot is copied and not written back** (`echo_servers_two_lines`,
  `echoservers.cc:90`).  What `read` took beyond the first line is lost: of two lines that arrive
  together only the first is echoed.
* **A client without a final newline stops the server** (`echo_servers_blocked`,
  `echoservers.cc:95`).  The client waits for its echo, the server for the newline, all others for
  the server.
* **`select` overwrites the set it is to watch** (`select`, `select.cc:70-71`).  The copy is made the wrong
  way round: `read_set` is given to `select` and `ready_set` is the old value.  After a round in which only
  standard input was ready the listening socket is not watched any more, and a client that connects is never
  accepted.  `concurrent_program_practice.cc:39-40` explains why the set must be initialized before each call.

Things the properties are stated around, because the code is what it is:

* After New has died Old still hands over: a failed `sendmsg` closes the session
  (`TransferSessionFdFails`), and a `GetReply` that returns because New is gone counts as a
  reply.  Hence `LossOnlyByCrash` instead of `SessionsKept` in the crash run, and `DroppedAtRest`, which
  says how much is lost: what one of the two servers closes after the other has ended, it closes between two requests.
* A trigger file without a New, and an `accept` that fails, make the server `exit(-1)` with all its sessions.
  `LossOnlyByCrash` and `DroppedAtRest` excuse the step in which a process ends.
* A client's close that arrives with the bytes of an unfinished request is not noticed while
  the entry is still edge-triggered (`NeverDeaf` says so): the session stays in the map.
* A request with an empty body is treated as end of file (`Served` in `ConnStream`).
* `front` and `rear` of `sbuf.c` are only incremented.  After `INT_MAX` items they overflow, which C leaves undefined
  and `Bump` makes a wrap-around: hence `MaxItems <= INT_MAX`, in the run and in the theorems.
* At end of file after k bytes, and at `maxlen`, `rio_readlineb` returns k + 1 (`rio.cc:83-100`), and the echo of an
  unfinished line ends with a `'\0'`: `PatientExact` is stated of clients that complete their lines.
* An echo to a client that was killed may raise SIGPIPE, which ends the server; the properties of `EchoServers` speak of
  the time before.
* `signal1.c` leaves zombies when signals coalesce, and `procmask1.c` may delete a job before it adds it: this is what
  the two programs are there to show.
* `pid = fork() == 0` in `procmask2.c:26` assigns the result of the comparison: `addjob` is called with 0 in the
  parent, and the job list never holds a child.
* The shell waits for "any child" when `fork` has failed for a foreground job, and for an uninitialized `pid`
  after `& x`, which may end it: `ErrorOnlyByRead` and `ForegroundDone` speak of the jobs it has started.

## Not modelled

The components of `PROJECT.json` list every part.  In short: `send_fd`/`recv_fd` are unused;
failures of `socket`, `bind` and `listen` end a process before it has state; a length in a
request header is a natural number; network failures other than a close or a reset are left
out.  Three system calls are simpler than they are: a client's `write` fails as soon as the server has closed the
connection (`ClientWrite`, `ClientFails`), while the kernel accepts the first one; a read of the server after a reset fails
at once (`GetRequest`), while the kernel may still give out the bytes that had arrived before it, and the next event is then an `EPOLLHUP`; and the echo of `EchoServers` never
blocks (`Write`), while a client that does not read for long enough would fill its socket and block the server.  The
first two change no property: the session is gone in either case.  The third is outside of what `AllEchoed` and
`ReadyIsServed` cover: their clients read.  The articles and pictures of the blog describe
other systems.  The exercise notes of `csapp/` are comments.  In `EchoServers`, `byte_cnt` is only
printed; `accept` at the descriptor limit is left out.  The message
"Toomany clients" cannot occur while descriptors stay below `FD_SETSIZE`, which `FD_SET` needs:
`PoolOK` gives every open descriptor one slot, and there are more slots than descriptors.  `rio_readn` and
`rio_readnb` have no caller, `sbuf_deinit` frees the memory at the end, and `network_program/server.cc` serves one
client after the other with the reader that `Rio` models.  `alarm.c`, `kill.c`, `sigint1.c`, `setjmp.c` and
`rfork.c` have one signal or one jump each, `waitpid2.c` is unfinished.  `SelectServer` and `EchoServerp` leave out what
`echo` does with the bytes, which is the subject of `EchoServers`.

## Plan

1. A `ConnStream` whose stream grows byte by byte instead of being flattened at once, so that `Framed` and
   `ClosedForAReason` become provable.
2. The sequential `network_program/server.cc`.

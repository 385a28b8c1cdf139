----------------------------- MODULE ConnStream -----------------------------
(***************************************************************************)
(* One InetConn in the event loop, fed by a peer that pipelines requests   *)
(* of any length (client.cc waits for each reply; the protocol of          *)
(* inet_conn.cc does not ask for it).  Here the bytes have an identity:    *)
(* byte pos of request req, the header bytes first.  What is followed is   *)
(* the framing: read_buf_ and its position, the reply and its position,    *)
(* and the edge-triggered registration that the first completed request    *)
(* turns into a level-triggered one (server.cc:53-90, 164).                *)
(***************************************************************************)
EXTENDS InetConn, SequencesExt

CONSTANTS
    Lengths,        \* body lengths a peer may send
    MaxRequests     \* bound: requests per connection

ASSUME StreamAssumption == Lengths \subseteq Nat /\ MaxRequests \in Nat

VARIABLES
    requests,   \* body lengths of the requests the peer sends, in order
    stream,     \* the bytes of these requests
    sent,       \* bytes of the stream that have reached the socket
    fin,        \* the peer has closed its sending side
    taken,      \* bytes the server has read
    conn, read_buf, reply,      \* the InetConn and its two buffers
    out,        \* bytes the server has written
    watch,      \* epoll entry: mask, edge-triggered, armed
    event       \* the fired event being handled, or "none"

vars == <<requests, stream, sent, fin, taken, conn, read_buf, reply, out, watch, event>>

Bytes(req, from, to) == [n \in 1..(to - from + 1) |-> [req |-> req, pos |-> from + n - 1]]

Byte == [req : 1..MaxRequests, pos : Nat]

Open == watch.mask # "NONE"

\* Buffers and positions agree, and neither buffer outgrows read_buf_.
TypeOK ==
    /\ requests \in Seq(Lengths) /\ Len(requests) <= MaxRequests
    /\ stream \in Seq(Byte)
    /\ sent \in 0..Len(stream) /\ taken \in 0..sent /\ fin \in BOOLEAN
    /\ conn \in Conn
    /\ read_buf \in Seq(Byte) /\ Len(read_buf) = conn.last_read_pos
    /\ reply \in Seq(Byte) /\ Len(reply) = conn.reply
    /\ conn.last_write_pos <= conn.reply
    /\ Len(read_buf) <= READ_BUFFER_SIZE /\ Len(reply) + HEADER_LEN <= READ_BUFFER_SIZE
    /\ out \in Seq(Byte)
    /\ watch \in [mask : {"NONE", "IN", "OUT"}, et : BOOLEAN, armed : BOOLEAN]
    /\ event \in {"none", "IN", "OUT"}
-----------------------------------------------------------------------------
\* accept, or HandleSessionFdMsg: AddEvent(fd, EPOLLIN | EPOLLET)
Init ==
    /\ requests \in UNION {[1..n -> Lengths] : n \in 1..MaxRequests}
    /\ stream = FlattenSeq([r \in DOMAIN requests |-> Bytes(r, 1, HEADER_LEN + requests[r])])
    /\ sent = 0 /\ fin = FALSE /\ taken = 0
    /\ conn = NewConn /\ read_buf = <<>> /\ reply = <<>> /\ out = <<>>
    /\ watch = [mask |-> "IN", et |-> TRUE, armed |-> TRUE]
    /\ event = "none"

Send ==
    /\ Open /\ ~fin
    /\ \E n \in 1..(Len(stream) - sent) : sent' = sent + n
    /\ watch' = [watch EXCEPT !.armed = TRUE]
    /\ UNCHANGED <<requests, stream, fin, taken, conn, read_buf, reply, out, event>>

\* The peer closes at any point, in the middle of a request too.
Close ==
    /\ Open /\ ~fin
    /\ fin' = TRUE
    /\ watch' = [watch EXCEPT !.armed = TRUE]
    /\ UNCHANGED <<requests, stream, sent, taken, conn, read_buf, reply, out, event>>

Poll ==
    /\ event = "none" /\ watch.armed
    /\ \/ watch.mask = "OUT"
       \/ watch.mask = "IN" /\ (sent > taken \/ fin)
    /\ event' = watch.mask
    /\ watch' = [watch EXCEPT !.armed = ~watch.et]
    /\ UNCHANGED <<requests, stream, sent, fin, taken, conn, read_buf, reply, out>>

ModEvent(mask) == [mask |-> mask, et |-> FALSE, armed |-> TRUE]

\* DelEvent, close, delete
Closed == [mask |-> "NONE", et |-> FALSE, armed |-> FALSE]

HandleRead ==
    /\ event = "IN"
    /\ LET avail  == SubSeq(stream, taken + 1, sent)
           header == read_buf \o SubSeq(avail, 1, HeaderBytes(conn, Len(avail)))
           request_len == IF Len(header) < HEADER_LEN THEN 0 ELSE requests[header[1].req]
           r   == GetRequest(conn, Len(avail), IF fin THEN "fin" ELSE "up", request_len)
           buf == read_buf \o SubSeq(avail, 1, r.nread)
       IN  /\ taken' = taken + r.nread
           /\ conn' = r.conn
           /\ \/ /\ r.rs = "kReadAll"
                 /\ reply' = SubSeq(buf, HEADER_LEN + 1, HEADER_LEN + request_len)
                 /\ read_buf' = <<>>
                 /\ watch' = ModEvent("OUT")
              \/ /\ r.rs = "kReadHalf"
                 /\ read_buf' = buf
                 /\ UNCHANGED <<reply, watch>>
              \/ /\ r.rs \in {"kReadClose", "kFullError"}
                 /\ read_buf' = buf
                 /\ watch' = Closed
                 /\ UNCHANGED reply
    /\ event' = "none"
    /\ UNCHANGED <<requests, stream, sent, fin, out>>

HandleWrite ==
    /\ event = "OUT"
    /\ \E n \in 1..Unsent(conn) :
          LET w == SendReply(conn, n)
          IN  /\ out' = out \o SubSeq(reply, conn.last_write_pos + 1, conn.last_write_pos + n)
              /\ conn' = w.conn
              /\ \/ w.ws = "kWriteAll" /\ reply' = <<>> /\ watch' = ModEvent("IN")
                 \/ w.ws = "kWriteHalf" /\ UNCHANGED <<reply, watch>>
    /\ event' = "none"
    /\ UNCHANGED <<requests, stream, sent, fin, taken, read_buf>>

Server == Poll \/ HandleRead \/ HandleWrite

Next == Send \/ Close \/ Server

\* The event loop runs; the peer may stop.
Spec == Init /\ [][Next]_vars /\ WF_vars(Server)
-----------------------------------------------------------------------------
\* GetRequest rejects an empty body (its read of 0 bytes looks like end of file)
\* and one that does not fit in read_buf_.
Served(len) == len > 0 /\ HEADER_LEN + len <= READ_BUFFER_SIZE

\* The bodies of the requests among the first n bytes that come before any
\* rejected one.
Bodies(n) ==
    LET Echoed(b) ==
            /\ b.pos > HEADER_LEN
            /\ \A q \in 1..b.req : Served(requests[q])
            /\ \E i \in 1..n : stream[i] = [req |-> b.req, pos |-> HEADER_LEN + requests[b.req]]
    IN  SelectSeq(SubSeq(stream, 1, n), Echoed)

(***************************************************************************)
(* However the stream is cut into reads and writes, the server writes the  *)
(* bodies of the requests it has read, in order, each byte once, nothing   *)
(* else: out is an initial part of the reference, and all of it when no    *)
(* reply is owed (inet_conn.cc:30-96).                                     *)
(***************************************************************************)
EchoExact ==
    /\ IsPrefix(out, Bodies(taken))
    /\ conn.reply = 0 => out = Bodies(taken)

(***************************************************************************)
(* Framing is never lost: between two calls read_buf_ starts with the      *)
(* first byte of a header and holds the bytes of that one request without  *)
(* a gap (inet_conn.cc:32-49, 71-75).                                      *)
(***************************************************************************)
Framed ==
    read_buf # <<>> => read_buf = Bytes(read_buf[1].req, 1, Len(read_buf))

(***************************************************************************)
(* Pipelined requests do not get stuck behind the edge: when the peer has  *)
(* stopped sending, all complete requests are answered in time, although   *)
(* GetRequest stops reading at the end of a request and only the next      *)
(* ModEvent looks at the rest (server.cc:74-88).                           *)
(***************************************************************************)
AllEchoed == <>[](out = Bodies(sent))

(***************************************************************************)
(* The connection is closed for a reason: by a request that is rejected,   *)
(* or after the peer's close, with no reply owed.                          *)
(***************************************************************************)
ClosedForAReason ==
    ~Open => /\ conn.reply = 0
             /\ \/ fin /\ taken = sent
                \/ \E r \in DOMAIN requests :
                     ~Served(requests[r]) /\ read_buf = Bytes(r, 1, HEADER_LEN)
=============================================================================

------------------------------ MODULE InetConn ------------------------------
(***************************************************************************)
(* One server-side TCP connection object of the hot upgrade demo           *)
(* (hot_upgrade_demo/inet_conn.cc).  A request on the wire is a header of  *)
(* HEADER_LEN bytes that holds the length of the body, then the body; the  *)
(* reply is the body.  The operators below are what GetRequest and         *)
(* SendReply do to the object for one readiness event: how many bytes they *)
(* take from or give to the socket, the status they return, the new        *)
(* object.  Bytes are counted, not spelled: the modules that use these     *)
(* operators decide what the bytes are.                                    *)
(***************************************************************************)
EXTENDS Naturals

CONSTANTS
    HEADER_LEN,         \* sizeof(int)
    READ_BUFFER_SIZE    \* capacity of read_buf_

ASSUME BufferAssumption ==
    /\ HEADER_LEN \in Nat \ {0}
    /\ READ_BUFFER_SIZE \in Nat
    /\ HEADER_LEN < READ_BUFFER_SIZE

\* The fields of InetConn that carry state: reply is its size.
Conn == [last_read_pos : Nat, reply : Nat, last_write_pos : Nat]

NewConn == [last_read_pos |-> 0, reply |-> 0, last_write_pos |-> 0]

EmptyReadBuf(conn) == conn.last_read_pos = 0

Least(a, b) == IF a <= b THEN a ELSE b

(***************************************************************************)
(* GetRequest: at most two reads of the non-blocking socket, one for what  *)
(* is missing of the header and one for what is missing of the body.       *)
(* avail bytes are in the socket; peer says whether the client is "up",    *)
(* has closed ("fin") or has reset the connection ("rst"); request_len is  *)
(* what the header decodes to, looked at only when the header is complete. *)
(***************************************************************************)
HeaderBytes(conn, avail) ==
    IF conn.last_read_pos < HEADER_LEN
    THEN Least(avail, HEADER_LEN - conn.last_read_pos)
    ELSE 0

\* Mutant: EAGAIN is taken for the end of the connection.
GetRequest_AgainIsClose(conn, avail, peer, request_len) ==
    LET head == HeaderBytes(conn, avail)
        pos  == conn.last_read_pos + head
        all  == avail >= (request_len + HEADER_LEN) - conn.last_read_pos
    IN  [rs |-> IF pos < HEADER_LEN THEN "kReadHalf"
                ELSE IF all THEN "kReadAll" ELSE "kReadClose",
         nread |-> IF all THEN (request_len + HEADER_LEN) - conn.last_read_pos ELSE head,
         conn |-> IF all THEN [conn EXCEPT !.last_read_pos = 0, !.reply = request_len]
                         ELSE [conn EXCEPT !.last_read_pos = pos]]

\* Mutant: one read per event, so the body waits for an event after the header's.
GetRequest_OneRead(conn, avail, peer, request_len) ==
    LET inHeader == conn.last_read_pos < HEADER_LEN
        want == (IF inHeader THEN HEADER_LEN ELSE HEADER_LEN + request_len) - conn.last_read_pos
        n    == Least(avail, want)
    IN  IF n = 0 /\ peer # "up" THEN [rs |-> "kReadClose", nread |-> 0, conn |-> conn]
        ELSE IF inHeader \/ n < want
        THEN [rs |-> "kReadHalf", nread |-> n, conn |-> [conn EXCEPT !.last_read_pos = @ + n]]
        ELSE [rs |-> "kReadAll", nread |-> n,
              conn |-> [conn EXCEPT !.last_read_pos = 0, !.reply = request_len]]

\* Mutant: the body read asks for whatever the socket holds.
GetRequest_ReadsPast(conn, avail, peer, request_len) ==
    LET pos == conn.last_read_pos + avail
    IN  IF avail = 0 /\ peer # "up" THEN [rs |-> "kReadClose", nread |-> 0, conn |-> conn]
        ELSE IF pos < HEADER_LEN + request_len \/ pos < HEADER_LEN
        THEN [rs |-> "kReadHalf", nread |-> avail, conn |-> [conn EXCEPT !.last_read_pos = pos]]
        ELSE [rs |-> "kReadAll", nread |-> avail,
              conn |-> [conn EXCEPT !.last_read_pos = 0, !.reply = request_len]]

GetRequest(conn, avail, peer, request_len) ==
    LET head    == HeaderBytes(conn, avail)
        pos     == conn.last_read_pos + head
        missing == (request_len + HEADER_LEN) - pos
        body    == Least(avail - head, missing)
        Took(rs, n) == [rs |-> rs, nread |-> n,
                        conn |-> [conn EXCEPT !.last_read_pos = @ + n]]
        \* read() gave no byte: end of file, or EAGAIN
        Nothing(n) == Took(IF peer = "fin" THEN "kReadClose" ELSE "kReadHalf", n)
    IN  CASE peer = "rst" -> Took("kReadError", 0)
          [] peer # "rst" /\ pos < HEADER_LEN ->
                IF head = 0 THEN Nothing(0) ELSE Took("kReadHalf", head)
          [] peer # "rst" /\ pos >= HEADER_LEN
             /\ request_len + HEADER_LEN > READ_BUFFER_SIZE ->
                Took("kFullError", head)
          [] OTHER ->
                IF missing = 0 THEN Took("kReadClose", head)  \* read() of 0 bytes
                ELSE IF body = 0 THEN Nothing(head)
                ELSE IF body < missing THEN Took("kReadHalf", head + body)
                ELSE [rs |-> "kReadAll", nread |-> head + body,
                      conn |-> [conn EXCEPT !.last_read_pos = 0,
                                            !.reply = request_len]]

\* SendReply: write() took n bytes of the unsent part of the reply.
Unsent(conn) == conn.reply - conn.last_write_pos

\* Mutant: last_write_pos_ is not reset with the reply.
SendReply_KeepsPos(conn, n) ==
    IF n < Unsent(conn)
    THEN [ws |-> "kWriteHalf", conn |-> [conn EXCEPT !.last_write_pos = @ + n]]
    ELSE [ws |-> "kWriteAll", conn |-> [conn EXCEPT !.reply = 0, !.last_write_pos = @ + n]]

\* Mutant: a partial write does not move last_write_pos_.
SendReply_Resends(conn, n) ==
    IF n < Unsent(conn)
    THEN [ws |-> "kWriteHalf", conn |-> conn]
    ELSE [ws |-> "kWriteAll", conn |-> [conn EXCEPT !.reply = 0, !.last_write_pos = 0]]

SendReply(conn, n) ==
    IF n < Unsent(conn)
    THEN [ws |-> "kWriteHalf", conn |-> [conn EXCEPT !.last_write_pos = @ + n]]
    ELSE [ws |-> "kWriteAll",
          conn |-> [conn EXCEPT !.reply = 0, !.last_write_pos = 0]]
=============================================================================

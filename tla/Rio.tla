-------------------------------- MODULE Rio --------------------------------
(***************************************************************************)
(* The buffered line reader of csapp/system_io/rio.cc.  A rio_t is the     *)
(* sequence of its unread bytes (rio_cnt of them from rio_bufptr on), and  *)
(* a line under construction is the sequence of bytes in usrbuf.  One      *)
(* step of rio_readlineb is what it does between two calls of read(): the  *)
(* modules that use it decide what the socket holds.  rio_writen retries   *)
(* until everything is written, so an echo is written whole.               *)
(***************************************************************************)
EXTENDS Integers, SequencesExt, FiniteSetsExt

CONSTANTS
    RIO_BUFSIZE,    \* capacity of rio_buf
    MAXLINE         \* maxlen of every call of rio_readlineb

ASSUME RioAssumption == RIO_BUFSIZE \in Nat \ {0} /\ MAXLINE \in Nat \ {0, 1}

Char == {"x", "nl"}             \* nl is '\n'
Byte == Char \cup {"nul"}       \* nul is '\0'

rio_readinitb == <<>>

\* rio_read: read() is called only when the buffer is empty; it takes what there is.
Fill(rio, avail) ==
    IF rio # <<>> THEN rio ELSE SubSeq(avail, 1, Min({Len(avail), RIO_BUFSIZE}))

\* How many unread bytes rio_readlineb takes when usrbuf already holds line.
Takes(line, rio) ==
    Min({Len(rio), (MAXLINE - 1) - Len(line)} \cup {i \in DOMAIN rio : rio[i] = "nl"})

\* The loop of rio_readlineb ends without a further read.
Ended(line) == Len(line) = MAXLINE - 1 \/ (line # <<>> /\ Last(line) = "nl")

\* Mutant: the result always counts the '\0'.
Returned_CountsNul(line) == Append(line, "nul")

\* The n bytes of usrbuf that a caller takes for the line, n being the result.
\* n counts the byte about to be stored: when the loop ends at maxlen, or at end
\* of file after some bytes, it includes the terminating '\0'.
Returned(line) ==
    IF line = <<>> \/ Last(line) = "nl" THEN line ELSE Append(line, "nul")
=============================================================================

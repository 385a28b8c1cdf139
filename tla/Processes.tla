----------------------------- MODULE Processes -----------------------------
(***************************************************************************)
(* The programs of csapp/exceptional_control_flow that create children and *)
(* wait for them: signal1.c to signal4.c (a handler for SIGCHLD beside a   *)
(* blocking read), waitpid1.cc, procmask1.c and procmask2.c (a job list    *)
(* shared with the handler) and shellex.c (a shell).  prog is the program  *)
(* that runs.  The kernel and the job list are external: SIGCHLD is one    *)
(* bit while pending, is delivered before main goes on, and is blocked     *)
(* while its handler runs.  unix_error (csapp.h:59-62) ends the program.   *)
(***************************************************************************)
EXTENDS Integers, Sequences, SequencesExt

CONSTANTS
    Progs,      \* the programs to look at
    N           \* forks tried by one program (3 in signal1.c, 10 in waitpid1.cc)

Pids == 1 .. N
Signals == {"signal1", "signal2", "signal3", "signal4"}
Procmasks == {"procmask1", "procmask2"}

ASSUME ProcessesAssumption ==
    /\ Progs \subseteq Signals \cup Procmasks \cup {"waitpid1", "shellex"}
    /\ N \in Nat \ {0}

VARIABLES
    prog,
    restarts,   \* signal() restarts a system call that its handler interrupts
    pc,         \* main
    i,          \* forks tried so far; the child of the k-th is k
    pid,        \* the variable of main (eval in shellex.c)
    errno,
    child,      \* each child: "none", "run", "zombie", "reaped"
    pending,    \* SIGCHLD is pending
    blocked,    \* main has blocked SIGCHLD
    handling,   \* the handler runs
    jobs,       \* the job list
    front,      \* shellex: the children started in the foreground so far
    input       \* there is something to read on stdin

vars == <<prog, restarts, pc, i, pid, errno, child, pending, blocked, handling,
          jobs, front, input>>
local == <<prog, restarts>>
signal == <<pending, blocked, handling>>

\* Values of main, its children and the kernel's bits.
TypeOK ==
    /\ prog \in Progs /\ restarts \in BOOLEAN
    /\ pc \in {"fork", "read", "reading", "eintr", "check", "process", "wait", "block",
               "addjob", "unblock", "prompt", "waitfg", "exit", "error"}
    /\ i \in 0 .. N /\ pid \in -1 .. N + 1
    /\ errno \in {"none", "EINTR", "ECHILD"}
    /\ child \in [Pids -> {"none", "run", "zombie", "reaped"}]
    /\ pending \in BOOLEAN /\ blocked \in BOOLEAN /\ handling \in BOOLEAN
    /\ jobs \subseteq -1 .. N /\ front \subseteq Pids
    /\ input \in BOOLEAN

Zombies == {c \in Pids : child[c] = "zombie"}
Children == Zombies \cup {c \in Pids : child[c] = "run"}
HasHandler == prog \in Signals \cup Procmasks
Restarts == restarts \/ prog = "signal4"

Alive == pc \notin {"exit", "error"}

\* Main has the processor.
MainRuns == ~handling /\ ~(pending /\ ~blocked)
-----------------------------------------------------------------------------
(* Children *)

\* A child calls exit: date ends, sleep(1) is over, a job of the shell ends.
Exit(c) ==
    /\ child[c] = "run"
    /\ child' = [child EXCEPT ![c] = "zombie"]
    /\ pending' = HasHandler
    /\ UNCHANGED <<local, pc, i, pid, errno, blocked, handling, jobs, front, input>>

\* waitpid has the child c for its caller.
Reaped(c) == child' = [child EXCEPT ![c] = "reaped"]

\* Mutant: one iteration too many.
Forked_OneMore(r) ==
    /\ i <= N /\ i' = i + 1
    /\ r \in {i + 1, -1}
    /\ child' = IF r = -1 THEN child ELSE [child EXCEPT ![r] = "run"]

\* fork() in the parent: r is what it returns, -1 when it fails
Forked(r) ==
    /\ i < N /\ i' = i + 1
    /\ r \in {i + 1, -1}
    /\ child' = IF r = -1 THEN child ELSE [child EXCEPT ![r] = "run"]
-----------------------------------------------------------------------------
(* Handlers *)

Deliver ==
    /\ Alive /\ pending /\ ~blocked /\ ~handling
    /\ pending' = FALSE /\ handling' = TRUE
    /\ pc' = IF pc = "reading" /\ ~Restarts THEN "eintr" ELSE pc
    /\ UNCHANGED <<local, i, pid, errno, child, blocked, jobs, front, input>>

\* handler1: one child for each signal.  Without any child waitpid fails.
Handler1 ==
    /\ handling /\ prog = "signal1"
    /\ IF Children = {} THEN pc' = "error" /\ UNCHANGED child
       ELSE (\E c \in Zombies : Reaped(c)) /\ UNCHANGED pc
    /\ handling' = FALSE
    /\ UNCHANGED <<local, i, pid, errno, pending, blocked, jobs, front, input>>

\* Mutant: the handler returns after one child.
HandlerReap_One ==
    /\ handling /\ prog # "signal1"
    /\ \E c \in Zombies : Reaped(c) /\ jobs' = jobs \ {c}
    /\ handling' = FALSE
    /\ UNCHANGED <<local, pc, i, pid, errno, pending, blocked, front, input>>

\* waitpid(-1, NULL, 0) > 0 in the loop of handler2 and handler, with deletejob
HandlerReap ==
    /\ handling /\ prog # "signal1"
    /\ \E c \in Zombies : Reaped(c) /\ jobs' = jobs \ {c}
    /\ UNCHANGED <<local, pc, i, pid, errno, signal, front, input>>

\* Mutant: waitpid is called with WNOHANG and does not wait for running children.
HandlerReturn_NoHang ==
    /\ handling /\ prog # "signal1" /\ Zombies = {}
    /\ errno' = IF Children = {} THEN "ECHILD" ELSE errno
    /\ handling' = FALSE
    /\ UNCHANGED <<local, pc, i, pid, child, pending, blocked, jobs, front, input>>

\* Mutant: the loop goes on when waitpid returns -1.
HandlerReturn_Never ==
    /\ handling /\ prog # "signal1" /\ Children = {}
    /\ errno' = "ECHILD"
    /\ UNCHANGED <<local, pc, i, pid, child, signal, jobs, front, input>>

\* ... and its end: there is no child any more, running ones included
HandlerReturn ==
    /\ handling /\ prog # "signal1" /\ Children = {}
    /\ errno' = "ECHILD"
    /\ handling' = FALSE
    /\ UNCHANGED <<local, pc, i, pid, child, pending, blocked, jobs, front, input>>
-----------------------------------------------------------------------------
(* signal1.c to signal4.c and waitpid1.cc *)

AfterForks == IF prog = "waitpid1" THEN "wait" ELSE "read"

ForkLoop ==
    /\ MainRuns /\ pc = "fork" /\ prog \in Signals \cup {"waitpid1"}
    /\ \E r \in -1 .. N : Forked(r)
    /\ pc' = IF i' = N THEN AfterForks ELSE "fork"
    /\ UNCHANGED <<local, pid, errno, signal, jobs, front, input>>

ReadCall ==
    /\ MainRuns /\ pc = "read"
    /\ pc' = "reading"
    /\ UNCHANGED <<local, i, pid, errno, child, signal, jobs, front, input>>

ReadReturns ==
    /\ MainRuns /\ pc = "reading" /\ input
    /\ pc' = "process"
    /\ UNCHANGED <<local, i, pid, errno, child, signal, jobs, front, input>>

\* read returns -1: errno is set when the handler has returned
ReadInterrupted ==
    /\ MainRuns /\ pc = "eintr"
    /\ errno' = "EINTR" /\ pc' = "check"
    /\ UNCHANGED <<local, i, pid, child, signal, jobs, front, input>>

\* Only signal3.c looks at errno and calls read again.
ReadCheck ==
    /\ MainRuns /\ pc = "check"
    /\ pc' = IF prog = "signal3" /\ errno = "EINTR" THEN "read" ELSE "error"
    /\ UNCHANGED <<local, i, pid, errno, child, signal, jobs, front, input>>

Wait ==
    /\ pc = "wait"
    /\ \/ \E c \in Zombies : Reaped(c) /\ UNCHANGED <<pc, errno>>
       \/ Children = {} /\ errno' = "ECHILD" /\ pc' = "exit" /\ child' = child
    /\ UNCHANGED <<local, i, pid, signal, jobs, front, input>>
-----------------------------------------------------------------------------
(* procmask1.c and procmask2.c *)

\* Mutant: SIGCHLD is not blocked, as in procmask1.c.
Block_Missing ==
    /\ MainRuns /\ pc = "block" /\ i < N
    /\ pc' = "fork"
    /\ UNCHANGED <<local, i, pid, errno, child, signal, jobs, front, input>>

Block ==
    /\ MainRuns /\ pc = "block" /\ i < N
    /\ blocked' = TRUE /\ pc' = "fork"
    /\ UNCHANGED <<local, i, pid, errno, child, pending, handling, jobs, front, input>>

\* pid = fork() == 0 of procmask2.c is the result of the comparison.
ForkJob ==
    /\ MainRuns /\ pc = "fork" /\ prog \in Procmasks
    /\ \E r \in -1 .. N :
          Forked(r) /\ pid' = IF prog = "procmask2" THEN 0 ELSE r
    /\ pc' = "addjob"
    /\ UNCHANGED <<local, errno, signal, jobs, front, input>>

AddJob ==
    /\ MainRuns /\ pc = "addjob"
    /\ jobs' = jobs \cup {pid}
    /\ pc' = IF prog = "procmask2" THEN "unblock" ELSE "fork"
    /\ UNCHANGED <<local, i, pid, errno, child, signal, front, input>>

Unblock ==
    /\ MainRuns /\ pc = "unblock"
    /\ blocked' = FALSE /\ pc' = "block"
    /\ UNCHANGED <<local, i, pid, errno, child, pending, handling, jobs, front, input>>
-----------------------------------------------------------------------------
(* shellex.c: a line is the sequence of its words *)

Words == {"job", "quit", "&"}
Lines == {<<>>} \cup {<<a>> : a \in Words} \cup {<<a, b>> : a, b \in Words}

\* argv and whether the job runs in the background
parseline(line) ==
    IF line = <<>> THEN [argv |-> line, bg |-> TRUE]
    ELSE IF Last(line) = "&" THEN [argv |-> Front(line), bg |-> TRUE]
    ELSE [argv |-> line, bg |-> FALSE]

\* eval until it returns or waits.  pid is not initialized when the first word
\* is a builtin: any value may be in it, N + 1 stands for no child's.
Eval(line) ==
    LET p == parseline(line) IN
    /\ pc = "prompt"
    /\ \/ /\ p.argv = <<>>
          /\ UNCHANGED <<pc, i, pid, child, front>>
       \/ /\ p.argv # <<>> /\ p.argv[1] = "quit"
          /\ pc' = "exit" /\ UNCHANGED <<i, pid, child, front>>
       \/ /\ p.argv # <<>> /\ p.argv[1] = "&"
          /\ pid' \in -1 .. N + 1
          /\ pc' = IF p.bg THEN "prompt" ELSE "waitfg"
          /\ UNCHANGED <<i, child, front>>
       \/ /\ p.argv # <<>> /\ p.argv[1] = "job"
          /\ \E r \in -1 .. N : Forked(r) /\ pid' = r
          /\ pc' = IF p.bg THEN "prompt" ELSE "waitfg"
          /\ front' = IF p.bg \/ pid' = -1 THEN front ELSE front \cup {pid'}
    /\ UNCHANGED <<local, errno, signal, jobs, input>>

\* Mutant: the shell waits for any child.
Awaited_Any == Children

\* The children waitpid(pid, &status, 0) waits for; 0 is the shell's own group.
Awaited == IF pid \in {-1, 0} THEN Children ELSE Children \cap {pid}

WaitFg ==
    /\ pc = "waitfg"
    /\ \/ \E c \in Awaited \cap Zombies : Reaped(c) /\ pc' = "prompt"
       \/ Awaited = {} /\ pc' = "error" /\ child' = child
    /\ UNCHANGED <<local, i, pid, errno, signal, jobs, front, input>>

EndOfFile ==
    /\ pc = "prompt" /\ pc' = "exit"
    /\ UNCHANGED <<local, i, pid, errno, child, signal, jobs, front, input>>
-----------------------------------------------------------------------------
\* The user types a line (for read; the lines of the shell are those of Eval).
Type ==
    /\ prog \in Signals /\ ~input /\ input' = TRUE
    /\ UNCHANGED <<local, pc, i, pid, errno, child, signal, jobs, front>>

Start == CASE prog = "procmask2" -> "block" [] prog = "shellex" -> "prompt" [] OTHER -> "fork"

Init ==
    /\ prog \in Progs /\ restarts \in BOOLEAN
    /\ pc = Start
    /\ i = 0 /\ pid = 0 /\ errno = "none"
    /\ child = [c \in Pids |-> "none"]
    /\ pending = FALSE /\ blocked = FALSE /\ handling = FALSE
    /\ jobs = {} /\ front = {} /\ input = FALSE

Handler == Deliver \/ Handler1 \/ HandlerReap \/ HandlerReturn

Main ==
    \/ ForkLoop \/ ReadCall \/ ReadReturns \/ ReadInterrupted \/ ReadCheck \/ Wait
    \/ Block \/ ForkJob \/ AddJob \/ Unblock
    \/ WaitFg

\* It is over, in while (1) with no child left, or at the bound on forks.
Idle ==
    /\ ~Alive \/ pc = "process" \/ (prog \in Procmasks /\ i = N /\ pc \in {"block", "fork"})
    /\ UNCHANGED vars

Next ==
    \/ Handler \/ Main
    \/ (\E line \in Lines : Eval(line)) \/ EndOfFile
    \/ (\E c \in Pids : Exit(c)) \/ Type
    \/ Idle

Spec == Init /\ [][Next]_vars

\* The scheduler runs main and its handler; children end, but a job of the
\* shell need not, and nobody has to type.
FairSpec ==
    /\ Spec
    /\ WF_vars(Handler) /\ WF_vars(Main)
    /\ \A c \in Pids : WF_vars(prog # "shellex" /\ Exit(c))
-----------------------------------------------------------------------------
(***************************************************************************)
(* unix_error is reached in no program for a reason the code does not      *)
(* provide for: handler1 always finds a zombie although signals coalesce   *)
(* (signal1.c:5), no handler comes between the failed read and the test of *)
(* errno in signal3.c:35-39 with its own ECHILD, and only a read that is   *)
(* not restarted ends signal1.c and signal2.c.  The shell is left with     *)
(* waitpid's error only when there is no foreground job.                   *)
(***************************************************************************)
ErrorOnlyByRead ==
    pc = "error" =>
        \/ prog \in {"signal1", "signal2"} /\ ~restarts /\ errno = "EINTR"
        \/ prog = "shellex" /\ front \cap Children = {}

(***************************************************************************)
(* Parent waits for foreground job to terminate (shellex.c:70): at the     *)
(* prompt every job ever started in the foreground is reaped, whatever     *)
(* background jobs have ended meanwhile.                                   *)
(***************************************************************************)
ForegroundDone == pc = "prompt" => front \cap Children = {}

(***************************************************************************)
(* With SIGCHLD blocked around fork and addjob (procmask2.c:23-33) no      *)
(* child is reaped, and its job deleted, before addjob has run for it.     *)
(***************************************************************************)
ReapedAfterAdd == prog = "procmask2" /\ pc = "addjob" => child[i] # "reaped"

(***************************************************************************)
(* Every child that ends is reaped while its parent lives, although one    *)
(* signal may stand for several children: by the loops of handler2 and     *)
(* handler, and by main in waitpid1.cc (waitpid1.cc:18-30).  signal1.c     *)
(* does not promise it, nor does the shell for its background jobs.        *)
(***************************************************************************)
AllReaped ==
    \A c \in Pids :
        child[c] = "zombie" /\ prog \notin {"signal1", "shellex"}
            ~> child[c] = "reaped" \/ pc = "error"

(***************************************************************************)
(* What the user types is processed (signal3.c:41, signal4.c:50) however   *)
(* often the handler interrupts read and however long it waits for         *)
(* children.                                                               *)
(***************************************************************************)
InputProcessed == input ~> pc \in {"process", "error"}
=============================================================================

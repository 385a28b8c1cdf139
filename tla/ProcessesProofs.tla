-------------------------- MODULE ProcessesProofs --------------------------
(***************************************************************************)
(* The programs of csapp/exceptional_control_flow for any number of forks: *)
(* the safety properties of Processes and the invariant they follow from.  *)
(***************************************************************************)
EXTENDS Processes, TLAPS

\* The statements each program has.
FlowOK ==
    /\ prog \in Signals =>
          pc \in {"fork", "read", "reading", "eintr", "check", "process", "error"}
    /\ prog = "waitpid1" => pc \in {"fork", "wait", "exit"}
    /\ prog = "procmask1" => pc \in {"fork", "addjob"}
    /\ prog = "procmask2" => pc \in {"block", "fork", "addjob", "unblock"}
    /\ prog = "shellex" => pc \in {"prompt", "waitfg", "exit", "error"}

\* A pid is given to one child; a program with a job list adds the one it has forked.
ChildOK ==
    /\ \A c \in Pids : c > i => child[c] = "none"
    /\ pc = "addjob" => i \in Pids /\ pid \in -1 .. N

\* Only procmask2 blocks SIGCHLD, and it does so before the fork.
BlockOK ==
    /\ prog # "procmask2" => ~blocked
    /\ prog = "procmask2" /\ pc \in {"fork", "addjob", "unblock"} => blocked /\ ~handling

\* There is a zombie for a pending signal and another one for a running handler1.
ZombieForEach ==
    /\ pending \/ handling => Zombies # {}
    /\ pending /\ handling => \E c, d \in Zombies : c # d

\* What a handler leaves to main.  The loop of handler2 ends when there is no child any
\* more, so between a failed read and the test of errno no signal can come.
HandlerOK ==
    /\ ~HasHandler => ~pending /\ ~handling
    /\ prog = "signal1" => ZombieForEach
    /\ pc \in {"eintr", "check"} => ~Restarts
    /\ pc = "check" => errno = "EINTR"
    /\ prog \in {"signal2", "signal3"} =>
          /\ pc = "eintr" /\ ~handling => Children = {}
          /\ pc = "check" => Children = {} /\ ~pending /\ ~handling
    /\ pc = "error" => ~handling

\* The foreground job the shell waits for is the only one.
ShellOK ==
    /\ front \subseteq 1 .. i
    /\ pc = "waitfg" => front \cap Children \subseteq {pid}

\* The invariant every step of main, of a handler and of a child preserves.
Inv ==
    /\ TypeOK /\ FlowOK /\ ChildOK /\ BlockOK /\ HandlerOK /\ ShellOK
    /\ ErrorOnlyByRead /\ ForegroundDone /\ ReapedAfterAdd

\* The programs modelled.
LEMMA ProgIs ==
    ASSUME TypeOK
    PROVE  prog \in {"signal1", "signal2", "signal3", "signal4", "waitpid1", "procmask1",
                     "procmask2", "shellex"}
BY ProcessesAssumption, SMT, Zenon, SMTT(30) DEF TypeOK, Signals, Procmasks

\* What is said of the shell is not disturbed by the other programs.
LEMMA NotTheShell ==
    ASSUME Inv, prog # "shellex", prog' = prog, TypeOK', FlowOK', front' = front,
           i' = i \/ i' = i + 1
    PROVE  ShellOK' /\ ForegroundDone'
<1>1. pc' \notin {"prompt", "waitfg"}
  <2>1. prog' \in {"signal1", "signal2", "signal3", "signal4", "waitpid1", "procmask1",
                   "procmask2"}
    BY ProgIs, SMT, Zenon, SMTT(30) DEF Inv
  <2> QED  BY <2>1, SMT, Zenon, SMTT(30) DEF FlowOK, Signals
<1>2. front' \subseteq 1 .. i'
  BY SMT, Zenon, SMTT(30) DEF Inv, ShellOK, TypeOK
<1> QED  BY <1>1, <1>2, Zenon DEF ShellOK, ForegroundDone

\* The shell has no handler.
LEMMA ShellHandlesNothing ==
    ASSUME Inv, prog = "shellex", UNCHANGED <<local, signal>>, FlowOK'
    PROVE  HandlerOK' /\ BlockOK'
<1>1. ~HasHandler /\ ~HasHandler'
  BY SMT, Zenon, SMTT(30) DEF HasHandler, Signals, Procmasks, local
<1>2. pc' \in {"prompt", "waitfg", "exit", "error"} /\ ~pending' /\ ~handling' /\ ~blocked'
  BY <1>1, SMT, Zenon, SMTT(30) DEF Inv, FlowOK, HandlerOK, BlockOK, local, signal
<1> QED  BY <1>1, <1>2, SMT, Zenon, SMTT(30) DEF HandlerOK, BlockOK, local

\* Starting the handler preserves the invariant: it takes the signal, and a read it
\* interrupts fails unless it is restarted.
LEMMA DeliverInv ==
    ASSUME Inv, Deliver PROVE Inv'
<1>1. HasHandler
  BY SMT, Zenon, SMTT(30) DEF Inv, HandlerOK, Deliver
<1>2. TypeOK'
  BY ProcessesAssumption, ZenonT(30) DEF Inv, TypeOK, Pids, Deliver, Alive, local, signal
<1>3. FlowOK' /\ BlockOK'
  BY <1>1, SMT, Zenon, SMTT(30)
     DEF Inv, FlowOK, BlockOK, HasHandler, Signals, Procmasks, Deliver,
     Alive, local, signal
<1>4. ChildOK' /\ ReapedAfterAdd'
  BY <1>1, ProcessesAssumption, SMT, Zenon, SMTT(30)
     DEF Inv, TypeOK, FlowOK, ChildOK, BlockOK,
     ReapedAfterAdd, HasHandler, Signals, Procmasks, Pids, Deliver, Alive, local, signal
<1>5. HandlerOK'
  BY <1>1, SMT, Zenon, SMTT(30)
     DEF Inv, TypeOK, FlowOK, BlockOK, HandlerOK, ZombieForEach, Zombies,
     Children, Restarts, HasHandler, Signals, Procmasks, Pids, Deliver, Alive, local, signal
<1>6. ErrorOnlyByRead'
  BY <1>1, SMT, Zenon, SMTT(30)
     DEF Inv, TypeOK, FlowOK, HandlerOK, ErrorOnlyByRead, Zombies, Children,
     Restarts, HasHandler, Signals, Procmasks, Pids, Deliver, Alive, local, signal
<1>7. ShellOK' /\ ForegroundDone'
  BY <1>1, <1>2, <1>3, NotTheShell, SMT, Zenon, SMTT(30)
     DEF HasHandler, Signals, Procmasks, Deliver,
     Alive, local, signal
<1> QED  BY <1>2, <1>3, <1>4, <1>5, <1>6, <1>7, Zenon DEF Inv

\* handler1 preserves the invariant: there is a zombie for every signal it was started for.
LEMMA Handler1Inv ==
    ASSUME Inv, Handler1 PROVE Inv'
<1>1. prog = "signal1" /\ Zombies # {}
  BY SMT, Zenon, SMTT(30) DEF Inv, HandlerOK, ZombieForEach, Handler1
<1>2. TypeOK'
  BY ProcessesAssumption, ZenonT(60) DEF Inv, TypeOK, Zombies, Pids, Handler1, Reaped,
     local, signal
<1>3. FlowOK' /\ BlockOK'
  BY <1>1, SMT, Zenon, SMTT(30) DEF Inv, FlowOK, BlockOK, Handler1, Reaped, local, signal
<1>4. ChildOK' /\ ReapedAfterAdd'
  BY <1>1, ProcessesAssumption, SMT, Zenon, SMTT(30)
     DEF Inv, TypeOK, FlowOK, ChildOK, BlockOK,
     ReapedAfterAdd, Zombies, Pids, Handler1, Reaped, local, signal
<1>5. HandlerOK'
  BY <1>1, ZenonT(60) DEF Inv, TypeOK, FlowOK, BlockOK, HandlerOK, ZombieForEach, Zombies,
     Children, Restarts, HasHandler, Signals, Procmasks, Pids, Handler1, Reaped, local,
     signal
<1>6. ErrorOnlyByRead'
  BY <1>1, SMT, Zenon, SMTT(30)
     DEF Inv, TypeOK, FlowOK, HandlerOK, ErrorOnlyByRead, Zombies, Children,
     Restarts, HasHandler, Signals, Procmasks, Pids, Handler1, Reaped, local, signal
<1>7. ShellOK' /\ ForegroundDone'
  BY <1>1, <1>2, <1>3, NotTheShell, SMT, Zenon, SMTT(30) DEF Handler1, Reaped, local, signal
<1> QED  BY <1>2, <1>3, <1>4, <1>5, <1>6, <1>7, Zenon DEF Inv

\* One more child reaped by the loop of handler2 preserves the invariant.
LEMMA HandlerReapInv ==
    ASSUME Inv, HandlerReap PROVE Inv'
<1>1. HasHandler /\ prog # "signal1"
  BY SMT, Zenon, SMTT(30) DEF Inv, HandlerOK, HandlerReap
<1>2. TypeOK'
  BY ProcessesAssumption, ZenonT(60) DEF Inv, TypeOK, Zombies, Pids, HandlerReap, Reaped,
     local, signal
<1>3. FlowOK' /\ BlockOK'
  BY <1>1, SMT, Zenon, SMTT(30)
     DEF Inv, FlowOK, BlockOK, HasHandler, Signals, Procmasks, HandlerReap,
     Reaped, local, signal
<1>4. ChildOK' /\ ReapedAfterAdd'
  BY <1>1, ProcessesAssumption, SMT, Zenon, SMTT(30)
     DEF Inv, TypeOK, FlowOK, ChildOK, BlockOK,
     ReapedAfterAdd, HasHandler, Signals, Procmasks, Zombies, Pids, HandlerReap, Reaped,
     local, signal
<1>5. HandlerOK'
  BY <1>1, SMT, Zenon, SMTT(30)
     DEF Inv, TypeOK, FlowOK, BlockOK, HandlerOK, ZombieForEach, Zombies,
     Children, Restarts, HasHandler, Signals, Procmasks, Pids, HandlerReap, Reaped, local,
     signal
<1>6. ErrorOnlyByRead'
  BY <1>1, SMT, Zenon, SMTT(30)
     DEF Inv, TypeOK, FlowOK, HandlerOK, ErrorOnlyByRead, Zombies, Children,
     Restarts, HasHandler, Signals, Procmasks, Pids, HandlerReap, Reaped, local, signal
<1>7. ShellOK' /\ ForegroundDone'
  BY <1>1, <1>2, <1>3, NotTheShell, SMT, Zenon, SMTT(30) DEF HasHandler, Signals, Procmasks,
     HandlerReap, Reaped, local, signal
<1> QED  BY <1>2, <1>3, <1>4, <1>5, <1>6, <1>7, Zenon DEF Inv

\* The end of that loop preserves the invariant: errno is ECHILD, which main is not about
\* to look at, because there is no child left.
LEMMA HandlerReturnInv ==
    ASSUME Inv, HandlerReturn PROVE Inv'
<1>1. HasHandler /\ prog # "signal1"
  BY SMT, Zenon, SMTT(30) DEF Inv, HandlerOK, HandlerReturn
<1>2. TypeOK'
  BY ProcessesAssumption, ZenonT(30) DEF Inv, TypeOK, Pids, HandlerReturn, local, signal
<1>3. FlowOK' /\ BlockOK'
  BY <1>1, SMT, Zenon, SMTT(30)
     DEF Inv, FlowOK, BlockOK, HasHandler, Signals, Procmasks, HandlerReturn,
     local, signal
<1>4. ChildOK' /\ ReapedAfterAdd'
  BY <1>1, ProcessesAssumption, SMT, Zenon, SMTT(30)
     DEF Inv, TypeOK, FlowOK, ChildOK, BlockOK,
     ReapedAfterAdd, HasHandler, Signals, Procmasks, Pids, HandlerReturn, local, signal
<1>5. HandlerOK'
  BY <1>1, SMT, Zenon, SMTT(30)
     DEF Inv, TypeOK, FlowOK, BlockOK, HandlerOK, ZombieForEach, Zombies,
     Children, Restarts, HasHandler, Signals, Procmasks, Pids, HandlerReturn, local, signal
<1>6. ErrorOnlyByRead'
  BY <1>1, SMT, Zenon, SMTT(30)
     DEF Inv, TypeOK, FlowOK, HandlerOK, ErrorOnlyByRead, Zombies, Children,
     Restarts, HasHandler, Signals, Procmasks, Pids, HandlerReturn, local, signal
<1>7. ShellOK' /\ ForegroundDone'
  BY <1>1, <1>2, <1>3, NotTheShell, SMT, Zenon, SMTT(30) DEF HasHandler, Signals, Procmasks,
     HandlerReturn, local, signal
<1> QED  BY <1>2, <1>3, <1>4, <1>5, <1>6, <1>7, Zenon DEF Inv

\* The loop of forks in signal1.c to signal4.c and waitpid1.cc preserves the invariant.
LEMMA ForkLoopInv ==
    ASSUME Inv, ForkLoop PROVE Inv'
<1>1. prog \in Signals \cup {"waitpid1"}
  BY SMT, Zenon, SMTT(30) DEF ForkLoop
<1>2. TypeOK'
  BY ProcessesAssumption, SMT, Zenon, SMTT(30)
     DEF Inv, TypeOK, Pids, ForkLoop, Forked, AfterForks, local, signal
<1>3. FlowOK' /\ BlockOK'
  BY <1>1, SMT, Zenon, SMTT(30)
     DEF Inv, FlowOK, BlockOK, Signals, ForkLoop, Forked, AfterForks,
     MainRuns, local, signal
<1>4. ChildOK' /\ ReapedAfterAdd'
  BY <1>1, ProcessesAssumption, SMT, Zenon, SMTT(30)
     DEF Inv, TypeOK, FlowOK, ChildOK, BlockOK,
     ReapedAfterAdd, Signals, Pids, ForkLoop, Forked, AfterForks, MainRuns, local, signal
<1>5. HandlerOK'
  BY <1>1, SMT, Zenon, SMTT(30)
     DEF Inv, TypeOK, FlowOK, BlockOK, HandlerOK, ZombieForEach, Zombies,
     Children, Restarts, HasHandler, Signals, Procmasks, Pids, ForkLoop, Forked, AfterForks,
     MainRuns, local, signal
<1>6. ErrorOnlyByRead'
  BY <1>1, SMT, Zenon, SMTT(30)
     DEF Inv, TypeOK, FlowOK, HandlerOK, ErrorOnlyByRead, Zombies, Children,
     Restarts, HasHandler, Signals, Procmasks, Pids, ForkLoop, Forked, AfterForks, MainRuns,
     local, signal
<1>7. ShellOK' /\ ForegroundDone'
  BY <1>1, <1>2, <1>3, NotTheShell, SMT, Zenon, SMTT(30)
     DEF Signals, ForkLoop, Forked, AfterForks,
     local, signal
<1> QED  BY <1>2, <1>3, <1>4, <1>5, <1>6, <1>7, Zenon DEF Inv

\* Calling read preserves the invariant.
LEMMA ReadCallInv ==
    ASSUME Inv, ReadCall PROVE Inv'
<1>1. prog \in Signals
  BY ProgIs, SMT, Zenon, SMTT(30) DEF Inv, FlowOK, Signals, ReadCall
<1>2. TypeOK'
  BY ProcessesAssumption, SMT, Zenon, SMTT(30)
     DEF Inv, TypeOK, Pids, ReadCall, local, signal
<1>3. FlowOK' /\ BlockOK'
  BY <1>1, SMT, Zenon, SMTT(30)
     DEF Inv, FlowOK, BlockOK, Signals, ReadCall, MainRuns, local, signal
<1>4. ChildOK' /\ ReapedAfterAdd'
  BY <1>1, ProcessesAssumption, SMT, Zenon, SMTT(30)
     DEF Inv, TypeOK, FlowOK, ChildOK, BlockOK,
     ReapedAfterAdd, Signals, Pids, ReadCall, MainRuns, local, signal
<1>5. HandlerOK'
  BY <1>1, SMT, Zenon, SMTT(30)
     DEF Inv, TypeOK, FlowOK, BlockOK, HandlerOK, ZombieForEach, Zombies,
     Children, Restarts, HasHandler, Signals, Procmasks, Pids, ReadCall, MainRuns, local,
     signal
<1>6. ErrorOnlyByRead'
  BY <1>1, SMT, Zenon, SMTT(30)
     DEF Inv, TypeOK, FlowOK, HandlerOK, ErrorOnlyByRead, Zombies, Children,
     Restarts, HasHandler, Signals, Procmasks, Pids, ReadCall, MainRuns, local, signal
<1>7. ShellOK' /\ ForegroundDone'
  BY <1>1, <1>2, <1>3, NotTheShell, SMT, Zenon, SMTT(30)
     DEF Signals, ReadCall, local, signal
<1> QED  BY <1>2, <1>3, <1>4, <1>5, <1>6, <1>7, Zenon DEF Inv

\* A read that returns a line preserves the invariant.
LEMMA ReadReturnsInv ==
    ASSUME Inv, ReadReturns PROVE Inv'
<1>1. prog \in Signals
  BY ProgIs, SMT, Zenon, SMTT(30) DEF Inv, FlowOK, Signals, ReadReturns
<1>2. TypeOK'
  BY ProcessesAssumption, SMT, Zenon, SMTT(30)
     DEF Inv, TypeOK, Pids, ReadReturns, local, signal
<1>3. FlowOK' /\ BlockOK'
  BY <1>1, SMT, Zenon, SMTT(30)
     DEF Inv, FlowOK, BlockOK, Signals, ReadReturns, MainRuns, local, signal
<1>4. ChildOK' /\ ReapedAfterAdd'
  BY <1>1, ProcessesAssumption, SMT, Zenon, SMTT(30)
     DEF Inv, TypeOK, FlowOK, ChildOK, BlockOK,
     ReapedAfterAdd, Signals, Pids, ReadReturns, MainRuns, local, signal
<1>5. HandlerOK'
  BY <1>1, SMT, Zenon, SMTT(30)
     DEF Inv, TypeOK, FlowOK, BlockOK, HandlerOK, ZombieForEach, Zombies,
     Children, Restarts, HasHandler, Signals, Procmasks, Pids, ReadReturns, MainRuns, local,
     signal
<1>6. ErrorOnlyByRead'
  BY <1>1, SMT, Zenon, SMTT(30)
     DEF Inv, TypeOK, FlowOK, HandlerOK, ErrorOnlyByRead, Zombies, Children,
     Restarts, HasHandler, Signals, Procmasks, Pids, ReadReturns, MainRuns, local, signal
<1>7. ShellOK' /\ ForegroundDone'
  BY <1>1, <1>2, <1>3, NotTheShell, SMT, Zenon, SMTT(30)
     DEF Signals, ReadReturns, local, signal
<1> QED  BY <1>2, <1>3, <1>4, <1>5, <1>6, <1>7, Zenon DEF Inv

\* A read that fails preserves the invariant: its handler is over.
LEMMA ReadInterruptedInv ==
    ASSUME Inv, ReadInterrupted PROVE Inv'
<1>1. prog \in Signals
  BY ProgIs, SMT, Zenon, SMTT(30) DEF Inv, FlowOK, Signals, ReadInterrupted
<1>2. TypeOK'
  BY ProcessesAssumption, SMT, Zenon, SMTT(30)
     DEF Inv, TypeOK, Pids, ReadInterrupted, local, signal
<1>3. FlowOK' /\ BlockOK'
  BY <1>1, SMT, Zenon, SMTT(30)
     DEF Inv, FlowOK, BlockOK, Signals, ReadInterrupted, MainRuns, local,
     signal
<1>4. ChildOK' /\ ReapedAfterAdd'
  BY <1>1, ProcessesAssumption, SMT, Zenon, SMTT(30)
     DEF Inv, TypeOK, FlowOK, ChildOK, BlockOK,
     ReapedAfterAdd, Signals, Pids, ReadInterrupted, MainRuns, local, signal
<1>5. HandlerOK'
  BY <1>1, SMT, Zenon, SMTT(30)
     DEF Inv, TypeOK, FlowOK, BlockOK, HandlerOK, ZombieForEach, Zombies,
     Children, Restarts, HasHandler, Signals, Procmasks, Pids, ReadInterrupted, MainRuns,
     local, signal
<1>6. ErrorOnlyByRead'
  BY <1>1, SMT, Zenon, SMTT(30)
     DEF Inv, TypeOK, FlowOK, HandlerOK, ErrorOnlyByRead, Zombies, Children,
     Restarts, HasHandler, Signals, Procmasks, Pids, ReadInterrupted, MainRuns, local,
     signal
<1>7. ShellOK' /\ ForegroundDone'
  BY <1>1, <1>2, <1>3, NotTheShell, SMT, Zenon, SMTT(30)
     DEF Signals, ReadInterrupted, local, signal
<1> QED  BY <1>2, <1>3, <1>4, <1>5, <1>6, <1>7, Zenon DEF Inv

\* The test of errno preserves the invariant: signal3.c calls read again, the others end.
LEMMA ReadCheckInv ==
    ASSUME Inv, ReadCheck PROVE Inv'
<1>1. prog \in Signals
  BY ProgIs, SMT, Zenon, SMTT(30) DEF Inv, FlowOK, Signals, ReadCheck
<1>2. TypeOK'
  BY ProcessesAssumption, SMT, Zenon, SMTT(30)
     DEF Inv, TypeOK, Pids, ReadCheck, local, signal
<1>3. FlowOK' /\ BlockOK'
  BY <1>1, SMT, Zenon, SMTT(30)
     DEF Inv, FlowOK, BlockOK, Signals, ReadCheck, MainRuns, local, signal
<1>4. ChildOK' /\ ReapedAfterAdd'
  BY <1>1, ProcessesAssumption, SMT, Zenon, SMTT(30)
     DEF Inv, TypeOK, FlowOK, ChildOK, BlockOK,
     ReapedAfterAdd, Signals, Pids, ReadCheck, MainRuns, local, signal
<1>5. HandlerOK'
  BY <1>1, SMT, Zenon, SMTT(30)
     DEF Inv, TypeOK, FlowOK, BlockOK, HandlerOK, ZombieForEach, Zombies,
     Children, Restarts, HasHandler, Signals, Procmasks, Pids, ReadCheck, MainRuns, local,
     signal
<1>6. ErrorOnlyByRead'
  BY <1>1, SMT, Zenon, SMTT(30)
     DEF Inv, TypeOK, FlowOK, HandlerOK, ErrorOnlyByRead, Zombies, Children,
     Restarts, HasHandler, Signals, Procmasks, Pids, ReadCheck, MainRuns, local, signal
<1>7. ShellOK' /\ ForegroundDone'
  BY <1>1, <1>2, <1>3, NotTheShell, SMT, Zenon, SMTT(30)
     DEF Signals, ReadCheck, local, signal
<1> QED  BY <1>2, <1>3, <1>4, <1>5, <1>6, <1>7, Zenon DEF Inv

\* waitpid in main of waitpid1.cc preserves the invariant.
LEMMA WaitInv ==
    ASSUME Inv, Wait PROVE Inv'
<1>1. prog = "waitpid1"
  BY ProgIs, SMT, Zenon, SMTT(30) DEF Inv, FlowOK, Signals, Wait
<1>2. TypeOK'
  BY ProcessesAssumption, SMT, Zenon, SMTT(30)
     DEF Inv, TypeOK, Zombies, Pids, Wait, Reaped, local, signal
<1>3. FlowOK' /\ BlockOK'
  BY <1>1, SMT, Zenon, SMTT(30) DEF Inv, FlowOK, BlockOK, Wait, Reaped, local, signal
<1>4. ChildOK' /\ ReapedAfterAdd'
  BY <1>1, ProcessesAssumption, SMT, Zenon, SMTT(30)
     DEF Inv, TypeOK, FlowOK, ChildOK, BlockOK,
     ReapedAfterAdd, Zombies, Pids, Wait, Reaped, local, signal
<1>5. HandlerOK'
  BY <1>1, SMT, Zenon, SMTT(30)
     DEF Inv, TypeOK, FlowOK, BlockOK, HandlerOK, ZombieForEach, Zombies,
     Children, Restarts, HasHandler, Signals, Procmasks, Pids, Wait, Reaped, local, signal
<1>6. ErrorOnlyByRead'
  BY <1>1, SMT, Zenon, SMTT(30)
     DEF Inv, TypeOK, FlowOK, HandlerOK, ErrorOnlyByRead, Zombies, Children,
     Restarts, HasHandler, Signals, Procmasks, Pids, Wait, Reaped, local, signal
<1>7. ShellOK' /\ ForegroundDone'
  BY <1>1, <1>2, <1>3, NotTheShell, SMT, Zenon, SMTT(30) DEF Wait, Reaped, local, signal
<1> QED  BY <1>2, <1>3, <1>4, <1>5, <1>6, <1>7, Zenon DEF Inv

\* Blocking SIGCHLD in procmask2.c preserves the invariant.
LEMMA BlockInv ==
    ASSUME Inv, Block PROVE Inv'
<1>1. prog = "procmask2"
  BY ProgIs, SMT, Zenon, SMTT(30) DEF Inv, FlowOK, Signals, Block
<1>2. TypeOK'
  BY ProcessesAssumption, SMT, Zenon, SMTT(30) DEF Inv, TypeOK, Pids, Block, local, signal
<1>3. FlowOK' /\ BlockOK'
  BY <1>1, SMT, Zenon, SMTT(30) DEF Inv, FlowOK, BlockOK, Block, MainRuns, local, signal
<1>4. ChildOK' /\ ReapedAfterAdd'
  BY <1>1, ProcessesAssumption, SMT, Zenon, SMTT(30)
     DEF Inv, TypeOK, FlowOK, ChildOK, BlockOK,
     ReapedAfterAdd, Pids, Block, MainRuns, local, signal
<1>5. HandlerOK'
  BY <1>1, SMT, Zenon, SMTT(30)
     DEF Inv, TypeOK, FlowOK, BlockOK, HandlerOK, ZombieForEach, Zombies,
     Children, Restarts, HasHandler, Signals, Procmasks, Pids, Block, MainRuns, local,
     signal
<1>6. ErrorOnlyByRead'
  BY <1>1, SMT, Zenon, SMTT(30)
     DEF Inv, TypeOK, FlowOK, HandlerOK, ErrorOnlyByRead, Zombies, Children,
     Restarts, HasHandler, Signals, Procmasks, Pids, Block, MainRuns, local, signal
<1>7. ShellOK' /\ ForegroundDone'
  BY <1>1, <1>2, <1>3, NotTheShell, SMT, Zenon, SMTT(30) DEF Block, local, signal
<1> QED  BY <1>2, <1>3, <1>4, <1>5, <1>6, <1>7, Zenon DEF Inv

\* fork in procmask1.c and procmask2.c preserves the invariant.
LEMMA ForkJobInv ==
    ASSUME Inv, ForkJob PROVE Inv'
<1>1. prog \in Procmasks
  BY SMT, Zenon, SMTT(30) DEF ForkJob
<1>2. TypeOK'
  BY ProcessesAssumption, SMT, Zenon, SMTT(30)
     DEF Inv, TypeOK, Pids, ForkJob, Forked, local, signal
<1>3. FlowOK' /\ BlockOK'
  BY <1>1, SMT, Zenon, SMTT(30)
     DEF Inv, FlowOK, BlockOK, Procmasks, Signals, ForkJob, Forked, MainRuns,
     local, signal
<1>4. ChildOK' /\ ReapedAfterAdd'
  BY <1>1, ProcessesAssumption, SMT, Zenon, SMTT(30)
     DEF Inv, TypeOK, FlowOK, ChildOK, BlockOK,
     ReapedAfterAdd, Procmasks, Signals, Pids, ForkJob, Forked, MainRuns, local, signal
<1>5. HandlerOK'
  BY <1>1, SMT, Zenon, SMTT(30)
     DEF Inv, TypeOK, FlowOK, BlockOK, HandlerOK, ZombieForEach, Zombies,
     Children, Restarts, HasHandler, Signals, Procmasks, Pids, ForkJob, Forked, MainRuns,
     local, signal
<1>6. ErrorOnlyByRead'
  BY <1>1, SMT, Zenon, SMTT(30)
     DEF Inv, TypeOK, FlowOK, HandlerOK, ErrorOnlyByRead, Zombies, Children,
     Restarts, HasHandler, Signals, Procmasks, Pids, ForkJob, Forked, MainRuns, local,
     signal
<1>7. ShellOK' /\ ForegroundDone'
  BY <1>1, <1>2, <1>3, NotTheShell, SMT, Zenon, SMTT(30)
     DEF Procmasks, ForkJob, Forked, local, signal
<1> QED  BY <1>2, <1>3, <1>4, <1>5, <1>6, <1>7, Zenon DEF Inv

\* addjob preserves the invariant.
LEMMA AddJobInv ==
    ASSUME Inv, AddJob PROVE Inv'
<1>1. prog \in Procmasks
  BY ProgIs, SMT, Zenon, SMTT(30) DEF Inv, FlowOK, Signals, Procmasks, AddJob
<1>2. TypeOK'
  BY ProcessesAssumption, SMT, Zenon, SMTT(30)
     DEF Inv, TypeOK, ChildOK, Pids, AddJob, local, signal
<1>3. FlowOK' /\ BlockOK'
  BY <1>1, SMT, Zenon, SMTT(30)
     DEF Inv, FlowOK, BlockOK, Procmasks, Signals, AddJob, MainRuns, local,
     signal
<1>4. ChildOK' /\ ReapedAfterAdd'
  BY <1>1, ProcessesAssumption, SMT, Zenon, SMTT(30)
     DEF Inv, TypeOK, FlowOK, ChildOK, BlockOK,
     ReapedAfterAdd, Procmasks, Signals, Pids, AddJob, MainRuns, local, signal
<1>5. HandlerOK'
  BY <1>1, SMT, Zenon, SMTT(30)
     DEF Inv, TypeOK, FlowOK, BlockOK, HandlerOK, ZombieForEach, Zombies,
     Children, Restarts, HasHandler, Signals, Procmasks, Pids, AddJob, MainRuns, local,
     signal
<1>6. ErrorOnlyByRead'
  BY <1>1, SMT, Zenon, SMTT(30)
     DEF Inv, TypeOK, FlowOK, HandlerOK, ErrorOnlyByRead, Zombies, Children,
     Restarts, HasHandler, Signals, Procmasks, Pids, AddJob, MainRuns, local, signal
<1>7. ShellOK' /\ ForegroundDone'
  BY <1>1, <1>2, <1>3, NotTheShell, SMT, Zenon, SMTT(30)
     DEF Procmasks, AddJob, local, signal
<1> QED  BY <1>2, <1>3, <1>4, <1>5, <1>6, <1>7, Zenon DEF Inv

\* Unblocking SIGCHLD in procmask2.c preserves the invariant.
LEMMA UnblockInv ==
    ASSUME Inv, Unblock PROVE Inv'
<1>1. prog = "procmask2"
  BY ProgIs, SMT, Zenon, SMTT(30) DEF Inv, FlowOK, Signals, Unblock
<1>2. TypeOK'
  BY ProcessesAssumption, ZenonT(30) DEF Inv, TypeOK, Pids, Unblock, local, signal
<1>3. FlowOK' /\ BlockOK'
  BY <1>1, SMT, Zenon, SMTT(30) DEF Inv, FlowOK, BlockOK, Unblock, MainRuns, local, signal
<1>4. ChildOK' /\ ReapedAfterAdd'
  BY <1>1, ProcessesAssumption, SMT, Zenon, SMTT(30)
     DEF Inv, TypeOK, FlowOK, ChildOK, BlockOK,
     ReapedAfterAdd, Pids, Unblock, MainRuns, local, signal
<1>5. HandlerOK'
  BY <1>1, SMT, Zenon, SMTT(30)
     DEF Inv, TypeOK, FlowOK, BlockOK, HandlerOK, ZombieForEach, Zombies,
     Children, Restarts, HasHandler, Signals, Procmasks, Pids, Unblock, MainRuns, local,
     signal
<1>6. ErrorOnlyByRead'
  BY <1>1, SMT, Zenon, SMTT(30)
     DEF Inv, TypeOK, FlowOK, HandlerOK, ErrorOnlyByRead, Zombies, Children,
     Restarts, HasHandler, Signals, Procmasks, Pids, Unblock, MainRuns, local, signal
<1>7. ShellOK' /\ ForegroundDone'
  BY <1>1, <1>2, <1>3, NotTheShell, SMT, Zenon, SMTT(30) DEF Unblock, local, signal
<1> QED  BY <1>2, <1>3, <1>4, <1>5, <1>6, <1>7, Zenon DEF Inv

\* eval of shellex.c preserves the invariant: a foreground job is the one the shell waits for.
LEMMA EvalInv ==
    ASSUME Inv, NEW line \in Lines, Eval(line) PROVE Inv'
<1>1. prog = "shellex" /\ pc = "prompt" /\ UNCHANGED <<local, errno, signal, jobs, input>>
  <2>1. pc = "prompt" /\ UNCHANGED <<local, errno, signal, jobs, input>>
    BY Zenon DEF Eval
  <2> QED  BY <2>1, ProgIs, SMT, Zenon, SMTT(30) DEF Inv, FlowOK, Signals
<1>2. \/ /\ pc' \in {"prompt", "exit", "waitfg"} /\ pid' \in -1 .. N + 1
         /\ UNCHANGED <<i, child, front>>
      \/ \E r \in -1 .. N :
            /\ Forked(r) /\ pid' = r /\ pc' \in {"prompt", "waitfg"}
            /\ front' = front \/ (pc' = "waitfg" /\ r # -1 /\ front' = front \cup {r})
  BY <1>1, SMT, Zenon, SMTT(30) DEF Eval, Inv, TypeOK
<1>3. FlowOK'
  BY <1>1, <1>2, Zenon DEF FlowOK, Signals, local
<1>4. HandlerOK' /\ BlockOK'
  BY <1>1, <1>3, ShellHandlesNothing, Zenon
<1>5. front \subseteq 1 .. i /\ front \cap Children = {} /\ pc' \notin {"addjob", "error"}
  BY <1>1, <1>2, SMT, Zenon, SMTT(30) DEF Inv, ShellOK, ForegroundDone
<1>6. ReapedAfterAdd' /\ ErrorOnlyByRead'
  BY <1>5, Zenon DEF ReapedAfterAdd, ErrorOnlyByRead
<1>7. CASE UNCHANGED <<i, child, front>> /\ pid' \in -1 .. N + 1
  <2>1. TypeOK'
    BY <1>1, <1>2, <1>7, SMT, Zenon, SMTT(30) DEF Inv, TypeOK, Forked, local, signal
  <2>2. ChildOK' /\ ShellOK' /\ ForegroundDone'
    BY <1>5, <1>7, SMT, Zenon, SMTT(30)
       DEF Inv, ChildOK, ShellOK, ForegroundDone, Children, Zombies
  <2> QED  BY <1>3, <1>4, <1>6, <2>1, <2>2, Zenon DEF Inv
<1>8. ASSUME NEW r \in -1 .. N, Forked(r), pid' = r, pc' \in {"prompt", "waitfg"},
             front' = front \/ (pc' = "waitfg" /\ r # -1 /\ front' = front \cup {r})
      PROVE  Inv'
  <2>1. ChildOK'
    BY <1>5, <1>8, SMT, Zenon, SMTT(30) DEF Inv, TypeOK, ChildOK, Forked, Pids
  <2>2. /\ i \in Nat /\ i' = i + 1 /\ i' \in 0 .. N /\ front' \subseteq front \cup {r}
        /\ r = -1 => front' = front /\ child' = child
        /\ r # -1 => r = i + 1 /\ r \in Pids /\ child' = [child EXCEPT ![r] = "run"]
    BY <1>8, ProcessesAssumption, SMT, Zenon, SMTT(30) DEF Inv, TypeOK, Forked, Pids
  <2>3. TypeOK'
    <3>1. front' \subseteq Pids
      <4>1. front \subseteq Pids
        BY Zenon DEF Inv, TypeOK
      <4> QED  BY <1>8, <2>2, <4>1, Zenon
    <3>2. child' \in [Pids -> {"none", "run", "zombie", "reaped"}]
      BY <2>2, SMT, Zenon, SMTT(30) DEF Inv, TypeOK
    <3>3. pid' \in -1 .. N + 1 /\ i' \in 0 .. N
      BY <1>8, <2>2, ProcessesAssumption, SMT, Zenon, SMTT(30)
    <3> QED  BY <1>1, <1>8, <3>1, <3>2, <3>3, SMT, Zenon, SMTT(30)
                DEF Inv, TypeOK, local, signal
  <2>4. front' \subseteq 1 .. i'
    BY <1>5, <2>2, SMT, Zenon, SMTT(30)
  <2>5. front' \cap Children' \subseteq IF front' = front THEN {} ELSE {r}
    <3>1. \A c \in front : c \in Children' => c \in Children
      <4> SUFFICES ASSUME NEW c \in front PROVE child'[c] = child[c]
        BY Zenon DEF Children, Zombies
      <4>1. c \in Pids /\ c # i + 1 /\ child \in [Pids -> {"none", "run", "zombie", "reaped"}]
        BY <1>5, <2>2, SMT, Zenon, SMTT(30) DEF Inv, TypeOK
      <4> QED  BY <2>2, <4>1, SMT, Zenon, SMTT(30)
    <3> QED  BY <1>5, <1>8, <3>1, Zenon
  <2>6. ShellOK' /\ ForegroundDone'
    BY <1>8, <2>4, <2>5, SMT, Zenon, SMTT(30) DEF ShellOK, ForegroundDone
  <2> QED  BY <1>3, <1>4, <1>6, <2>1, <2>3, <2>6, Zenon DEF Inv
<1> QED  BY <1>2, <1>7, <1>8, Zenon

\* Waiting for the foreground job preserves the invariant.
LEMMA WaitFgInv ==
    ASSUME Inv, WaitFg PROVE Inv'
<1>1. prog = "shellex"
  BY ProgIs, SMT, Zenon, SMTT(30) DEF Inv, FlowOK, Signals, WaitFg
<1>2. TypeOK'
  BY ProcessesAssumption, SMT, Zenon, SMTT(30)
     DEF Inv, TypeOK, Zombies, Pids, WaitFg, Reaped, Awaited, local,
     signal
<1>3. FlowOK'
  BY <1>1, SMT, Zenon, SMTT(30)
     DEF Inv, FlowOK, Signals, WaitFg, Reaped, Awaited, local, signal
<1>4. HandlerOK' /\ BlockOK'
  BY <1>1, <1>3, ShellHandlesNothing, SMT, Zenon, SMTT(30) DEF WaitFg
<1>5. ChildOK' /\ ReapedAfterAdd'
  BY <1>1, ProcessesAssumption, SMT, Zenon, SMTT(30)
     DEF Inv, TypeOK, FlowOK, ChildOK, BlockOK,
     ReapedAfterAdd, Zombies, Pids, WaitFg, Reaped, Awaited, local, signal
<1>6. ErrorOnlyByRead'
  BY <1>1, SMT, Zenon, SMTT(30) DEF Inv, TypeOK, FlowOK, HandlerOK, ShellOK, ForegroundDone,
     ErrorOnlyByRead, Zombies, Children, Restarts, HasHandler, Signals, Procmasks, Pids,
     WaitFg, Reaped, Awaited, local, signal
<1>7. ShellOK' /\ ForegroundDone'
  BY <1>1, ProcessesAssumption, SMT, Zenon, SMTT(30)
     DEF Inv, TypeOK, ShellOK, ForegroundDone, Zombies,
     Children, Pids, WaitFg, Reaped, Awaited, local, signal
<1> QED  BY <1>2, <1>3, <1>4, <1>5, <1>6, <1>7, Zenon DEF Inv

\* The end of the input of shellex.c preserves the invariant.
LEMMA EndOfFileInv ==
    ASSUME Inv, EndOfFile PROVE Inv'
<1>1. prog = "shellex"
  BY ProgIs, SMT, Zenon, SMTT(30) DEF Inv, FlowOK, Signals, EndOfFile
<1>2. TypeOK'
  BY ProcessesAssumption, SMT, Zenon, SMTT(30)
     DEF Inv, TypeOK, Pids, EndOfFile, local, signal
<1>3. FlowOK'
  BY <1>1, SMT, Zenon, SMTT(30) DEF Inv, FlowOK, Signals, EndOfFile, local, signal
<1>4. HandlerOK' /\ BlockOK'
  BY <1>1, <1>3, ShellHandlesNothing, SMT, Zenon, SMTT(30) DEF EndOfFile
<1>5. ChildOK' /\ ReapedAfterAdd'
  BY <1>1, ProcessesAssumption, SMT, Zenon, SMTT(30)
     DEF Inv, TypeOK, FlowOK, ChildOK, BlockOK,
     ReapedAfterAdd, Pids, EndOfFile, local, signal
<1>6. ErrorOnlyByRead'
  BY <1>1, SMT, Zenon, SMTT(30) DEF Inv, TypeOK, FlowOK, HandlerOK, ShellOK, ForegroundDone,
     ErrorOnlyByRead, Zombies, Children, Restarts, HasHandler, Signals, Procmasks, Pids,
     EndOfFile, local, signal
<1>7. ShellOK' /\ ForegroundDone'
  BY <1>1, ProcessesAssumption, SMT, Zenon, SMTT(30)
     DEF Inv, TypeOK, ShellOK, ForegroundDone, Zombies,
     Children, Pids, EndOfFile, local, signal
<1> QED  BY <1>2, <1>3, <1>4, <1>5, <1>6, <1>7, Zenon DEF Inv

\* The end of a child preserves the invariant: there is one more zombie for the signal.
LEMMA ExitInv ==
    ASSUME Inv, NEW c \in Pids, Exit(c) PROVE Inv'
<1>1. TypeOK'
  BY ProcessesAssumption, SMT, Zenon, SMTT(30)
     DEF Inv, TypeOK, HasHandler, Pids, Exit, local, signal
<1>2. FlowOK' /\ BlockOK'
  BY ProgIs, SMT, Zenon, SMTT(30)
     DEF Inv, FlowOK, BlockOK, HasHandler, Signals, Procmasks, Exit, local,
     signal
<1>3. ChildOK' /\ ReapedAfterAdd'
  BY ProgIs, ProcessesAssumption, SMT, Zenon, SMTT(30)
     DEF Inv, TypeOK, FlowOK, ChildOK, BlockOK,
     ReapedAfterAdd, HasHandler, Signals, Procmasks, Pids, Exit, local, signal
<1>4. HandlerOK'
  BY ProgIs, SMT, Zenon, SMTT(30)
     DEF Inv, TypeOK, FlowOK, BlockOK, HandlerOK, ZombieForEach, Zombies,
     Children, Restarts, HasHandler, Signals, Procmasks, Pids, Exit, local, signal
<1>5. ErrorOnlyByRead'
  BY ProgIs, SMT, Zenon, SMTT(30)
     DEF Inv, TypeOK, FlowOK, HandlerOK, ErrorOnlyByRead, Zombies,
     Children, Restarts, HasHandler, Signals, Procmasks, Pids, Exit, local, signal
<1>6. ShellOK' /\ ForegroundDone'
  BY ProgIs, ProcessesAssumption, SMT, Zenon, SMTT(30)
     DEF Inv, TypeOK, ShellOK, ForegroundDone,
     Zombies, Children, Pids, Exit, local, signal
<1> QED  BY <1>1, <1>2, <1>3, <1>4, <1>5, <1>6, Zenon DEF Inv

\* A line on stdin preserves the invariant.
LEMMA TypeInv ==
    ASSUME Inv, Type PROVE Inv'
<1>1. prog \in Signals
  BY SMT, Zenon, SMTT(30) DEF Type
<1>2. TypeOK'
  BY ProcessesAssumption, SMT, Zenon, SMTT(30) DEF Inv, TypeOK, Pids, Type, local, signal
<1>3. FlowOK' /\ BlockOK'
  BY <1>1, SMT, Zenon, SMTT(30) DEF Inv, FlowOK, BlockOK, Signals, Type, local, signal
<1>4. ChildOK' /\ ReapedAfterAdd'
  BY <1>1, ProcessesAssumption, SMT, Zenon, SMTT(30)
     DEF Inv, TypeOK, FlowOK, ChildOK, BlockOK,
     ReapedAfterAdd, Signals, Pids, Type, local, signal
<1>5. HandlerOK'
  BY <1>1, SMT, Zenon, SMTT(30)
     DEF Inv, TypeOK, FlowOK, BlockOK, HandlerOK, ZombieForEach, Zombies,
     Children, Restarts, HasHandler, Signals, Procmasks, Pids, Type, local, signal
<1>6. ErrorOnlyByRead'
  BY <1>1, SMT, Zenon, SMTT(30)
     DEF Inv, TypeOK, FlowOK, HandlerOK, ErrorOnlyByRead, Zombies, Children,
     Restarts, HasHandler, Signals, Procmasks, Pids, Type, local, signal
<1>7. ShellOK' /\ ForegroundDone'
  BY <1>1, <1>2, <1>3, NotTheShell, SMT, Zenon, SMTT(30) DEF Signals, Type, local, signal
<1> QED  BY <1>2, <1>3, <1>4, <1>5, <1>6, <1>7, Zenon DEF Inv

\* Before its first fork a program has no child and no signal has come.
LEMMA InitInv == Init => Inv
<1> SUFFICES ASSUME Init PROVE Inv
  BY SMT, Zenon, SMTT(30)
<1>1. TypeOK
  <2>1. child \in [Pids -> {"none", "run", "zombie", "reaped"}]
    BY SMT, Zenon, SMTT(30) DEF Init
  <2>2. i \in 0 .. N /\ pid \in -1 .. N + 1 /\ jobs \subseteq -1 .. N /\ front \subseteq Pids
    BY ProcessesAssumption, SMT, Zenon, SMTT(30) DEF Init
  <2>3. pc \in {"block", "prompt", "fork"}
    BY SMT, Zenon, SMTT(30) DEF Init, Start
  <2> QED  BY <2>1, <2>2, <2>3, ZenonT(30) DEF Init, TypeOK
<1>2. FlowOK
  BY <1>1, ProgIs, SMT, Zenon, SMTT(30) DEF Init, Start, FlowOK, Signals
<1>3. ChildOK /\ BlockOK /\ ShellOK
  BY <1>2, SMT, Zenon, SMTT(30) DEF Init, Start, ChildOK, BlockOK, ShellOK, Pids
<1>4. HandlerOK /\ ErrorOnlyByRead /\ ForegroundDone /\ ReapedAfterAdd
  BY SMT, Zenon, SMTT(30)
     DEF Init, Start, HandlerOK, ZombieForEach, ErrorOnlyByRead, ForegroundDone,
     ReapedAfterAdd
<1> QED  BY <1>1, <1>2, <1>3, <1>4, Zenon DEF Inv

(***************************************************************************)
(* The invariant of the eight programs of exceptional_control_flow holds   *)
(* however main, the handler and the children interleave, for any number   *)
(* of forks.                                                               *)
(***************************************************************************)
THEOREM ProcessesInvariant == Spec => []Inv
<1>1. Inv /\ [Next]_vars => Inv'
  <2> SUFFICES ASSUME Inv, [Next]_vars PROVE Inv'
    BY SMT, Zenon, SMTT(30)
  <2>1. CASE UNCHANGED vars
    <3>1. Zombies' = Zombies /\ Children' = Children
      BY <2>1, SMT, Zenon, SMTT(30) DEF vars, Zombies, Children
    <3>2. TypeOK'
      BY <2>1, SMT, Zenon, SMTT(30) DEF vars, Inv, TypeOK
    <3>5. FlowOK' /\ ChildOK' /\ BlockOK' /\ ReapedAfterAdd'
      BY <2>1, SMT, Zenon, SMTT(30) DEF vars, Inv, FlowOK, ChildOK, BlockOK, ReapedAfterAdd
    <3>3. HandlerOK'
      BY <2>1, <3>1, SMT, Zenon, SMTT(30)
         DEF vars, Inv, HandlerOK, ZombieForEach, HasHandler, Restarts
    <3>4. ShellOK' /\ ErrorOnlyByRead' /\ ForegroundDone'
      BY <2>1, <3>1, SMT, Zenon, SMTT(30)
         DEF vars, Inv, ShellOK, ErrorOnlyByRead, ForegroundDone
    <3> QED  BY <3>2, <3>3, <3>4, <3>5, Zenon DEF Inv
  <2>2. CASE Handler
    BY <2>2, DeliverInv, Handler1Inv, HandlerReapInv, HandlerReturnInv, Zenon DEF Handler
  <2>3. CASE Main
    BY <2>3, ForkLoopInv, ReadCallInv, ReadReturnsInv, ReadInterruptedInv, ReadCheckInv,
       WaitInv, BlockInv, ForkJobInv, AddJobInv, UnblockInv, WaitFgInv, Zenon DEF Main
  <2>4. CASE (\E line \in Lines : Eval(line)) \/ EndOfFile
    BY <2>4, EvalInv, EndOfFileInv, Zenon
  <2>5. CASE (\E c \in Pids : Exit(c)) \/ Type
    BY <2>5, ExitInv, TypeInv, Zenon
  <2> QED  BY <2>1, <2>2, <2>3, <2>4, <2>5, Zenon DEF Next, Idle
<1> QED  BY InitInv, <1>1, PTL DEF Spec

\* Main, its children and the signal stay within their types.
THEOREM TypeCorrect == Spec => []TypeOK
BY ProcessesInvariant, PTL DEF Inv

(***************************************************************************)
(* No program ends with an error the code does not provide for: handler1   *)
(* finds a zombie however signals coalesce, and the test of errno in       *)
(* signal3.c:35-39 sees what read has left there.                          *)
(***************************************************************************)
THEOREM ErrorsAreForeseen == Spec => []ErrorOnlyByRead
BY ProcessesInvariant, PTL DEF Inv

(***************************************************************************)
(* At the prompt of shellex.c no foreground job is left, whatever the user *)
(* has typed and whichever background jobs have ended.                     *)
(***************************************************************************)
THEOREM ForegroundAlwaysDone == Spec => []ForegroundDone
BY ProcessesInvariant, PTL DEF Inv

(***************************************************************************)
(* With SIGCHLD blocked, procmask2.c adds a job before the handler can     *)
(* reap its child.                                                         *)
(***************************************************************************)
THEOREM AddedBeforeReaped == Spec => []ReapedAfterAdd
BY ProcessesInvariant, PTL DEF Inv
=============================================================================

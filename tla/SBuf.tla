-------------------------------- MODULE SBuf --------------------------------
(***************************************************************************)
(* The shared bounded buffer of csapp/concurrent_program/sbuf.c: producers *)
(* in sbuf_insert, consumers in sbuf_remove, three counting semaphores.    *)
(* A step is one P, one V or one access to the shared data: the increment  *)
(* of front or rear and the access to buf are steps of their own, since    *)
(* only mutex keeps other threads out between them.                        *)
(*                                                                         *)
(* front and rear are C ints that only grow; INT_MAX is the largest one    *)
(* and the increment of it wraps, as it does in the builds of gcc.  After  *)
(* that rear % n is negative and buf is accessed out of bounds: nothing in *)
(* sbuf.c prevents it, and what is stated here is stated for at most       *)
(* INT_MAX items.                                                          *)
(***************************************************************************)
EXTENDS Integers, Sequences, FiniteSets

CONSTANTS
    Producers, Consumers,   \* threads
    N,                      \* sbuf_init(sp, n)
    MaxItems,               \* bound: items inserted in total
    INT_MAX

ASSUME SBufAssumption ==
    /\ IsFiniteSet(Producers) /\ IsFiniteSet(Consumers)
    /\ Producers \cap Consumers = {}
    /\ N \in Nat \ {0}
    /\ MaxItems \in Nat
    /\ INT_MAX \in Nat

Threads == Producers \cup Consumers
Items == 1..MaxItems        \* the n-th insert carries item n
NoItem == 0

VARIABLES
    buf, front, rear,       \* sbuf_t
    mutex, slots, items,    \* its semaphores
    pc,                     \* the statement each thread is about to execute
    item,                   \* the thread's local item
    next                    \* the next item a producer brings

vars == <<buf, front, rear, mutex, slots, items, pc, item, next>>

Index == 0..(N - 1)

\* sbuf_t and the threads' locals: no semaphore exceeds what sbuf_init gave out.
TypeOK ==
    /\ buf \in [Index -> Items \cup {NoItem}]
    /\ front \in Int /\ rear \in Int
    /\ mutex \in 0..1 /\ slots \in 0..N /\ items \in 0..N
    /\ pc \in [Threads -> {"idle", "lock", "bump", "access", "unlock", "announce"}]
    /\ item \in [Threads -> Items \cup {NoItem}]
    /\ next \in 1..(MaxItems + 1)
-----------------------------------------------------------------------------
\* ++x
Bump(x) == IF x = INT_MAX THEN -INT_MAX - 1 ELSE x + 1

\* The remainder of C: it has the sign of the dividend.
Rem(x) == IF x >= 0 THEN x % N ELSE -((-x) % N)

\* sbuf_init
Init ==
    /\ buf = [i \in Index |-> NoItem]
    /\ front = 0 /\ rear = 0
    /\ mutex = 1 /\ slots = N /\ items = 0
    /\ pc = [t \in Threads |-> "idle"]
    /\ item = [t \in Threads |-> NoItem]
    /\ next = 1

Goto(t, from, to) == pc[t] = from /\ pc' = [pc EXCEPT ![t] = to]

\* Mutant: P(&sp->mutex) is missing.
Lock_Missing(t) ==
    Goto(t, "lock", "bump") /\ UNCHANGED <<buf, front, rear, mutex, slots, items, item, next>>

\* P(&sp->mutex), V(&sp->mutex): the same in both functions
Lock(t) ==
    /\ Goto(t, "lock", "bump")
    /\ mutex > 0 /\ mutex' = mutex - 1
    /\ UNCHANGED <<buf, front, rear, slots, items, item, next>>

Unlock(t) ==
    /\ Goto(t, "unlock", "announce")
    /\ mutex' = mutex + 1
    /\ UNCHANGED <<buf, front, rear, slots, items, item, next>>

\* Mutant: P(&sp->slots) is missing.
InsertWait_Missing(t) ==
    /\ Goto(t, "idle", "lock")
    /\ next <= MaxItems
    /\ item' = [item EXCEPT ![t] = next] /\ next' = next + 1
    /\ UNCHANGED <<buf, front, rear, mutex, slots, items>>

\* sbuf_insert(sp, item) is called; P(&sp->slots)
InsertWait(t) ==
    /\ Goto(t, "idle", "lock")
    /\ next <= MaxItems
    /\ slots > 0 /\ slots' = slots - 1
    /\ item' = [item EXCEPT ![t] = next] /\ next' = next + 1
    /\ UNCHANGED <<buf, front, rear, mutex, items>>

InsertBump(t) ==
    /\ Goto(t, "bump", "access")
    /\ rear' = Bump(rear)
    /\ UNCHANGED <<buf, front, mutex, slots, items, item, next>>

\* Mutant: buf[(sp->rear++) % n], the old value of rear.
InsertStore_PostIncrement(t) ==
    /\ Goto(t, "access", "unlock")
    /\ buf' = [buf EXCEPT ![Rem(rear - 1)] = item[t]]
    /\ UNCHANGED <<front, rear, mutex, slots, items, item, next>>

\* A write outside of buf changes something else.
InsertStore(t) ==
    /\ Goto(t, "access", "unlock")
    /\ buf' = IF Rem(rear) \in Index THEN [buf EXCEPT ![Rem(rear)] = item[t]] ELSE buf
    /\ UNCHANGED <<front, rear, mutex, slots, items, item, next>>

\* Mutant: V(&sp->items) is missing.
InsertAnnounce_Missing(t) ==
    /\ Goto(t, "announce", "idle")
    /\ item' = [item EXCEPT ![t] = NoItem]
    /\ UNCHANGED <<buf, front, rear, mutex, slots, items, next>>

InsertAnnounce(t) ==
    /\ Goto(t, "announce", "idle")
    /\ items' = items + 1
    /\ item' = [item EXCEPT ![t] = NoItem]
    /\ UNCHANGED <<buf, front, rear, mutex, slots, next>>

\* sbuf_remove(sp)
RemoveWait(t) ==
    /\ Goto(t, "idle", "lock")
    /\ items > 0 /\ items' = items - 1
    /\ UNCHANGED <<buf, front, rear, mutex, slots, item, next>>

RemoveBump(t) ==
    /\ Goto(t, "bump", "access")
    /\ front' = Bump(front)
    /\ UNCHANGED <<buf, rear, mutex, slots, items, item, next>>

\* A read outside of buf returns anything.
RemoveLoad(t) ==
    /\ Goto(t, "access", "unlock")
    /\ \E x \in IF Rem(front) \in Index THEN {buf[Rem(front)]} ELSE Items \cup {NoItem} :
          item' = [item EXCEPT ![t] = x]
    /\ UNCHANGED <<buf, front, rear, mutex, slots, items, next>>

\* The function is void: its local item is gone with the return.
RemoveAnnounce(t) ==
    /\ Goto(t, "announce", "idle")
    /\ slots' = slots + 1
    /\ item' = [item EXCEPT ![t] = NoItem]
    /\ UNCHANGED <<buf, front, rear, mutex, items, next>>

Insert(t) ==
    \/ InsertWait(t) \/ Lock(t) \/ InsertBump(t) \/ InsertStore(t)
    \/ Unlock(t) \/ InsertAnnounce(t)

Remove(t) ==
    \/ RemoveWait(t) \/ Lock(t) \/ RemoveBump(t) \/ RemoveLoad(t)
    \/ Unlock(t) \/ RemoveAnnounce(t)

\* All items are through: the consumers wait for ever.
Drained ==
    /\ next > MaxItems /\ items = 0 /\ \A t \in Threads : pc[t] = "idle"
    /\ UNCHANGED vars

Next ==
    \/ \E t \in Producers : Insert(t)
    \/ \E t \in Consumers : Remove(t)
    \/ Drained

Spec == Init /\ [][Next]_vars

FairSpec ==
    /\ Spec
    /\ \A t \in Producers : WF_vars(Insert(t))
    /\ \A t \in Consumers : WF_vars(Remove(t))
-----------------------------------------------------------------------------
InCritical(t) == pc[t] \in {"bump", "access", "unlock"}

(***************************************************************************)
(* One thread at a time is between P(&sp->mutex) and V(&sp->mutex), and    *)
(* none while mutex is 1 (sbuf.c:41-43, 51-53).                            *)
(***************************************************************************)
MutualExclusion ==
    /\ \A s, t \in Threads : InCritical(s) /\ InCritical(t) => s = t
    /\ mutex = 1 => ~\E t \in Threads : InCritical(t)

\* How many threads of T are at a statement of A.
Count(f, T, A) == Cardinality({t \in T : f[t] \in A})

\* A thread that is not idle holds a unit of slots or items in its hands.
Busy == {"lock", "bump", "access", "unlock", "announce"}

(***************************************************************************)
(* The semaphores count what their comments say: a unit is a free slot, an *)
(* announced item, or in the hands of one thread; front and rear, which no *)
(* semaphore looks at, are as far apart as there are items stored and not  *)
(* yet removed, never more than N (sbuf.c:7-11, 39-55).                    *)
(***************************************************************************)
Accounting ==
    /\ slots + items + Count(pc, Producers, Busy) + Count(pc, Consumers, Busy) = N
    /\ rear - front = items
          + Count(pc, Producers, {"access", "unlock", "announce"})
          + Count(pc, Consumers, {"lock", "bump"})

(***************************************************************************)
(* Every item that is brought is removed in the end, when threads keep     *)
(* running.                                                                *)
(***************************************************************************)
AllThrough == <>(next > MaxItems /\ rear = front /\ items = 0)

\* What buf holds of the items with the numbers first + 1 to last.
Window(b, first, last) == [i \in 1..(last - first) |-> b[(first + i) % N]]

\* An insert counts from the write to buf, a removal from the read.
Inserted == IF \E t \in Producers : pc[t] = "access" THEN rear - 1 ELSE rear
Removed == IF \E t \in Consumers : pc[t] = "access" THEN front - 1 ELSE front
Stored == Window(buf, Removed, Inserted)

\* What a consumer has loaded in the call of sbuf_remove that it is in.
Held == [c \in Consumers |-> item[c]]

Fifo == INSTANCE BoundedFifo WITH q <- Stored, held <- Held

(***************************************************************************)
(* Whatever threads interleave, the buffer is a "bounded, shared FIFO      *)
(* buffer" (sbuf.c:23): a call of sbuf_insert puts its item at the end at  *)
(* one instant, a call of sbuf_remove takes the oldest one at one instant, *)
(* once, and drops it when it returns.  That the caller gets the item is   *)
(* not claimed: sbuf_remove is void, although "Remove and return the first *)
(* item" is what its comment says (sbuf.c:47-55).                          *)
(***************************************************************************)
IsFifo == Fifo!Spec
=============================================================================

---------------------------- MODULE BoundedFifo ----------------------------
(***************************************************************************)
(* What sbuf.c does: a FIFO of at most N items shared by threads.  Put and *)
(* Get are atomic.  A consumer takes one item per call and holds it until  *)
(* the call returns; sbuf_remove is void, so Return drops the item.        *)
(***************************************************************************)
EXTENDS Naturals, Sequences

CONSTANTS N, Consumers, Items, NoItem

VARIABLES
    q,      \* the items in the buffer, oldest first
    held    \* the item each consumer has taken in the call that is running

Init == q = <<>> /\ held = [c \in Consumers |-> NoItem]

Put(x) == Len(q) < N /\ q' = Append(q, x) /\ UNCHANGED held

Get(c) ==
    /\ q # <<>> /\ held[c] = NoItem
    /\ held' = [held EXCEPT ![c] = Head(q)]
    /\ q' = Tail(q)

Return(c) == held' = [held EXCEPT ![c] = NoItem] /\ UNCHANGED q

Next ==
    \/ \E x \in Items : Put(x)
    \/ \E c \in Consumers : Get(c) \/ Return(c)

Spec == Init /\ [][Next]_<<q, held>>
=============================================================================

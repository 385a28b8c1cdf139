----------------------------- MODULE SBufProofs -----------------------------
(***************************************************************************)
(* The shared buffer for any threads, any N and any number of items up to  *)
(* INT_MAX: mutual exclusion, the accounting of the semaphores, and the    *)
(* implementation of BoundedFifo.                                          *)
(***************************************************************************)
EXTENDS SBuf, FiniteSetTheorems, SequenceTheorems, TLAPS

\* What a thread's step from one statement to another adds to Count.
Moved(s, T, A, from, to) ==
    IF s \in T /\ from \notin A /\ to \in A THEN 1
    ELSE IF s \in T /\ from \in A /\ to \notin A THEN -1
    ELSE 0

\* How many threads are at a statement of A changes as one thread moves on.
LEMMA CountMoves ==
    ASSUME NEW T, IsFiniteSet(T), NEW D, T \subseteq D, NEW f, f = [x \in D |-> f[x]],
           NEW s \in D, NEW to, NEW g, g = [f EXCEPT ![s] = to], NEW A
    PROVE  Count(g, T, A) = Count(f, T, A) + Moved(s, T, A, f[s], to)
<1> DEFINE F == {t \in T : f[t] \in A}
           G == {t \in T : g[t] \in A}
<1>1. IsFiniteSet(F) /\ IsFiniteSet(G)
  <2>1. F \subseteq T /\ G \subseteq T
    BY SMT, Zenon, SMTT(30)
  <2> QED  BY <2>1, FS_Subset, SMT, Zenon, SMTT(30)
<1>2. Cardinality(F) \in Nat /\ Cardinality(G) \in Nat
  BY <1>1, FS_CardinalityType, SMT, Zenon, SMTT(30)
<1>3. /\ \A x \in T : x # s => g[x] = f[x]
      /\ g[s] = to
  BY SMT, Zenon, SMTT(30)
<1>4. Count(f, T, A) = Cardinality(F) /\ Count(g, T, A) = Cardinality(G)
  BY SMT, Zenon, SMTT(30) DEF Count
<1>5. CASE s \in T /\ f[s] \notin A /\ to \in A
  <2>1. G = F \cup {s} /\ s \notin F
    BY <1>3, <1>5, SMT, Zenon, SMTT(30)
  <2> HIDE DEF F, G
  <2>2. Cardinality(G) = Cardinality(F) + 1
    BY <1>1, <2>1, FS_AddElement, SMT, Zenon, SMTT(30)
  <2> QED  BY <1>4, <1>2, <1>5, <2>2, SMT, Zenon, SMTT(30) DEF Moved
<1>6. CASE s \in T /\ f[s] \in A /\ to \notin A
  <2>1. G = F \ {s} /\ s \in F
    BY <1>3, <1>6, SMT, Zenon, SMTT(30)
  <2> HIDE DEF F, G
  <2>2. Cardinality(G) = Cardinality(F) - 1
    BY <1>1, <2>1, FS_RemoveElement, SMT, Zenon, SMTT(30)
  <2> QED  BY <1>4, <1>2, <1>6, <2>2, SMT, Zenon, SMTT(30) DEF Moved
<1>7. CASE ~(s \in T /\ (f[s] \in A <=> to \notin A))
  <2>1. G = F
    BY <1>3, <1>7, SMT, Zenon, SMTT(30)
  <2>2. Moved(s, T, A, f[s], to) = 0
    BY <1>7, SMT, Zenon, SMTT(30) DEF Moved
  <2> HIDE DEF F, G
  <2> QED  BY <1>4, <1>2, <2>1, <2>2, SMT, Zenon, SMTT(30)
<1> QED  BY <1>5, <1>6, <1>7, SMT, Zenon, SMTT(30)

\* A smaller set of statements has fewer threads at it.
LEMMA CountSubset ==
    ASSUME NEW T, IsFiniteSet(T), NEW f, NEW A, NEW B, A \subseteq B
    PROVE  /\ Count(f, T, A) \in Nat /\ Count(f, T, B) \in Nat
           /\ Count(f, T, A) <= Count(f, T, B)
           /\ \A t \in T : f[t] \in A => Count(f, T, A) > 0
<1> DEFINE F == {t \in T : f[t] \in A}
           G == {t \in T : f[t] \in B}
<1>1. F \subseteq G /\ G \subseteq T
  BY SMT, Zenon, SMTT(30)
<1>2. IsFiniteSet(G)
  BY <1>1, FS_Subset, SMT, Zenon, SMTT(30)
<1>3. IsFiniteSet(F) /\ Cardinality(F) <= Cardinality(G)
  BY <1>1, <1>2, FS_Subset, SMT, Zenon, SMTT(30)
<1>4. Cardinality(F) \in Nat /\ Cardinality(G) \in Nat
  BY <1>2, <1>3, FS_CardinalityType, SMT, Zenon, SMTT(30)
<1>5. F # {} => Cardinality(F) # 0
  BY <1>3, FS_EmptySet, SMT, Zenon, SMTT(30)
<1>6. \A t \in T : f[t] \in A => F # {}
  BY SMT, Zenon, SMTT(30)
<1> HIDE DEF F, G
<1> QED  BY <1>3, <1>4, <1>5, <1>6, SMT, Zenon, SMTT(30) DEF Count, F, G
-----------------------------------------------------------------------------
\* Each insert that has got a slot raises rear once, so rear stays below INT_MAX
\* and front behind it: what Accounting needs to be inductive.
Numbered ==
    /\ front \in Nat /\ rear \in Nat
    /\ rear + Count(pc, Producers, {"lock", "bump"}) = next - 1
    /\ \A t \in Producers : pc[t] # "idle" => item[t] \in Items

Inv == TypeOK /\ MutualExclusion /\ Accounting /\ Numbered

\* A step adds these numbers to the five counts of Inv.
Adds(pb, cb, p3, p2, c2) ==
    /\ Count(pc', Producers, Busy) = Count(pc, Producers, Busy) + pb
    /\ Count(pc', Consumers, Busy) = Count(pc, Consumers, Busy) + cb
    /\ Count(pc', Producers, {"access", "unlock", "announce"}) =
          Count(pc, Producers, {"access", "unlock", "announce"}) + p3
    /\ Count(pc', Producers, {"lock", "bump"}) = Count(pc, Producers, {"lock", "bump"}) + p2
    /\ Count(pc', Consumers, {"lock", "bump"}) = Count(pc, Consumers, {"lock", "bump"}) + c2

\* What a thread's step from one statement to another adds.
LEMMA CountsAfter ==
    ASSUME TypeOK, NEW s \in Threads, NEW from, NEW to, Goto(s, from, to)
    PROVE  Adds(Moved(s, Producers, Busy, from, to),
                Moved(s, Consumers, Busy, from, to),
                Moved(s, Producers, {"access", "unlock", "announce"}, from, to),
                Moved(s, Producers, {"lock", "bump"}, from, to),
                Moved(s, Consumers, {"lock", "bump"}, from, to))
<1>1. /\ IsFiniteSet(Producers) /\ Producers \subseteq Threads
      /\ IsFiniteSet(Consumers) /\ Consumers \subseteq Threads
  BY SBufAssumption, SMT, Zenon, SMTT(30) DEF Threads
<1>2. pc = [x \in Threads |-> pc[x]]
  BY SMT, Zenon, SMTT(30) DEF TypeOK
<1>3. pc' = [pc EXCEPT ![s] = to]
  BY SMT, Zenon, SMTT(30) DEF Goto
<1>4. pc[s] = from
  BY SMT, Zenon, SMTT(30) DEF Goto
<1>5. ASSUME NEW T, IsFiniteSet(T), T \subseteq Threads, NEW A
      PROVE  Count(pc', T, A) = Count(pc, T, A) + Moved(s, T, A, from, to)
  <2>1. Count(pc', T, A) = Count(pc, T, A) + Moved(s, T, A, pc[s], to)
    BY <1>2, <1>3, <1>5, CountMoves, SMT, Zenon, SMTT(30)
  <2> QED  BY <2>1, <1>4, Zenon
<1> QED  BY <1>1, <1>5, Zenon DEF Adds

\* They are naturals, ordered by inclusion ...
LEMMA CountsNat ==
    /\ Count(pc, Producers, Busy) \in Nat
    /\ Count(pc, Consumers, Busy) \in Nat
    /\ Count(pc, Producers, {"access", "unlock", "announce"}) \in Nat
    /\ Count(pc, Producers, {"lock", "bump"}) \in Nat
    /\ Count(pc, Consumers, {"lock", "bump"}) \in Nat
    /\ Count(pc, Producers, {"access", "unlock", "announce"}) <= Count(pc, Producers, Busy)
    /\ Count(pc, Consumers, {"lock", "bump"}) <= Count(pc, Consumers, Busy)
<1>1. /\ {"access", "unlock", "announce"} \subseteq Busy
      /\ {"lock", "bump"} \subseteq Busy
  BY SMT, Zenon, SMTT(30) DEF Busy
<1>2. IsFiniteSet(Producers) /\ IsFiniteSet(Consumers)
  BY SBufAssumption, SMT, Zenon, SMTT(30)
<1> QED  BY <1>1, <1>2, CountSubset, Zenon

\* ... and positive when a thread is there.
LEMMA CountsPositive ==
    /\ \A t \in Producers :
        /\ pc[t] \in {"lock", "bump"} => Count(pc, Producers, {"lock", "bump"}) > 0
        /\ pc[t] \in Busy => Count(pc, Producers, Busy) > 0
        /\ pc[t] \in {"access", "unlock", "announce"} =>
              Count(pc, Producers, {"access", "unlock", "announce"}) > 0
    /\ \A t \in Consumers :
        /\ pc[t] \in {"lock", "bump"} => Count(pc, Consumers, {"lock", "bump"}) > 0
        /\ pc[t] \in Busy => Count(pc, Consumers, Busy) > 0
<1>1. /\ {"lock", "bump"} \subseteq {"lock", "bump"}
      /\ {"access", "unlock", "announce"} \subseteq {"access", "unlock", "announce"}
      /\ Busy \subseteq Busy
  BY SMT, Zenon, SMTT(30)
<1>2. IsFiniteSet(Producers) /\ IsFiniteSet(Consumers)
  BY SBufAssumption, SMT, Zenon, SMTT(30)
<1> QED  BY <1>1, <1>2, CountSubset, Zenon

\* Initially no thread is counted.
LEMMA InitInv == Init => Inv
<1> SUFFICES ASSUME Init PROVE Inv
  BY SMT, Zenon, SMTT(30)
<1>1. N \in Nat \ {0} /\ MaxItems \in Nat
  BY SBufAssumption, SMT, Zenon, SMTT(30)
<1>2. TypeOK
  BY <1>1, SMT, Zenon, SMTT(30) DEF Init, TypeOK, Index, Items, NoItem
<1>3. MutualExclusion
  BY SMT, Zenon, SMTT(30) DEF Init, MutualExclusion, InCritical
<1>4. ASSUME NEW T, T \subseteq Threads, NEW A, "idle" \notin A
      PROVE  Count(pc, T, A) = 0
  <2>1. {t \in T : pc[t] \in A} = {}
    BY <1>4, SMT, Zenon, SMTT(30) DEF Init
  <2> QED  BY <2>1, FS_EmptySet, SMT, Zenon, SMTT(30) DEF Count
<1>5. /\ Count(pc, Producers, Busy) = 0
      /\ Count(pc, Consumers, Busy) = 0
      /\ Count(pc, Producers, {"access", "unlock", "announce"}) = 0
      /\ Count(pc, Producers, {"lock", "bump"}) = 0
      /\ Count(pc, Consumers, {"lock", "bump"}) = 0
  <2>1. /\ "idle" \notin Busy /\ "idle" \notin {"lock", "bump"}
        /\ "idle" \notin {"access", "unlock", "announce"}
    BY SMT, Zenon, SMTT(30) DEF Busy
  <2>2. Producers \subseteq Threads /\ Consumers \subseteq Threads
    BY SMT, Zenon, SMTT(30) DEF Threads
  <2> QED  BY <1>4, <2>1, <2>2, Zenon
<1>6. Accounting
  BY <1>1, <1>5, SMT, Zenon, SMTT(30) DEF Init, Accounting
<1>7. Numbered
  <2>1. \A t \in Producers : pc[t] = "idle"
    BY SMT, Zenon, SMTT(30) DEF Init, Threads
  <2> QED  BY <1>5, <2>1, SMT, Zenon, SMTT(30) DEF Init, Numbered
<1> QED  BY <1>2, <1>3, <1>6, <1>7, SMT, Zenon, SMTT(30) DEF Inv

\* What every lemma on a step starts from, in numbers.
LEMMA Numbers ==
    ASSUME Inv
    PROVE  /\ N \in Nat /\ N > 0 /\ MaxItems \in Nat /\ INT_MAX \in Nat
           /\ mutex \in 0..1 /\ slots \in 0..N /\ items \in 0..N
           /\ front \in Nat /\ rear \in Nat /\ next \in 1..(MaxItems + 1)
           /\ front <= rear /\ rear - front <= N /\ rear < next
<1>1. N \in Nat /\ N > 0 /\ MaxItems \in Nat /\ INT_MAX \in Nat
  BY SBufAssumption, SMT, Zenon, SMTT(30)
<1>2. /\ mutex \in 0..1 /\ slots \in 0..N /\ items \in 0..N
      /\ front \in Nat /\ rear \in Nat /\ next \in 1..(MaxItems + 1)
  BY SMT, Zenon, SMTT(30) DEF Inv, TypeOK, Numbered
<1>3. front <= rear /\ rear - front <= N /\ rear < next
  BY <1>1, <1>2, CountsNat, SMT, Zenon, SMTT(30) DEF Inv, Accounting, Numbered
<1> QED  BY <1>1, <1>2, <1>3, SMT, Zenon, SMTT(30)

\* front and rear are not at INT_MAX when they are incremented.
LEMMA NoOverflow ==
    ASSUME Inv, MaxItems <= INT_MAX
    PROVE  /\ \A t \in Producers : pc[t] = "bump" => Bump(rear) = rear + 1
           /\ \A t \in Consumers : pc[t] = "bump" => Bump(front) = front + 1
<1>1. Accounting /\ Numbered
  BY SMT, Zenon, SMTT(30) DEF Inv
<1>2. ASSUME NEW t \in Producers, pc[t] = "bump" PROVE rear < INT_MAX
  BY <1>1, <1>2, Numbers, CountsNat, CountsPositive, SMT, Zenon, SMTT(30) DEF Numbered
<1>3. ASSUME NEW t \in Consumers, pc[t] = "bump" PROVE front < INT_MAX
  BY <1>1, <1>3, Numbers, CountsNat, CountsPositive, SMT, Zenon, SMTT(30) DEF Accounting
<1> QED  BY <1>2, <1>3, Numbers, SMT, Zenon, SMTT(30) DEF Bump

\* Only Lock and Unlock change who is in the critical section.
LEMMA CriticalKept ==
    ASSUME TypeOK, MutualExclusion, NEW t \in Threads, NEW from, NEW to,
           Goto(t, from, to), UNCHANGED mutex,
           from \in {"bump", "access", "unlock"} <=> to \in {"bump", "access", "unlock"}
    PROVE  MutualExclusion'
<1>1. \A s \in Threads : InCritical(s)' <=> InCritical(s)
  BY SMT, Zenon, SMTT(30) DEF TypeOK, Goto, InCritical
<1> QED  BY <1>1, SMT, Zenon, SMTT(30) DEF MutualExclusion

\* P(&sp->mutex) and V(&sp->mutex), for producers and consumers
LEMMA MutexStep ==
    ASSUME Inv, NEW t \in Threads, Lock(t) \/ Unlock(t)
    PROVE  Inv'
<1>1. TypeOK /\ MutualExclusion /\ Accounting /\ Numbered
  BY SMT, Zenon, SMTT(30) DEF Inv
<1>2. PICK from, to :
        /\ Goto(t, from, to)
        /\ <<from, to>> \in {<<"lock", "bump">>, <<"unlock", "announce">>}
  BY SMT, Zenon, SMTT(30) DEF Lock, Unlock
<1>3. Adds(0, 0, 0, 0, 0)
  <2>1. \A T : /\ Moved(t, T, Busy, from, to) = 0
               /\ Moved(t, T, {"access", "unlock", "announce"}, from, to) = 0
               /\ Moved(t, T, {"lock", "bump"}, from, to) = 0
    BY <1>2, SMT, Zenon, SMTT(30) DEF Moved, Busy
  <2> QED  BY <1>1, <1>2, <2>1, CountsAfter, Zenon
<1>4. UNCHANGED <<buf, front, rear, slots, items, item, next>>
  BY SMT, Zenon, SMTT(30) DEF Lock, Unlock
<1>5. /\ pc' \in [Threads -> {"idle", "lock", "bump", "access", "unlock", "announce"}]
      /\ \A s \in Threads : s # t => pc'[s] = pc[s]
      /\ pc[t] = from /\ pc'[t] = to
  BY <1>1, <1>2, SMT, Zenon, SMTT(30) DEF TypeOK, Goto
<1>6. MutualExclusion' /\ mutex' \in 0..1
  <2>1. CASE Lock(t)
    <3>1. mutex = 1 /\ mutex' = 0 /\ pc[t] = "lock" /\ pc'[t] = "bump"
      BY <1>1, <1>5, <2>1, SMT, Zenon, SMTT(30) DEF Lock, Goto, TypeOK
    <3>2. \A s \in Threads : InCritical(s)' => s = t
      BY <1>1, <1>5, <3>1, SMT, Zenon, SMTT(30) DEF MutualExclusion, InCritical
    <3> QED  BY <3>1, <3>2, SMT, Zenon, SMTT(30) DEF MutualExclusion
  <2>2. CASE Unlock(t)
    <3>1. pc[t] = "unlock" /\ pc'[t] = "announce" /\ mutex' = mutex + 1
      BY <1>5, <2>2, SMT, Zenon, SMTT(30) DEF Unlock, Goto
    <3>2. mutex = 0
      BY <1>1, <3>1, SMT, Zenon, SMTT(30) DEF MutualExclusion, InCritical, TypeOK
    <3>3. \A s \in Threads : ~InCritical(s)'
      BY <1>1, <1>5, <3>1, SMT, Zenon, SMTT(30) DEF MutualExclusion, InCritical
    <3> QED  BY <3>1, <3>2, <3>3, SMT, Zenon, SMTT(30) DEF MutualExclusion
  <2> QED  BY <2>1, <2>2, SMT, Zenon, SMTT(30)
<1>7. TypeOK'
  BY <1>1, <1>4, <1>5, <1>6, SMT, Zenon, SMTT(30) DEF TypeOK
<1>8. Accounting'
  BY <1>1, <1>3, <1>4, CountsNat, SMT, Zenon, SMTT(30) DEF Adds, Accounting
<1>9. Numbered'
  <2>1. \A s \in Producers : pc'[s] # "idle" => pc[s] # "idle"
    BY <1>2, <1>5, SMT, Zenon, SMTT(30) DEF Threads
  <2> QED  BY <1>1, <1>3, <1>4, <2>1, CountsNat, SMT, Zenon, SMTT(30) DEF Adds, Numbered
<1> QED  BY <1>6, <1>7, <1>8, <1>9, SMT, Zenon, SMTT(30) DEF Inv

\* A producer's steps: Moved for the counts of consumers is 0.
LEMMA InsertStep ==
    ASSUME Inv, MaxItems <= INT_MAX, NEW t \in Producers, Insert(t)
    PROVE  Inv'
<1>1. TypeOK /\ MutualExclusion /\ Accounting /\ Numbered
  BY SMT, Zenon, SMTT(30) DEF Inv
<1>2. t \in Threads /\ t \notin Consumers
  BY SBufAssumption, SMT, Zenon, SMTT(30) DEF Threads
<1>3. ASSUME NEW from, NEW to, Goto(t, from, to), to \in {"idle"} \cup Busy
      PROVE  /\ pc' \in [Threads -> {"idle", "lock", "bump", "access", "unlock", "announce"}]
             /\ \A s \in Threads : s # t => pc'[s] = pc[s]
             /\ pc[t] = from /\ pc'[t] = to
  BY <1>1, <1>2, <1>3, SMT, Zenon, SMTT(30) DEF TypeOK, Goto, Busy
<1>4. CASE InsertWait(t)
  <2>1. Goto(t, "idle", "lock") /\ UNCHANGED <<buf, front, rear, mutex, items>>
    BY <1>4, SMT, Zenon, SMTT(30) DEF InsertWait
  <2>2. /\ slots > 0 /\ slots' = slots - 1 /\ next <= MaxItems /\ next' = next + 1
        /\ item' = [item EXCEPT ![t] = next]
    BY <1>4, SMT, Zenon, SMTT(30) DEF InsertWait
  <2>3. Adds(1, 0, 0, 1, 0)
    <3>1. /\ Moved(t, Producers, Busy, "idle", "lock") = 1
          /\ Moved(t, Producers, {"access", "unlock", "announce"}, "idle", "lock") = 0
          /\ Moved(t, Producers, {"lock", "bump"}, "idle", "lock") = 1
          /\ Moved(t, Consumers, Busy, "idle", "lock") = 0
          /\ Moved(t, Consumers, {"lock", "bump"}, "idle", "lock") = 0
      BY <1>2, Zenon DEF Moved, Busy
    <3> QED  BY <1>1, <1>2, <2>1, <3>1, CountsAfter, Zenon
  <2>4. /\ pc' \in [Threads -> {"idle", "lock", "bump", "access", "unlock", "announce"}]
        /\ \A s \in Threads : s # t => pc'[s] = pc[s]
    BY <1>3, <2>1, SMT, Zenon, SMTT(30) DEF Busy
  <2>5. next \in Items /\ next' \in 1..(MaxItems + 1) /\ slots' \in 0..N
    BY <2>2, Numbers, SMT, Zenon, SMTT(30) DEF Items
  <2>6. TypeOK'
    BY <1>1, <2>1, <2>2, <2>4, <2>5, Zenon DEF TypeOK
  <2>7. MutualExclusion'
    BY <1>1, <1>2, <2>1, CriticalKept, SMT, Zenon, SMTT(30)
  <2>8. Accounting'
    BY <1>1, <2>1, <2>2, <2>3, Numbers, CountsNat, SMT, Zenon, SMTT(30) DEF Adds, Accounting
  <2>9. Numbered'
    <3>1. rear' + Count(pc', Producers, {"lock", "bump"}) = next' - 1
      BY <1>1, <2>1, <2>2, <2>3, Numbers, CountsNat, SMT, Zenon, SMTT(30) DEF Adds, Numbered
    <3>2. \A s \in Producers : pc'[s] # "idle" => item'[s] \in Items
      BY <1>1, <1>2, <2>2, <2>4, <2>5, SMT, Zenon, SMTT(30) DEF Numbered, TypeOK, Threads
    <3> QED  BY <1>1, <2>1, <3>1, <3>2, SMT, Zenon, SMTT(30) DEF Numbered
  <2> QED  BY <2>6, <2>7, <2>8, <2>9, SMT, Zenon, SMTT(30) DEF Inv
<1>5. CASE InsertBump(t)
  <2>1. /\ Goto(t, "bump", "access")
        /\ UNCHANGED <<buf, front, mutex, slots, items, item, next>>
    BY <1>5, SMT, Zenon, SMTT(30) DEF InsertBump
  <2>2. pc[t] = "bump"
    BY <2>1, SMT, Zenon, SMTT(30) DEF Goto
  <2>3. rear' = rear + 1
    BY <1>5, <2>2, NoOverflow, SMT, Zenon, SMTT(30) DEF InsertBump
  <2>4. Adds(0, 0, 1, -1, 0)
    <3>1. /\ Moved(t, Producers, Busy, "bump", "access") = 0
          /\ Moved(t, Producers, {"access", "unlock", "announce"}, "bump", "access") = 1
          /\ Moved(t, Producers, {"lock", "bump"}, "bump", "access") = -1
          /\ Moved(t, Consumers, Busy, "bump", "access") = 0
          /\ Moved(t, Consumers, {"lock", "bump"}, "bump", "access") = 0
      BY <1>2, Zenon DEF Moved, Busy
    <3> QED  BY <1>1, <1>2, <2>1, <3>1, CountsAfter, Zenon
  <2>5. /\ pc' \in [Threads -> {"idle", "lock", "bump", "access", "unlock", "announce"}]
        /\ \A s \in Threads : s # t => pc'[s] = pc[s]
    BY <1>3, <2>1, SMT, Zenon, SMTT(30) DEF Busy
  <2>6. TypeOK'
    BY <1>1, <2>1, <2>3, <2>5, SMT, Zenon, SMTT(30) DEF TypeOK
  <2>7. MutualExclusion'
    BY <1>1, <1>2, <2>1, CriticalKept, SMT, Zenon, SMTT(30)
  <2>8. Accounting'
    BY <1>1, <2>1, <2>3, <2>4, Numbers, CountsNat, SMT, Zenon, SMTT(30) DEF Adds, Accounting
  <2>9. Numbered'
    <3>1. rear' + Count(pc', Producers, {"lock", "bump"}) = next' - 1
      BY <1>1, <2>1, <2>3, <2>4, Numbers, CountsNat, SMT, Zenon, SMTT(30) DEF Adds, Numbered
    <3>2. \A s \in Producers : pc'[s] # "idle" => item'[s] \in Items
      BY <1>1, <2>1, <2>2, <2>5, SMT, Zenon, SMTT(30) DEF Numbered, Threads
    <3> QED  BY <1>1, <2>1, <2>3, <3>1, <3>2, SMT, Zenon, SMTT(30) DEF Numbered
  <2> QED  BY <2>6, <2>7, <2>8, <2>9, SMT, Zenon, SMTT(30) DEF Inv
<1>6. CASE InsertStore(t)
  <2>1. Goto(t, "access", "unlock") /\ UNCHANGED <<front, rear, mutex, slots, items, item, next>>
    BY <1>6, SMT, Zenon, SMTT(30) DEF InsertStore
  <2>2. pc[t] = "access"
    BY <2>1, SMT, Zenon, SMTT(30) DEF Goto
  <2>3. buf' \in [Index -> Items \cup {NoItem}]
    BY <1>1, <1>2, <1>6, SMT, Zenon, SMTT(30) DEF InsertStore, TypeOK
  <2>4. Adds(0, 0, 0, 0, 0)
    <3>1. /\ Moved(t, Producers, Busy, "access", "unlock") = 0
          /\ Moved(t, Producers, {"access", "unlock", "announce"}, "access", "unlock") = 0
          /\ Moved(t, Producers, {"lock", "bump"}, "access", "unlock") = 0
          /\ Moved(t, Consumers, Busy, "access", "unlock") = 0
          /\ Moved(t, Consumers, {"lock", "bump"}, "access", "unlock") = 0
      BY <1>2, Zenon DEF Moved, Busy
    <3> QED  BY <1>1, <1>2, <2>1, <3>1, CountsAfter, Zenon
  <2>5. /\ pc' \in [Threads -> {"idle", "lock", "bump", "access", "unlock", "announce"}]
        /\ \A s \in Threads : s # t => pc'[s] = pc[s]
    BY <1>3, <2>1, SMT, Zenon, SMTT(30) DEF Busy
  <2>6. TypeOK'
    BY <1>1, <2>1, <2>3, <2>5, SMT, Zenon, SMTT(30) DEF TypeOK
  <2>7. MutualExclusion'
    BY <1>1, <1>2, <2>1, CriticalKept, SMT, Zenon, SMTT(30)
  <2>8. Accounting'
    BY <1>1, <2>1, <2>4, CountsNat, SMT, Zenon, SMTT(30) DEF Adds, Accounting
  <2>9. Numbered'
    <3>1. \A s \in Producers : pc'[s] # "idle" => item'[s] \in Items
      BY <1>1, <2>1, <2>2, <2>5, SMT, Zenon, SMTT(30) DEF Numbered, Threads
    <3> QED  BY <1>1, <2>1, <2>4, <3>1, CountsNat, SMT, Zenon, SMTT(30) DEF Adds, Numbered
  <2> QED  BY <2>6, <2>7, <2>8, <2>9, SMT, Zenon, SMTT(30) DEF Inv
<1>7. CASE InsertAnnounce(t)
  <2>1. Goto(t, "announce", "idle") /\ UNCHANGED <<buf, front, rear, mutex, slots, next>>
    BY <1>7, SMT, Zenon, SMTT(30) DEF InsertAnnounce
  <2>2. items' = items + 1 /\ item' = [item EXCEPT ![t] = NoItem]
    BY <1>7, SMT, Zenon, SMTT(30) DEF InsertAnnounce
  <2>3. Adds(-1, 0, -1, 0, 0)
    <3>1. /\ Moved(t, Producers, Busy, "announce", "idle") = -1
          /\ Moved(t, Producers, {"access", "unlock", "announce"}, "announce", "idle") = -1
          /\ Moved(t, Producers, {"lock", "bump"}, "announce", "idle") = 0
          /\ Moved(t, Consumers, Busy, "announce", "idle") = 0
          /\ Moved(t, Consumers, {"lock", "bump"}, "announce", "idle") = 0
      BY <1>2, Zenon DEF Moved, Busy
    <3> QED  BY <1>1, <1>2, <2>1, <3>1, CountsAfter, Zenon
  <2>4. /\ pc' \in [Threads -> {"idle", "lock", "bump", "access", "unlock", "announce"}]
        /\ \A s \in Threads : s # t => pc'[s] = pc[s]
        /\ pc'[t] = "idle"
    BY <1>3, <2>1, SMT, Zenon, SMTT(30)
  <2>5. Accounting'
    BY <1>1, <2>1, <2>2, <2>3, Numbers, CountsNat, SMT, Zenon, SMTT(30) DEF Adds, Accounting
  <2>6. items' \in 0..N
    <3>1. pc[t] \in Busy
      BY <2>1, SMT, Zenon, SMTT(30) DEF Goto, Busy
    <3>2. Count(pc, Producers, Busy) > 0
      BY <3>1, CountsPositive, SMT, Zenon, SMTT(30)
    <3> QED  BY <1>1, <2>2, <3>2, Numbers, CountsNat, SMT, Zenon, SMTT(30) DEF Accounting
  <2>7. TypeOK'
    BY <1>1, <2>1, <2>2, <2>4, <2>6, Zenon DEF TypeOK
  <2>8. MutualExclusion'
    BY <1>1, <1>2, <2>1, CriticalKept, SMT, Zenon, SMTT(30)
  <2>9. Numbered'
    <3>1. \A s \in Producers : pc'[s] # "idle" => item'[s] \in Items
      BY <1>1, <2>2, <2>4, SMT, Zenon, SMTT(30) DEF Numbered, TypeOK, Threads
    <3> QED  BY <1>1, <2>1, <2>3, <3>1, CountsNat, SMT, Zenon, SMTT(30) DEF Adds, Numbered
  <2> QED  BY <2>5, <2>7, <2>8, <2>9, SMT, Zenon, SMTT(30) DEF Inv
<1>8. CASE Lock(t) \/ Unlock(t)
  BY <1>2, <1>8, MutexStep, SMT, Zenon, SMTT(30)
<1> QED  BY <1>4, <1>5, <1>6, <1>7, <1>8, SMT, Zenon, SMTT(30) DEF Insert

\* A consumer's steps: Moved for the counts of producers is 0.
LEMMA RemoveStep ==
    ASSUME Inv, MaxItems <= INT_MAX, NEW t \in Consumers, Remove(t)
    PROVE  Inv'
<1>1. TypeOK /\ MutualExclusion /\ Accounting /\ Numbered
  BY SMT, Zenon, SMTT(30) DEF Inv
<1>2. t \in Threads /\ t \notin Producers
  BY SBufAssumption, SMT, Zenon, SMTT(30) DEF Threads
<1>3. ASSUME NEW from, NEW to, Goto(t, from, to), to \in {"idle"} \cup Busy
      PROVE  /\ pc' \in [Threads -> {"idle", "lock", "bump", "access", "unlock", "announce"}]
             /\ \A s \in Producers : pc'[s] = pc[s]
  BY <1>1, <1>2, <1>3, SMT, Zenon, SMTT(30) DEF TypeOK, Goto, Busy, Threads
<1>4. CASE RemoveWait(t)
  <2>1. /\ Goto(t, "idle", "lock")
        /\ UNCHANGED <<buf, front, rear, mutex, slots, item, next>>
    BY <1>4, SMT, Zenon, SMTT(30) DEF RemoveWait
  <2>2. items > 0 /\ items' = items - 1
    BY <1>4, SMT, Zenon, SMTT(30) DEF RemoveWait
  <2>3. Adds(0, 1, 0, 0, 1)
    <3>1. /\ Moved(t, Producers, Busy, "idle", "lock") = 0
          /\ Moved(t, Producers, {"access", "unlock", "announce"}, "idle", "lock") = 0
          /\ Moved(t, Producers, {"lock", "bump"}, "idle", "lock") = 0
          /\ Moved(t, Consumers, Busy, "idle", "lock") = 1
          /\ Moved(t, Consumers, {"lock", "bump"}, "idle", "lock") = 1
      BY <1>2, Zenon DEF Moved, Busy
    <3> QED  BY <1>1, <1>2, <2>1, <3>1, CountsAfter, Zenon
  <2>4. /\ pc' \in [Threads -> {"idle", "lock", "bump", "access", "unlock", "announce"}]
        /\ \A s \in Producers : pc'[s] = pc[s]
    BY <1>3, <2>1, SMT, Zenon, SMTT(30) DEF Busy
  <2>5. items' \in 0..N
    BY <2>2, Numbers, SMT, Zenon, SMTT(30)
  <2>6. TypeOK'
    BY <1>1, <2>1, <2>4, <2>5, Zenon DEF TypeOK
  <2>7. MutualExclusion'
    BY <1>1, <1>2, <2>1, CriticalKept, SMT, Zenon, SMTT(30)
  <2>8. Accounting'
    BY <1>1, <2>1, <2>2, <2>3, Numbers, CountsNat, SMT, Zenon, SMTT(30) DEF Adds, Accounting
  <2>9. Numbered'
    BY <1>1, <2>1, <2>3, <2>4, CountsNat, SMT, Zenon, SMTT(30) DEF Adds, Numbered
  <2> QED  BY <2>6, <2>7, <2>8, <2>9, SMT, Zenon, SMTT(30) DEF Inv
<1>5. CASE RemoveBump(t)
  <2>1. /\ Goto(t, "bump", "access")
        /\ UNCHANGED <<buf, rear, mutex, slots, items, item, next>>
    BY <1>5, SMT, Zenon, SMTT(30) DEF RemoveBump
  <2>2. front' = front + 1
    <3>1. pc[t] = "bump"
      BY <2>1, SMT, Zenon, SMTT(30) DEF Goto
    <3> QED  BY <1>5, <3>1, NoOverflow, SMT, Zenon, SMTT(30) DEF RemoveBump
  <2>3. Adds(0, 0, 0, 0, -1)
    <3>1. /\ Moved(t, Producers, Busy, "bump", "access") = 0
          /\ Moved(t, Producers, {"access", "unlock", "announce"}, "bump", "access") = 0
          /\ Moved(t, Producers, {"lock", "bump"}, "bump", "access") = 0
          /\ Moved(t, Consumers, Busy, "bump", "access") = 0
          /\ Moved(t, Consumers, {"lock", "bump"}, "bump", "access") = -1
      BY <1>2, Zenon DEF Moved, Busy
    <3> QED  BY <1>1, <1>2, <2>1, <3>1, CountsAfter, Zenon
  <2>4. /\ pc' \in [Threads -> {"idle", "lock", "bump", "access", "unlock", "announce"}]
        /\ \A s \in Producers : pc'[s] = pc[s]
    BY <1>3, <2>1, SMT, Zenon, SMTT(30) DEF Busy
  <2>5. front' \in Nat
    BY <2>2, Numbers, SMT, Zenon, SMTT(30)
  <2>6. TypeOK'
    BY <1>1, <2>1, <2>4, <2>5, SMT, Zenon, SMTT(30) DEF TypeOK
  <2>7. MutualExclusion'
    BY <1>1, <1>2, <2>1, CriticalKept, SMT, Zenon, SMTT(30)
  <2>8. Accounting'
    BY <1>1, <2>1, <2>2, <2>3, Numbers, CountsNat, SMT, Zenon, SMTT(30) DEF Adds, Accounting
  <2>9. Numbered'
    BY <1>1, <2>1, <2>3, <2>4, <2>5, CountsNat, SMT, Zenon, SMTT(30) DEF Adds, Numbered
  <2> QED  BY <2>6, <2>7, <2>8, <2>9, SMT, Zenon, SMTT(30) DEF Inv
<1>6. CASE RemoveLoad(t)
  <2>1. /\ Goto(t, "access", "unlock")
        /\ UNCHANGED <<buf, front, rear, mutex, slots, items, next>>
    BY <1>6, SMT, Zenon, SMTT(30) DEF RemoveLoad
  <2>2. PICK x \in Items \cup {NoItem} : item' = [item EXCEPT ![t] = x]
    BY <1>1, <1>6, Zenon DEF RemoveLoad, TypeOK
  <2>3. Adds(0, 0, 0, 0, 0)
    <3>1. /\ Moved(t, Producers, Busy, "access", "unlock") = 0
          /\ Moved(t, Producers, {"access", "unlock", "announce"}, "access", "unlock") = 0
          /\ Moved(t, Producers, {"lock", "bump"}, "access", "unlock") = 0
          /\ Moved(t, Consumers, Busy, "access", "unlock") = 0
          /\ Moved(t, Consumers, {"lock", "bump"}, "access", "unlock") = 0
      BY <1>2, Zenon DEF Moved, Busy
    <3> QED  BY <1>1, <1>2, <2>1, <3>1, CountsAfter, Zenon
  <2>4. /\ pc' \in [Threads -> {"idle", "lock", "bump", "access", "unlock", "announce"}]
        /\ \A s \in Producers : pc'[s] = pc[s]
    BY <1>3, <2>1, SMT, Zenon, SMTT(30) DEF Busy
  <2>5. item' \in [Threads -> Items \cup {NoItem}] /\ \A s \in Producers : item'[s] = item[s]
    BY <1>1, <1>2, <2>2, SMT, Zenon, SMTT(30) DEF TypeOK, Threads
  <2>6. TypeOK'
    BY <1>1, <2>1, <2>4, <2>5, Zenon DEF TypeOK
  <2>7. MutualExclusion'
    BY <1>1, <1>2, <2>1, CriticalKept, SMT, Zenon, SMTT(30)
  <2>8. Accounting'
    BY <1>1, <2>1, <2>3, CountsNat, SMT, Zenon, SMTT(30) DEF Adds, Accounting
  <2>9. Numbered'
    BY <1>1, <2>1, <2>3, <2>4, <2>5, CountsNat, SMT, Zenon, SMTT(30) DEF Adds, Numbered
  <2> QED  BY <2>6, <2>7, <2>8, <2>9, SMT, Zenon, SMTT(30) DEF Inv
<1>7. CASE RemoveAnnounce(t)
  <2>1. /\ Goto(t, "announce", "idle")
        /\ UNCHANGED <<buf, front, rear, mutex, items, next>>
    BY <1>7, SMT, Zenon, SMTT(30) DEF RemoveAnnounce
  <2>2. slots' = slots + 1 /\ item' = [item EXCEPT ![t] = NoItem]
    BY <1>7, SMT, Zenon, SMTT(30) DEF RemoveAnnounce
  <2>3. Adds(0, -1, 0, 0, 0)
    <3>1. /\ Moved(t, Producers, Busy, "announce", "idle") = 0
          /\ Moved(t, Producers, {"access", "unlock", "announce"}, "announce", "idle") = 0
          /\ Moved(t, Producers, {"lock", "bump"}, "announce", "idle") = 0
          /\ Moved(t, Consumers, Busy, "announce", "idle") = -1
          /\ Moved(t, Consumers, {"lock", "bump"}, "announce", "idle") = 0
      BY <1>2, Zenon DEF Moved, Busy
    <3> QED  BY <1>1, <1>2, <2>1, <3>1, CountsAfter, Zenon
  <2>4. /\ pc' \in [Threads -> {"idle", "lock", "bump", "access", "unlock", "announce"}]
        /\ \A s \in Producers : pc'[s] = pc[s]
    BY <1>3, <2>1, SMT, Zenon, SMTT(30)
  <2>5. slots' \in 0..N
    <3>1. pc[t] \in Busy
      BY <2>1, SMT, Zenon, SMTT(30) DEF Goto, Busy
    <3>2. Count(pc, Consumers, Busy) > 0
      BY <3>1, CountsPositive, SMT, Zenon, SMTT(30)
    <3> QED  BY <1>1, <2>2, <3>2, Numbers, CountsNat, SMT, Zenon, SMTT(30) DEF Accounting
  <2>6. item' \in [Threads -> Items \cup {NoItem}] /\ \A s \in Producers : item'[s] = item[s]
    BY <1>1, <1>2, <2>2, SMT, Zenon, SMTT(30) DEF TypeOK, Threads
  <2>7. TypeOK'
    BY <1>1, <2>1, <2>4, <2>5, <2>6, Zenon DEF TypeOK
  <2>8. MutualExclusion'
    BY <1>1, <1>2, <2>1, CriticalKept, SMT, Zenon, SMTT(30)
  <2>9. Accounting'
    BY <1>1, <2>1, <2>2, <2>3, Numbers, CountsNat, SMT, Zenon, SMTT(30) DEF Adds, Accounting
  <2>10. Numbered'
    BY <1>1, <2>1, <2>3, <2>4, <2>6, CountsNat, SMT, Zenon, SMTT(30) DEF Adds, Numbered
  <2> QED  BY <2>7, <2>8, <2>9, <2>10, SMT, Zenon, SMTT(30) DEF Inv
<1>8. CASE Lock(t) \/ Unlock(t)
  BY <1>2, <1>8, MutexStep, SMT, Zenon, SMTT(30)
<1> QED  BY <1>4, <1>5, <1>6, <1>7, <1>8, SMT, Zenon, SMTT(30) DEF Remove

\* Init, and every step of a thread, establishes Inv.
LEMMA NextInv == Inv /\ MaxItems <= INT_MAX /\ [Next]_vars => Inv'
<1> SUFFICES ASSUME Inv, MaxItems <= INT_MAX, [Next]_vars PROVE Inv'
  BY SMT, Zenon, SMTT(30)
<1>1. CASE \E t \in Producers : Insert(t)
  BY <1>1, InsertStep, SMT, Zenon, SMTT(30)
<1>2. CASE \E t \in Consumers : Remove(t)
  BY <1>2, RemoveStep, SMT, Zenon, SMTT(30)
<1>3. CASE UNCHANGED vars
  BY <1>3, Zenon DEF vars, Inv, TypeOK, MutualExclusion, InCritical, Accounting, Numbered
<1> QED  BY <1>1, <1>2, <1>3, SMT, Zenon, SMTT(30) DEF Next, Drained

(***************************************************************************)
(* The invariant that carries the theorems below (sbuf.c:23-55), for as    *)
(* many items as an int can count.                                         *)
(***************************************************************************)
THEOREM SBufInvariant == MaxItems <= INT_MAX => (Spec => []Inv)
<1> SUFFICES ASSUME MaxItems <= INT_MAX PROVE Spec => []Inv
  BY SMT, Zenon, SMTT(30)
<1>1. Inv /\ [Next]_vars => Inv'
  BY NextInv, SMT, Zenon, SMTT(30)
<1> QED  BY <1>1, InitInv, PTL DEF Spec

(***************************************************************************)
(* One thread at a time is in the critical section (sbuf.c:41-43, 51-53).  *)
(***************************************************************************)
THEOREM OneThreadInside == MaxItems <= INT_MAX => (Spec => []MutualExclusion)
<1>1. Inv => MutualExclusion
  BY SMT, Zenon, SMTT(30) DEF Inv
<1> QED  BY <1>1, SBufInvariant, PTL

(***************************************************************************)
(* The semaphores, the threads and the two counters always agree           *)
(* (sbuf.c:39-55).                                                         *)
(***************************************************************************)
THEOREM SemaphoresAgree == MaxItems <= INT_MAX => (Spec => []Accounting)
<1>1. Inv => Accounting
  BY SMT, Zenon, SMTT(30) DEF Inv
<1> QED  BY <1>1, SBufInvariant, PTL

\* The remainder of a counter is a place of buf.
LEMMA RemIsIndex ==
    ASSUME NEW x \in Nat
    PROVE  Rem(x) = x % N /\ Rem(x) \in Index
BY SBufAssumption, SMT, Zenon, SMTT(30) DEF Rem, Index
-----------------------------------------------------------------------------
\* Two counters less than N apart have different remainders.
LEMMA PlacesDiffer ==
    ASSUME NEW a \in Nat, NEW b \in Nat, a < b, b - a < N
    PROVE  a % N # b % N
<1>1. N \in Nat /\ N > 0
  BY SBufAssumption, SMT, Zenon, SMTT(30)
<1>2. a = N * (a \div N) + (a % N) /\ b = N * (b \div N) + (b % N)
  BY <1>1, SMT, Zenon, SMTT(30)
<1>3. a \div N \in Int /\ b \div N \in Int
  BY <1>1, SMT, Zenon, SMTT(30)
<1>4. PICK p \in Int : a = N * p + (a % N)
  BY <1>2, <1>3, Zenon
<1>5. PICK q \in Int : b = N * q + (b % N)
  BY <1>2, <1>3, Zenon
<1>6. SUFFICES ASSUME a % N = b % N PROVE FALSE
  BY SMT, Zenon, SMTT(30)
<1>7. b - a = N * (q - p)
  BY <1>1, <1>4, <1>5, <1>6, SMT, Zenon, SMTT(30)
<1>8. PICK k \in Int : b - a = N * k
  <2>1. q - p \in Int
    BY SMT, Zenon, SMTT(30)
  <2> QED  BY <1>7, <2>1, Zenon
<1>9. (k <= 0 => N * k <= 0) /\ (k >= 1 => N * k >= N)
  BY <1>1, SMT, Zenon, SMTT(30)
<1> QED  BY <1>1, <1>8, <1>9, SMT, Zenon, SMTT(30)

\* w lists the places of b from first + 1 to last.
Lists(w, V, b, first, last) ==
    /\ w \in Seq(V) /\ Len(w) = last - first
    /\ \A i \in 1..(last - first) : w[i] = b[(first + i) % N]

\* Storing x at place next1 of b appends it to the window; removing place first1 from
\* the window takes its head.
Appends(V, b, first, last, x, next1) ==
    Window([b EXCEPT ![next1 % N] = x], first, next1) = Append(Window(b, first, last), x)

Drops(V, b, first, last, first1) ==
    /\ Window(b, first, last) # <<>>
    /\ Head(Window(b, first, last)) = b[first1 % N]
    /\ Tail(Window(b, first, last)) = Window(b, first1, last)

\* A window of buf is a sequence ...
LEMMA WindowSeq ==
    ASSUME NEW V, NEW b \in [Index -> V], NEW first \in Int, first >= -1,
           NEW last \in Int, last >= first
    PROVE  Lists(Window(b, first, last), V, b, first, last)
<1> DEFINE w == Window(b, first, last)
<1>1. N \in Nat /\ N > 0
  BY SBufAssumption, SMT, Zenon, SMTT(30)
<1>2. \A i \in 1..(last - first) : (first + i) % N \in Index
  BY <1>1, SMT, Zenon, SMTT(30) DEF Index
<1>3. w \in [1..(last - first) -> V]
  BY <1>2, Zenon DEF Window
<1>4. last - first \in Nat
  BY SMT, Zenon, SMTT(30)
<1>5. \A i \in 1..(last - first) : w[i] = b[(first + i) % N]
  BY SMT, Zenon, SMTT(30) DEF Window
<1>6. w \in Seq(V) /\ Len(w) = last - first
  <2> HIDE DEF w
  <2> QED  BY <1>3, <1>4, SMT, Zenon, SMTT(30)
<1> QED  BY <1>5, <1>6, Zenon DEF Lists

\* ... that grows at its end by a store behind it, which overwrites none of it, ...
LEMMA WindowAppend ==
    ASSUME NEW V, NEW b \in [Index -> V], NEW first \in Nat, NEW last \in Int,
           last >= first, last - first < N, NEW x \in V, NEW next1 \in Int, next1 = last + 1
    PROVE  Appends(V, b, first, last, x, next1)
<1>1. N \in Nat /\ N > 0
  BY SBufAssumption, SMT, Zenon, SMTT(30)
<1>2. first \in Int /\ first >= -1 /\ next1 >= first /\ next1 \in Nat
  BY SMT, Zenon, SMTT(30)
<1>3. next1 % N \in Index
  BY <1>1, SMT, Zenon, SMTT(30) DEF Index
<1>4. PICK c \in [Index -> V] : c = [b EXCEPT ![next1 % N] = x]
  BY <1>3, Zenon
<1>5. PICK s : s = Window(c, first, next1)
  BY SMT, Zenon, SMTT(30)
<1>6. PICK w : w = Window(b, first, last)
  BY SMT, Zenon, SMTT(30)
<1>7. /\ s \in Seq(V) /\ Len(s) = next1 - first
      /\ \A i \in 1..(next1 - first) : s[i] = c[(first + i) % N]
  <2>1. Lists(s, V, c, first, next1)
    BY <1>2, <1>5, WindowSeq, SMT, Zenon, SMTT(30)
  <2> QED  BY <2>1, Zenon DEF Lists
<1>8. /\ w \in Seq(V) /\ Len(w) = last - first
      /\ \A i \in 1..(last - first) : w[i] = b[(first + i) % N]
  <2>1. Lists(w, V, b, first, last)
    BY <1>2, <1>6, WindowSeq, SMT, Zenon, SMTT(30)
  <2> QED  BY <2>1, Zenon DEF Lists
<1>9. /\ Append(w, x) \in Seq(V) /\ Len(Append(w, x)) = next1 - first
      /\ \A i \in 1..(last - first) : Append(w, x)[i] = w[i]
      /\ Append(w, x)[next1 - first] = x
  BY <1>8, AppendProperties, SMT, Zenon, SMTT(30)
<1>10. ASSUME NEW i \in 1..(next1 - first)
       PROVE  s[i] = Append(w, x)[i]
  <2>1. PICK a \in Nat : a = first + i
    BY SMT, Zenon, SMTT(30)
  <2>2. s[i] = c[a % N]
    BY <1>7, <2>1, SMT, Zenon, SMTT(30)
  <2>3. CASE i \in 1..(last - first)
    <3>1. a < next1 /\ next1 - a < N
      BY <1>1, <2>1, <2>3, SMT, Zenon, SMTT(30)
    <3>2. a % N # next1 % N
      BY <1>2, <3>1, PlacesDiffer, SMT, Zenon, SMTT(30)
    <3>3. a % N \in Index
      BY <1>1, SMT, Zenon, SMTT(30) DEF Index
    <3>4. c[a % N] = b[a % N]
      BY <1>4, <3>2, <3>3, Zenon
    <3>5. Append(w, x)[i] = b[a % N]
      BY <1>8, <1>9, <2>1, <2>3, SMT, Zenon, SMTT(30)
    <3> QED  BY <2>2, <3>4, <3>5, Zenon
  <2>4. CASE i \notin 1..(last - first)
    <3>1. i = next1 - first /\ a = next1
      BY <2>1, <2>4, SMT, Zenon, SMTT(30)
    <3>2. c[next1 % N] = x
      BY <1>3, <1>4, Zenon
    <3> QED  BY <1>9, <2>2, <3>1, <3>2, Zenon
  <2> QED  BY <2>3, <2>4, Zenon
<1>11. s = Append(w, x)
  BY <1>7, <1>9, <1>10, SeqEqual, SMT, Zenon, SMTT(30)
<1> QED  BY <1>4, <1>5, <1>6, <1>11, Zenon DEF Appends

\* ... and shrinks at its front.
LEMMA WindowTail ==
    ASSUME NEW V, NEW b \in [Index -> V], NEW first \in Int, first >= -1,
           NEW last \in Int, last > first, NEW first1 \in Int, first1 = first + 1
    PROVE  Drops(V, b, first, last, first1)
<1>1. last >= first /\ last >= first1 /\ first1 >= -1
  BY SMT, Zenon, SMTT(30)
<1>2. PICK w : w = Window(b, first, last)
  BY SMT, Zenon, SMTT(30)
<1>3. PICK s : s = Window(b, first1, last)
  BY SMT, Zenon, SMTT(30)
<1>4. /\ w \in Seq(V) /\ Len(w) = last - first
      /\ \A i \in 1..(last - first) : w[i] = b[(first + i) % N]
  <2>1. Lists(w, V, b, first, last)
    BY <1>1, <1>2, WindowSeq, SMT, Zenon, SMTT(30)
  <2> QED  BY <2>1, Zenon DEF Lists
<1>5. /\ s \in Seq(V) /\ Len(s) = last - first1
      /\ \A i \in 1..(last - first1) : s[i] = b[(first1 + i) % N]
  <2>1. Lists(s, V, b, first1, last)
    BY <1>1, <1>3, WindowSeq, SMT, Zenon, SMTT(30)
  <2> QED  BY <2>1, Zenon DEF Lists
<1>6. w # <<>>
  BY <1>4, SMT, Zenon, SMTT(30)
<1>7. /\ Tail(w) \in Seq(V) /\ Len(Tail(w)) = Len(w) - 1
      /\ \A i \in 1..Len(Tail(w)) : Tail(w)[i] = w[i + 1]
  BY <1>4, <1>6, HeadTailProperties, SMT, Zenon, SMTT(30)
<1>8. ASSUME NEW i \in 1..Len(Tail(w))
      PROVE  Tail(w)[i] = s[i]
  <2>1. i + 1 \in 1..(last - first) /\ i \in 1..(last - first1)
    BY <1>4, <1>7, SMT, Zenon, SMTT(30)
  <2>2. first + (i + 1) = first1 + i
    BY <2>1, SMT, Zenon, SMTT(30)
  <2> QED  BY <1>4, <1>5, <1>7, <2>1, <2>2, SMT, Zenon, SMTT(30)
<1>9. Tail(w) = s
  <2>1. Len(Tail(w)) = Len(s)
    BY <1>4, <1>5, <1>7, SMT, Zenon, SMTT(30)
  <2> QED  BY <1>5, <1>7, <1>8, <2>1, SeqEqual, SMT, Zenon, SMTT(30)
<1>10. Head(w) = b[first1 % N]
  <2>1. Head(w) = w[1]
    BY <1>4, <1>6, SMT, Zenon, SMTT(30)
  <2>2. w[1] = b[(first + 1) % N]
    BY <1>1, <1>4, SMT, Zenon, SMTT(30)
  <2> QED  BY <2>1, <2>2, SMT, Zenon, SMTT(30)
<1> QED  BY <1>2, <1>3, <1>6, <1>9, <1>10, Zenon DEF Drops
-----------------------------------------------------------------------------
\* While one thread is in the critical section no other one accesses buf.
LEMMA NoOtherAccess ==
    ASSUME Inv, NEW t \in Threads, InCritical(t)
    PROVE  \A s \in Threads : pc[s] = "access" => s = t
BY Zenon DEF Inv, MutualExclusion, InCritical

\* A step that neither begins nor ends an access leaves the queue as it is.
LEMMA QueueKept ==
    ASSUME Inv, NEW t \in Threads, NEW from, NEW to, Goto(t, from, to),
           from # "access", to # "access", UNCHANGED <<buf, front, rear>>
    PROVE  UNCHANGED Stored
<1>1. \A s \in Threads : pc'[s] = "access" <=> pc[s] = "access"
  BY SMT, Zenon, SMTT(30) DEF Inv, TypeOK, Goto
<1>2. /\ (\E s \in Producers : pc'[s] = "access") <=> (\E s \in Producers : pc[s] = "access")
      /\ (\E s \in Consumers : pc'[s] = "access") <=> (\E s \in Consumers : pc[s] = "access")
  BY <1>1, Zenon DEF Threads
<1>3. Inserted' = Inserted /\ Removed' = Removed
  BY <1>2, Zenon DEF Inserted, Removed
<1> QED  BY <1>3, Zenon DEF Stored, Window

\* A consumer holds an item only between the read of buf and its return.
EmptyHanded ==
    \A c \in Consumers : pc[c] \notin {"unlock", "announce"} => item[c] = NoItem

\* No step leaves an item in the hands of a consumer outside of the call.
LEMMA HandsStep ==
    ASSUME Inv, EmptyHanded, [Next]_vars
    PROVE  EmptyHanded'
<1>1. /\ pc \in [Threads -> {"idle", "lock", "bump", "access", "unlock", "announce"}]
      /\ item \in [Threads -> Items \cup {NoItem}]
  BY Zenon DEF Inv, TypeOK
<1>2. \A c \in Consumers : c \in Threads /\ c \notin Producers
  BY SBufAssumption, SMT, Zenon, SMTT(30) DEF Threads
<1>3. ASSUME NEW t \in Producers, Insert(t) PROVE EmptyHanded'
  <2>1. t \in Threads
    BY Zenon DEF Threads
  <2>2. /\ \E to : pc' = [pc EXCEPT ![t] = to]
        /\ UNCHANGED item \/ \E x : item' = [item EXCEPT ![t] = x]
    BY <1>3, Zenon DEF Insert, InsertWait, Lock, InsertBump, InsertStore, Unlock,
                       InsertAnnounce, Goto
  <2>3. \A c \in Consumers : pc'[c] = pc[c] /\ item'[c] = item[c]
    BY <1>1, <1>2, <2>1, <2>2, SMT, Zenon, SMTT(30)
  <2> QED  BY <2>3, Zenon DEF EmptyHanded
<1>4. ASSUME NEW t \in Consumers, Remove(t) PROVE EmptyHanded'
  <2>1. t \in Threads
    BY <1>2, Zenon
  <2>2. CASE RemoveWait(t) \/ Lock(t) \/ RemoveBump(t) \/ Unlock(t)
    BY <1>1, <1>2, <2>1, <2>2, SMT, Zenon, SMTT(30)
       DEF RemoveWait, Lock, RemoveBump, Unlock, Goto, EmptyHanded
  <2>3. CASE RemoveLoad(t)
    BY <1>1, <1>2, <2>1, <2>3, SMT, Zenon, SMTT(30) DEF RemoveLoad, Goto, EmptyHanded
  <2>4. CASE RemoveAnnounce(t)
    BY <1>1, <1>2, <2>1, <2>4, SMT, Zenon, SMTT(30) DEF RemoveAnnounce, Goto, EmptyHanded
  <2> QED  BY <1>4, <2>2, <2>3, <2>4, Zenon DEF Remove
<1>5. CASE UNCHANGED vars
  BY <1>5, Zenon DEF vars, EmptyHanded
<1> QED  BY <1>3, <1>4, <1>5, Zenon DEF Next, Drained

\* sbuf_insert puts its item into the queue when it writes to buf.
LEMMA InsertPuts ==
    ASSUME Inv, MaxItems <= INT_MAX, NEW t \in Producers, Insert(t)
    PROVE  (\E x \in Items : Fifo!Put(x)) \/ UNCHANGED <<Stored, Held>>
<1>1. t \in Threads /\ t \notin Consumers
  BY SBufAssumption, SMT, Zenon, SMTT(30) DEF Threads
<1>2. TypeOK /\ Accounting /\ Numbered
  BY SMT, Zenon, SMTT(30) DEF Inv
<1>3. ASSUME NEW x, item' = [item EXCEPT ![t] = x]
      PROVE  UNCHANGED Held
  <2>1. \A c \in Consumers : item'[c] = item[c]
    BY <1>1, <1>2, <1>3, SMT, Zenon, SMTT(30) DEF TypeOK, Threads
  <2> QED  BY <2>1, Zenon DEF Held
<1>4. UNCHANGED item => UNCHANGED Held
  BY Zenon DEF Held
<1>5. CASE InsertWait(t)
  <2>1. UNCHANGED Stored
    BY <1>1, <1>5, QueueKept, SMT, Zenon, SMTT(30) DEF InsertWait
  <2> QED  BY <1>3, <1>5, <2>1, Zenon DEF InsertWait
<1>6. CASE Lock(t) \/ Unlock(t)
  <2>1. UNCHANGED Stored
    BY <1>1, <1>6, QueueKept, SMT, Zenon, SMTT(30) DEF Lock, Unlock
  <2> QED  BY <1>4, <1>6, <2>1, SMT, Zenon, SMTT(30) DEF Lock, Unlock
<1>7. CASE InsertBump(t)
  <2>1. pc[t] = "bump" /\ pc' = [pc EXCEPT ![t] = "access"] /\ UNCHANGED <<buf, front, item>>
    BY <1>7, SMT, Zenon, SMTT(30) DEF InsertBump, Goto
  <2>2. \A s \in Threads : pc[s] # "access"
    BY <1>1, <2>1, NoOtherAccess, SMT, Zenon, SMTT(30) DEF InCritical
  <2>3. pc'[t] = "access" /\ \A s \in Consumers : pc'[s] # "access"
    BY <1>1, <1>2, <2>1, <2>2, SMT, Zenon, SMTT(30) DEF TypeOK, Threads
  <2>4. rear' = rear + 1
    BY <1>7, <2>1, NoOverflow, SMT, Zenon, SMTT(30) DEF InsertBump
  <2>5. Inserted' = Inserted
    BY <2>2, <2>3, <2>4, Numbers, SMT, Zenon, SMTT(30) DEF Inserted, Threads
  <2>6. Removed' = Removed
    BY <2>1, <2>2, <2>3, SMT, Zenon, SMTT(30) DEF Removed, Threads
  <2>7. UNCHANGED Stored
    BY <2>1, <2>5, <2>6, Zenon DEF Stored, Window
  <2> QED  BY <1>4, <2>1, <2>7, SMT, Zenon, SMTT(30)
<1>8. CASE InsertStore(t)
  <2>1. pc[t] = "access" /\ pc' = [pc EXCEPT ![t] = "unlock"] /\ UNCHANGED <<front, rear, item>>
    BY <1>8, SMT, Zenon, SMTT(30) DEF InsertStore, Goto
  <2>2. \A s \in Threads : pc[s] = "access" => s = t
    BY <1>1, <2>1, NoOtherAccess, SMT, Zenon, SMTT(30) DEF InCritical
  <2>3. \A s \in Threads : pc'[s] # "access"
    BY <1>2, <2>1, <2>2, SMT, Zenon, SMTT(30) DEF TypeOK
  <2>4. Inserted = rear - 1 /\ Removed = front
    BY <1>1, <2>1, <2>2, SMT, Zenon, SMTT(30) DEF Inserted, Removed, Threads
  <2>5. Inserted' = rear /\ Removed' = front
    BY <2>1, <2>3, SMT, Zenon, SMTT(30) DEF Inserted, Removed, Threads
  <2>6. front \in Nat /\ rear - 1 \in Int /\ rear - 1 >= front /\ rear - 1 - front < N
    <3>1. Count(pc, Producers, {"access", "unlock", "announce"}) > 0
      BY <2>1, CountsPositive, SMT, Zenon, SMTT(30)
    <3> QED  BY <1>2, <3>1, Numbers, CountsNat, SMT, Zenon, SMTT(30) DEF Accounting
  <2>7. PICK last \in Int : last = rear - 1
    BY <2>6, SMT, Zenon, SMTT(30)
  <2>8. buf \in [Index -> Items \cup {NoItem}] /\ item[t] \in Items
    BY <1>2, <2>1, SMT, Zenon, SMTT(30) DEF TypeOK, Numbered
  <2>9. buf' = [buf EXCEPT ![rear % N] = item[t]]
    BY <1>8, Numbers, RemIsIndex, Zenon DEF InsertStore
  <2>10. Window(buf', front, rear) = Append(Window(buf, front, last), item[t])
    <3>1. last >= front /\ last - front < N /\ rear \in Int /\ rear = last + 1
      BY <2>6, <2>7, Numbers, SMT, Zenon, SMTT(30)
    <3>2. PICK V : V = Items \cup {NoItem}
      BY Zenon
    <3>3. PICK x \in V : x = item[t]
      BY <2>8, <3>2, SMT, Zenon, SMTT(30)
    <3>4. buf \in [Index -> V]
      BY <2>8, <3>2, Zenon
    <3>5. Appends(V, buf, front, last, x, rear)
      BY <2>6, <3>1, <3>4, WindowAppend, Zenon
    <3> QED  BY <2>9, <3>3, <3>5, Zenon DEF Appends
  <2>11. Len(Window(buf, front, last)) < N
    <3>1. Lists(Window(buf, front, last), Items \cup {NoItem}, buf, front, last)
      BY <2>6, <2>7, <2>8, WindowSeq, SMT, Zenon, SMTT(30)
    <3> QED  BY <2>6, <2>7, <3>1, SMT, Zenon, SMTT(30) DEF Lists
  <2>12. Len(Stored) < N /\ Stored' = Append(Stored, item[t])
    BY <2>4, <2>5, <2>7, <2>10, <2>11, Zenon DEF Stored
  <2> QED  BY <1>4, <2>1, <2>8, <2>12, Zenon DEF Fifo!Put
<1>9. CASE InsertAnnounce(t)
  <2>1. UNCHANGED Stored
    BY <1>1, <1>9, QueueKept, SMT, Zenon, SMTT(30) DEF InsertAnnounce
  <2> QED  BY <1>3, <1>9, <2>1, Zenon DEF InsertAnnounce
<1> QED  BY <1>5, <1>6, <1>7, <1>8, <1>9, SMT, Zenon, SMTT(30) DEF Insert

\* sbuf_remove takes the oldest item from the queue when it reads buf, and drops it
\* when it returns.
LEMMA RemoveGets ==
    ASSUME Inv, EmptyHanded, MaxItems <= INT_MAX, NEW t \in Consumers, Remove(t)
    PROVE  Fifo!Get(t) \/ Fifo!Return(t) \/ UNCHANGED <<Stored, Held>>
<1>1. t \in Threads /\ t \notin Producers
  BY SBufAssumption, SMT, Zenon, SMTT(30) DEF Threads
<1>2. TypeOK /\ Accounting
  BY SMT, Zenon, SMTT(30) DEF Inv
<1>3. UNCHANGED item => UNCHANGED Held
  BY Zenon DEF Held
<1>4. CASE RemoveWait(t) \/ Lock(t) \/ Unlock(t)
  <2>1. UNCHANGED Stored
    <3>1. CASE RemoveWait(t)
      BY <1>1, <3>1, QueueKept, SMT, Zenon, SMTT(30) DEF RemoveWait
    <3>2. CASE Lock(t) \/ Unlock(t)
      BY <1>1, <3>2, QueueKept, SMT, Zenon, SMTT(30) DEF Lock, Unlock
    <3> QED  BY <1>4, <3>1, <3>2, SMT, Zenon, SMTT(30)
  <2> QED  BY <1>3, <1>4, <2>1, SMT, Zenon, SMTT(30) DEF RemoveWait, Lock, Unlock
<1>5. CASE RemoveBump(t)
  <2>1. pc[t] = "bump" /\ pc' = [pc EXCEPT ![t] = "access"] /\ UNCHANGED <<buf, rear, item>>
    BY <1>5, SMT, Zenon, SMTT(30) DEF RemoveBump, Goto
  <2>2. \A s \in Threads : pc[s] # "access"
    BY <1>1, <2>1, NoOtherAccess, SMT, Zenon, SMTT(30) DEF InCritical
  <2>3. pc'[t] = "access" /\ \A s \in Producers : pc'[s] # "access"
    BY <1>1, <1>2, <2>1, <2>2, SMT, Zenon, SMTT(30) DEF TypeOK, Threads
  <2>4. front' = front + 1
    BY <1>5, <2>1, NoOverflow, SMT, Zenon, SMTT(30) DEF RemoveBump
  <2>5. Inserted' = Inserted
    BY <2>1, <2>2, <2>3, SMT, Zenon, SMTT(30) DEF Inserted, Threads
  <2>6. Removed' = Removed
    BY <2>2, <2>3, <2>4, Numbers, SMT, Zenon, SMTT(30) DEF Removed, Threads
  <2>7. UNCHANGED Stored
    BY <2>1, <2>5, <2>6, Zenon DEF Stored, Window
  <2> QED  BY <1>3, <2>1, <2>7, SMT, Zenon, SMTT(30)
<1>6. CASE RemoveLoad(t)
  <2>1. pc[t] = "access" /\ pc' = [pc EXCEPT ![t] = "unlock"] /\ UNCHANGED <<buf, front, rear>>
    BY <1>6, SMT, Zenon, SMTT(30) DEF RemoveLoad, Goto
  <2>2. \A s \in Threads : pc[s] = "access" => s = t
    BY <1>1, <2>1, NoOtherAccess, SMT, Zenon, SMTT(30) DEF InCritical
  <2>3. \A s \in Threads : pc'[s] # "access"
    BY <1>2, <2>1, <2>2, SMT, Zenon, SMTT(30) DEF TypeOK
  <2>4. Removed = front - 1 /\ Inserted = rear
    BY <1>1, <2>1, <2>2, SMT, Zenon, SMTT(30) DEF Inserted, Removed, Threads
  <2>5. Inserted' = rear /\ Removed' = front
    BY <2>1, <2>3, SMT, Zenon, SMTT(30) DEF Inserted, Removed, Threads
  <2>6. PICK first \in Int : first = front - 1
    BY Numbers, SMT, Zenon, SMTT(30)
  <2>7. first >= -1 /\ rear \in Int /\ rear > first /\ front \in Int /\ front = first + 1
    BY <2>6, Numbers, SMT, Zenon, SMTT(30)
  <2>8. PICK V : buf \in [Index -> V]
    BY <1>2, Zenon DEF TypeOK
  <2>9. /\ Window(buf, first, rear) # <<>>
        /\ Head(Window(buf, first, rear)) = buf[front % N]
        /\ Tail(Window(buf, first, rear)) = Window(buf, front, rear)
    <3>1. Drops(V, buf, first, rear, front)
      BY <2>7, <2>8, WindowTail, Zenon
    <3> QED  BY <3>1, Zenon DEF Drops
  <2>10. Stored = Window(buf, first, rear) /\ Stored' = Window(buf, front, rear)
    BY <2>1, <2>4, <2>5, <2>6, Zenon DEF Stored
  <2>11. item' = [item EXCEPT ![t] = Head(Stored)]
    <3>1. Rem(front) = front % N /\ Rem(front) \in Index
      BY Numbers, RemIsIndex, Zenon
    <3>2. item' = [item EXCEPT ![t] = buf[Rem(front)]]
      BY <1>6, <3>1, Zenon DEF RemoveLoad
    <3> QED  BY <2>9, <2>10, <3>1, <3>2, Zenon
  <2>12. Held' = [Held EXCEPT ![t] = Head(Stored)]
    <3>1. item'[t] = Head(Stored) /\ \A c \in Consumers \ {t} : item'[c] = item[c]
      BY <1>1, <1>2, <2>11, Zenon DEF TypeOK, Threads
    <3> QED  BY <3>1, Zenon DEF Held
  <2>13. Held[t] = NoItem
    BY <2>1, Zenon DEF EmptyHanded, Held
  <2> QED  BY <2>9, <2>10, <2>12, <2>13, Zenon DEF Fifo!Get
<1>7. CASE RemoveAnnounce(t)
  <2>1. UNCHANGED Stored
    BY <1>1, <1>7, QueueKept, SMT, Zenon, SMTT(30) DEF RemoveAnnounce
  <2>2. item' = [item EXCEPT ![t] = NoItem]
    BY <1>7, Zenon DEF RemoveAnnounce
  <2>3. Held' = [Held EXCEPT ![t] = NoItem]
    <3>1. item'[t] = NoItem /\ \A c \in Consumers \ {t} : item'[c] = item[c]
      BY <1>1, <1>2, <2>2, Zenon DEF TypeOK, Threads
    <3> QED  BY <3>1, Zenon DEF Held
  <2> QED  BY <2>1, <2>3, Zenon DEF Fifo!Return
<1> QED  BY <1>4, <1>5, <1>6, <1>7, SMT, Zenon, SMTT(30) DEF Remove

(***************************************************************************)
(* As long as no more than INT_MAX items are inserted, the buffer of       *)
(* sbuf.c is a bounded FIFO queue for every number of slots and of         *)
(* threads: a call of sbuf_insert puts its item at the end at one instant, *)
(* a call of sbuf_remove takes the oldest one, once, and has dropped it    *)
(* when it returns, and no other step touches the queue (sbuf.c:39-55).    *)
(***************************************************************************)
THEOREM BufferIsFifo == MaxItems <= INT_MAX => (Spec => IsFifo)
<1> SUFFICES ASSUME MaxItems <= INT_MAX PROVE Spec => IsFifo
  BY SMT, Zenon, SMTT(30)
<1>1. Init => Fifo!Init
  <2> SUFFICES ASSUME Init PROVE Fifo!Init
    BY SMT, Zenon, SMTT(30)
  <2>1. Inserted = 0 /\ Removed = 0
    BY SMT, Zenon, SMTT(30) DEF Init, Inserted, Removed, Threads
  <2>2. Stored = <<>>
    BY <2>1, SMT, Zenon, SMTT(30) DEF Stored, Window
  <2>3. Held = [c \in Consumers |-> NoItem]
    BY SMT, Zenon, SMTT(30) DEF Init, Held, Threads
  <2> QED  BY <2>2, <2>3, Zenon DEF Fifo!Init
<1>2. Inv /\ EmptyHanded /\ [Next]_vars => [Fifo!Next]_<<Stored, Held>>
  <2> SUFFICES ASSUME Inv, EmptyHanded, [Next]_vars PROVE Fifo!Next \/ UNCHANGED <<Stored, Held>>
    BY SMT, Zenon, SMTT(30)
  <2>1. ASSUME NEW t \in Producers, Insert(t) PROVE Fifo!Next \/ UNCHANGED <<Stored, Held>>
    BY <2>1, InsertPuts, Zenon DEF Fifo!Next
  <2>2. ASSUME NEW t \in Consumers, Remove(t) PROVE Fifo!Next \/ UNCHANGED <<Stored, Held>>
    BY <2>2, RemoveGets, Zenon DEF Fifo!Next
  <2>3. CASE UNCHANGED vars
    BY <2>3, Zenon DEF vars, Stored, Window, Inserted, Removed, Held
  <2> QED  BY <2>1, <2>2, <2>3, SMT, Zenon, SMTT(30) DEF Next, Drained
<1>3. Spec => []Inv
  BY SBufInvariant, SMT, Zenon, SMTT(30)
<1>4. Init => EmptyHanded
  BY SMT, Zenon, SMTT(30) DEF Init, EmptyHanded, Threads
<1>5. Inv /\ EmptyHanded /\ [Next]_vars => EmptyHanded'
  BY HandsStep, SMT, Zenon, SMTT(30)
<1> QED  BY <1>1, <1>2, <1>3, <1>4, <1>5, PTL DEF Spec, IsFifo, Fifo!Spec
=============================================================================

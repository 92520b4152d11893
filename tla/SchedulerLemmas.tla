-------------------------- MODULE SchedulerLemmas --------------------------
(***************************************************************************)
(* Every operation of the scheduler preserves SchedulerOK, for any bound   *)
(* on the handles, any clock reading and any set of wait keys.  The proofs  *)
(* of the services that call the scheduler cite these lemmas.               *)
(***************************************************************************)
EXTENDS SchedulerState, FiniteSetTheorems, WellFoundedInduction, TLAPS

-----------------------------------------------------------------------------
(* InOrder.                                                                *)

Sorted(q, S) ==
  /\ q \in [1 .. Cardinality(S) -> S]
  /\ \A i, j \in DOMAIN q : i < j => q[i] < q[j]
  /\ \A h \in S : \E i \in DOMAIN q : q[i] = h

\* A set of natural numbers that is not empty has a least element.
LEMMA LeastElement ==
  ASSUME NEW T \in SUBSET Nat, T # {}
  PROVE  \E n \in T : \A m \in T : n <= m
<1>1. IsWellFoundedOn(OpToRel(<, Nat), Nat)
  BY NatLessThanWellFounded
<1>2. PICK n \in T : \A m \in T : ~ (<<m, n>> \in OpToRel(<, Nat))
  BY <1>1, WFMin, Zenon
<1>3. \A m \in T : ~ (m < n)
  BY <1>2 DEF OpToRel
<1> QED BY <1>3

\* Any set of numbers up to n can be listed in increasing order.
LEMMA SortedExists ==
  ASSUME NEW n \in Nat, NEW S \in SUBSET (1 .. n)
  PROVE  \E q : Sorted(q, S)
<1> DEFINE Bad == {m \in Nat : \E X \in SUBSET (1 .. m) : ~ \E q : Sorted(q, X)}
<1>1. SUFFICES ASSUME Bad # {} PROVE FALSE
  BY <1>1
<1>2. PICK m \in Bad : \A k \in Bad : m <= k
  BY <1>1, LeastElement
<1>3. m \in Nat /\ \E X \in SUBSET (1 .. m) : ~ \E q : Sorted(q, X)
  BY <1>2
<1>4. PICK X \in SUBSET (1 .. m) : ~ \E q : Sorted(q, X)
  BY <1>3
<1>5. \A k \in Nat : k < m =>
         \A Y \in SUBSET (1 .. k) : \E q : Sorted(q, Y)
  BY <1>2, <1>3
<1> HIDE DEF Bad
<1>6. IsFiniteSet(X) /\ Cardinality(X) \in Nat
  <2>1. IsFiniteSet(1 .. m)
    BY <1>3, FS_Interval
  <2> QED BY <2>1, FS_Subset, FS_CardinalityType
<1>7. CASE m = 0
  <2>1. X = {}
    BY <1>7
  <2>2. Sorted(<<>>, X)
    BY <2>1, FS_EmptySet DEF Sorted
  <2> QED BY <2>2, <1>4
<1>8. CASE m # 0 /\ m \notin X
  <2>1. m - 1 \in Nat /\ \A x \in 1 .. m : x # m => x \in 1 .. (m - 1)
    BY <1>8, <1>3
  <2>2. X \in SUBSET (1 .. (m - 1))
    BY <2>1, <1>8
  <2> QED BY <2>1, <2>2, <1>3, <1>4, <1>5
<1>9. CASE m # 0 /\ m \in X
  <2> DEFINE Y == X \ {m}
             c == Cardinality(X)
  <2>1. m - 1 \in Nat /\ Y \in SUBSET (1 .. (m - 1))
    <3>1. m - 1 \in Nat /\ \A x \in 1 .. m : x # m => x \in 1 .. (m - 1)
      BY <1>9, <1>3
    <3> QED BY <3>1
  <2>2. PICK q : Sorted(q, Y)
    BY <2>1, <1>3, <1>5
  <2>3. Cardinality(Y) = c - 1 /\ Cardinality(Y) \in Nat
    BY <1>6, <1>9, FS_RemoveElement, FS_CardinalityType
  <2>4. c \in Nat
    BY <1>6
  <2>5. /\ q \in [1 .. (c - 1) -> Y]
        /\ \A i, j \in 1 .. (c - 1) : i < j => q[i] < q[j]
        /\ \A h \in Y : \E i \in 1 .. (c - 1) : q[i] = h
    BY <2>2, <2>3 DEF Sorted
  <2>6. c > 0
    BY <2>3, <2>4
  <2> DEFINE p == [i \in 1 .. c |-> IF i = c THEN m ELSE q[i]]
  <2>7. Sorted(p, X)
    <3> HIDE DEF c
    <3>1. \A i \in 1 .. (c - 1) : q[i] \in X /\ q[i] < m
      <4>1. \A x \in Y : x \in X /\ x \in 1 .. (m - 1)
        BY <2>1
      <4>2. \A i \in 1 .. (c - 1) : q[i] \in Y
        BY <2>5
      <4>3. \A x \in 1 .. (m - 1) : x < m
        BY <1>3
      <4> QED BY <4>1, <4>2, <4>3
    <3>2. p \in [1 .. c -> X]
      BY <3>1, <1>9, <2>4
    <3>3. \A i, j \in 1 .. c : i < j => p[i] < p[j]
      BY <3>1, <2>4, <2>5
    <3>4. \A h \in X : \E i \in 1 .. c : p[i] = h
      BY <2>4, <2>5, <2>6
    <3>5. DOMAIN p = 1 .. c
      OBVIOUS
    <3> QED BY <3>2, <3>3, <3>4, <3>5 DEF Sorted, c
  <2> QED BY <2>7, <1>4
<1> QED BY <1>7, <1>8, <1>9

\* What the wake loops append: the woken handles, each once, in handle order.
LEMMA InOrderSorted ==
  ASSUME NEW n \in Nat, NEW S \in SUBSET (1 .. n)
  PROVE  Sorted(InOrder(S), S)
<1>1. PICK q : Sorted(q, S)
  BY SortedExists
<1> QED BY <1>1 DEF Sorted, InOrder

-----------------------------------------------------------------------------
(* The ready queue.                                                        *)

\* QueueExact, as a property of a sequence and of the set it must list.
Lists(q, S) ==
  /\ q \in Seq(S)
  /\ \A i, j \in DOMAIN q : q[i] = q[j] => i = j
  /\ \A h \in S : \E i \in DOMAIN q : q[i] = h

\* What a wake loop appends lists exactly the woken handles: WakeBlockedThreads
\* pushes every thread it readies, and pushes none twice.
LEMMA InOrderLists ==
  ASSUME NEW n \in Nat, NEW S \in SUBSET (1 .. n)
  PROVE  Lists(InOrder(S), S)
<1> DEFINE q == InOrder(S)
           c == Cardinality(S)
<1>1. Sorted(q, S)
  BY InOrderSorted
<1>2. c \in Nat
  <2>1. IsFiniteSet(1 .. n)
    BY FS_Interval
  <2> QED BY <2>1, FS_Subset, FS_CardinalityType
<1> HIDE DEF q, c
<1>3. /\ q \in [1 .. c -> S] 
      /\ \A i, j \in DOMAIN q : i < j => q[i] < q[j]
      /\ \A h \in S : \E i \in DOMAIN q : q[i] = h
  BY <1>1 DEF Sorted, c
<1>4. q \in Seq(S)
  BY <1>2, <1>3
<1>5. ASSUME NEW i \in DOMAIN q, NEW j \in DOMAIN q, q[i] = q[j] PROVE i = j
  <2>1. i \in 1 .. c /\ j \in 1 .. c /\ q[i] \in 1 .. n /\ q[j] \in 1 .. n
    BY <1>3
  <2>2. i < j => q[i] < q[j]
    BY <1>3
  <2>3. j < i => q[j] < q[i]
    BY <1>3
  <2> QED BY <2>1, <2>2, <2>3, <1>5, <1>2
<1> QED BY <1>3, <1>4, <1>5 DEF Lists, q

\* How the entries of two sequences appear in their concatenation.
LEMMA ConcatFacts ==
  ASSUME NEW S, NEW a \in Seq(S), NEW b \in Seq(S)
  PROVE  /\ a \o b \in Seq(S)
         /\ Len(a) \in Nat /\ Len(b) \in Nat
         /\ DOMAIN (a \o b) = 1 .. (Len(a) + Len(b))
         /\ DOMAIN a = 1 .. Len(a) /\ DOMAIN b = 1 .. Len(b)
         /\ \A i \in 1 .. Len(a) : (a \o b)[i] = a[i]
         /\ \A i \in 1 .. Len(b) : (a \o b)[Len(a) + i] = b[i]
OBVIOUS

\* Appending a list of new members.
LEMMA ListsConcat ==
  ASSUME NEW S, NEW W, S \cap W = {}, NEW a, Lists(a, S), NEW b, Lists(b, W)
  PROVE  Lists(a \o b, S \cup W)
<1> DEFINE U == S \cup W
           q == a \o b
<1>1. a \in Seq(U) /\ b \in Seq(U)
  BY DEF Lists
<1>2. /\ q \in Seq(U)
      /\ Len(a) \in Nat /\ Len(b) \in Nat
      /\ DOMAIN q = 1 .. (Len(a) + Len(b))
      /\ DOMAIN a = 1 .. Len(a) /\ DOMAIN b = 1 .. Len(b)
      /\ \A i \in 1 .. Len(a) : q[i] = a[i]
      /\ \A i \in 1 .. Len(b) : q[Len(a) + i] = b[i]
  BY <1>1, ConcatFacts
<1> HIDE DEF q
<1>3. /\ \A i \in 1 .. Len(a) : a[i] \in S
      /\ \A i \in 1 .. Len(b) : b[i] \in W
  BY <1>2 DEF Lists
<1>4. ASSUME NEW i \in DOMAIN q, i \notin 1 .. Len(a)
      PROVE  i - Len(a) \in 1 .. Len(b) /\ q[i] = b[i - Len(a)]
  <2>1. i - Len(a) \in 1 .. Len(b) /\ Len(a) + (i - Len(a)) = i
    BY <1>4, <1>2
  <2> QED BY <2>1, <1>2
<1>5. ASSUME NEW i \in DOMAIN q, NEW j \in DOMAIN q, q[i] = q[j] PROVE i = j
  <2>1. CASE i \in 1 .. Len(a) /\ j \in 1 .. Len(a)
    BY <2>1, <1>2, <1>5 DEF Lists
  <2>2. CASE i \notin 1 .. Len(a) /\ j \notin 1 .. Len(a)
    <3>1. i - Len(a) = j - Len(a)
      BY <2>2, <1>4, <1>5, <1>2 DEF Lists
    <3> QED BY <3>1, <1>2
  <2>3. CASE i \in 1 .. Len(a) /\ j \notin 1 .. Len(a)
    BY <2>3, <1>2, <1>3, <1>4, <1>5
  <2>4. CASE i \notin 1 .. Len(a) /\ j \in 1 .. Len(a)
    BY <2>4, <1>2, <1>3, <1>4, <1>5
  <2> QED BY <2>1, <2>2, <2>3, <2>4
<1>6. ASSUME NEW h \in U PROVE \E i \in DOMAIN q : q[i] = h
  <2>1. CASE h \in S
    BY <2>1, <1>2 DEF Lists
  <2>2. CASE h \in W
    <3>1. PICK i \in 1 .. Len(b) : b[i] = h
      BY <2>2, <1>2 DEF Lists
    <3>2. Len(a) + i \in DOMAIN q
      BY <1>2
    <3> QED BY <3>1, <3>2, <1>2
  <2> QED BY <2>1, <2>2
<1> QED BY <1>2, <1>5, <1>6 DEF Lists, q

\* ready_queue_.push_back of one thread that is not queued yet.
LEMMA ListsAppend ==
  ASSUME NEW S, NEW x, x \notin S, NEW q, Lists(q, S)
  PROVE  Lists(Append(q, x), S \cup {x})
<1>1. Lists(<<x>>, {x})
  BY DEF Lists
<1>2. q \o <<x>> = Append(q, x)
  BY DEF Lists
<1>3. S \cap {x} = {}
  OBVIOUS
<1>4. Lists(q \o <<x>>, S \cup {x})
  BY <1>1, <1>3, ListsConcat, Zenon
<1> QED BY <1>2, <1>4

\* Taking the first entry.
LEMMA ListsRest ==
  ASSUME NEW S, NEW q, Lists(q, S), Len(q) # 0
  PROVE  /\ q[1] \in S
         /\ Lists(SubSeq(q, 2, Len(q)), S \ {q[1]})
<1> DEFINE n == Len(q)
           r == SubSeq(q, 2, n)
<1>1. q \in Seq(S) /\ n \in Nat /\ n > 0 /\ DOMAIN q = 1 .. n
  BY DEF Lists
<1>2. \A i \in 1 .. n : q[i] \in S
  BY <1>1
<1>3. Len(r) = n - 1 /\ DOMAIN r = 1 .. (n - 1)
  BY <1>1
<1>4. \A i \in 1 .. (n - 1) : r[i] = q[i + 1] /\ i + 1 \in 1 .. n /\ i + 1 # 1
  BY <1>1
<1>5. \A i, j \in 1 .. n : q[i] = q[j] => i = j
  BY <1>1 DEF Lists
<1> HIDE DEF r, n
<1>6. \A i \in 1 .. (n - 1) : r[i] \in S \ {q[1]}
  BY <1>1, <1>2, <1>4, <1>5
<1>7. r \in Seq(S \ {q[1]})
  <2>1. r \in Seq(S)
    BY <1>1 DEF r, n
  <2> QED BY <2>1, <1>3, <1>6
<1>8. \A i, j \in 1 .. (n - 1) : r[i] = r[j] => i = j
  BY <1>1, <1>4, <1>5
<1>9. ASSUME NEW h \in S \ {q[1]} PROVE \E i \in 1 .. (n - 1) : r[i] = h
  <2>1. PICK i \in 1 .. n : q[i] = h
    BY <1>1 DEF Lists
  <2>2. i # 1 /\ i - 1 \in 1 .. (n - 1) /\ (i - 1) + 1 = i
    BY <2>1, <1>9, <1>1
  <2> QED BY <2>1, <2>2, <1>4
<1>10. Lists(r, S \ {q[1]})
  BY <1>3, <1>7, <1>8, <1>9 DEF Lists
<1>11. q[1] \in S
  BY <1>1, <1>2
<1> QED BY <1>10, <1>11 DEF r, n

\* std::erase of one handle.
LEMMA ListsErase ==
  ASSUME NEW S, NEW x, NEW q, Lists(q, S)
  PROVE  Lists(Erase(q, x), S \ {x})
<1> DEFINE n == Len(q)
           kept == {i \in DOMAIN q : q[i] # x}
           idx == InOrder(kept)
           r == Erase(q, x)
<1>1. q \in Seq(S) /\ n \in Nat /\ DOMAIN q = 1 .. n
  BY DEF Lists
<1>2. Lists(idx, kept)
  <2>1. kept \in SUBSET (1 .. n)
    BY <1>1
  <2> QED BY <2>1, <1>1, InOrderLists
<1>3. r = [k \in DOMAIN idx |-> q[idx[k]]]
  BY DEF Erase, EntriesAt
<1>4. /\ idx \in Seq(kept) /\ Len(idx) \in Nat
      /\ DOMAIN idx = 1 .. Len(idx)
      /\ \A k \in DOMAIN idx : idx[k] \in kept
  <2>1. idx \in Seq(kept)
    BY <1>2 DEF Lists
  <2> HIDE DEF idx, kept
  <2> QED BY <2>1
<1> HIDE DEF r, idx
<1>5. \A k \in DOMAIN idx : r[k] = q[idx[k]] /\ r[k] \in S \ {x}
  BY <1>1, <1>3, <1>4
<1>6. r \in Seq(S \ {x}) /\ DOMAIN r = DOMAIN idx
  BY <1>3, <1>4, <1>5
<1>7. ASSUME NEW k \in DOMAIN r, NEW l \in DOMAIN r, r[k] = r[l] PROVE k = l
  <2>1. idx[k] = idx[l]
    BY <1>1, <1>4, <1>5, <1>6, <1>7 DEF Lists
  <2> QED BY <2>1, <1>2, <1>6 DEF Lists
<1>8. ASSUME NEW h \in S \ {x} PROVE \E k \in DOMAIN r : r[k] = h
  <2>1. PICK i \in kept : q[i] = h
    BY <1>1 DEF Lists
  <2>2. PICK k \in DOMAIN idx : idx[k] = i
    BY <1>2 DEF Lists
  <2> QED BY <2>1, <2>2, <1>5, <1>6
<1> QED BY <1>6, <1>7, <1>8 DEF Lists, r

-----------------------------------------------------------------------------
(* The operations.                                                         *)

\* QueueExact is the statement that the ready queue lists the Ready threads.
LEMMA QueueExactLists ==
  ASSUME NEW K, NEW s \in SchedulerType(K)
  PROVE  QueueExact(s) <=> Lists(s.ready, InState(s, "ready"))
<1>1. /\ s.ready \in Seq(Handles)
      /\ DOMAIN s.ready = 1 .. Len(s.ready) /\ Len(s.ready) \in Nat
      /\ \A i \in DOMAIN s.ready : s.ready[i] \in Handles
  BY DEF SchedulerType
<1>2. (\A i \in DOMAIN s.ready : s.state[s.ready[i]] = "ready")
        <=> s.ready \in Seq(InState(s, "ready"))
  BY <1>1 DEF InState
<1> QED BY <1>2 DEF QueueExact, Lists, InState

\* The part of SchedulerOK that a wake-up alone preserves.
Consistent(s, K) ==
  s \in SchedulerType(K) /\ QueueExact(s) /\ OneRunning(s) /\ WaitsOK(s)

\* Making any set of blocked threads ready, with or without a timeout to report,
\* keeps types, the ready queue, the running thread and the wait bookkeeping.
LEMMA MakeReadyConsistent ==
  ASSUME NEW K, NEW s, Consistent(s, K),
         NEW W \in SUBSET InState(s, "blocked"),
         NEW timeout \in [Handles -> K \cup {NoKey}]
  PROVE  Consistent(MakeReady(s, W, timeout), K)
<1> DEFINE t == MakeReady(s, W, timeout)
           R == InState(s, "ready")
<1>1. W \in SUBSET (1 .. MaxHandle) /\ MaxHandle \in Nat
  BY MaxHandleAssumption DEF InState, Handles
<1>2. Lists(InOrder(W), W)
  BY <1>1, InOrderLists
<1>3. Lists(s.ready, R)
  BY QueueExactLists DEF Consistent
<1>4. R \cap W = {}
  BY DEF InState
<1>5. Lists(t.ready, R \cup W)
  BY <1>2, <1>3, <1>4, ListsConcat DEF MakeReady
<1>6. InState(t, "ready") = R \cup W
  BY <1>1 DEF InState, MakeReady, Handles
<1>7. t.ready \in Seq(Handles)
  <2>1. R \cup W \in SUBSET Handles
    BY DEF InState
  <2> QED BY <2>1, <1>5 DEF Lists
<1>8. t \in SchedulerType(K)
  BY <1>7 DEF Consistent, MakeReady, SchedulerType, ThreadStates
<1>9. QueueExact(t)
  BY <1>5, <1>6, <1>8, QueueExactLists
<1>10. OneRunning(t)
  BY DEF Consistent, OneRunning, MakeReady, InState, SchedulerType
<1>11. WaitsOK(t)
  BY DEF Consistent, WaitsOK, MakeReady, InState, SchedulerType
<1> QED BY <1>8, <1>9, <1>10, <1>11 DEF Consistent

\* Keys of thread exits differ for different threads (ThreadExitWaitKey).
LEMMA ThreadExitKeyFacts ==
  /\ \A h : ThreadExitWaitKey(h) # NoKey
  /\ \A h, g : ThreadExitWaitKey(h) = ThreadExitWaitKey(g) => h = g
BY DEF ThreadExitWaitKey, NoKey

\* Waking blocked threads, by key, by handle or because their time is up.
LEMMA MakeReadyOK ==
  ASSUME NEW K, NEW s, SchedulerOK(s, K),
         NEW W \in SUBSET InState(s, "blocked"),
         NEW timeout \in [Handles -> K \cup {NoKey}]
  PROVE  SchedulerOK(MakeReady(s, W, timeout), K)
<1>1. Consistent(MakeReady(s, W, timeout), K)
  BY MakeReadyConsistent DEF SchedulerOK, Consistent
<1>2. NoJoinerMissed(MakeReady(s, W, timeout))
  BY ThreadExitKeyFacts DEF SchedulerOK, NoJoinerMissed, MakeReady
<1> QED BY <1>1, <1>2 DEF SchedulerOK, Consistent

\* WakeExpiredThreads keeps the scheduler's invariant.
LEMMA WakeExpiredOK ==
  ASSUME NEW K, NEW s, SchedulerOK(s, K), NEW now
  PROVE  SchedulerOK(WakeExpiredThreads(s, now), K)
<1>1. Expired(s, now) \in SUBSET InState(s, "blocked")
  BY DEF Expired, InState
<1>2. s.wait_key \in [Handles -> K \cup {NoKey}]
  BY DEF SchedulerOK, SchedulerType
<1> QED BY <1>1, <1>2, MakeReadyOK DEF WakeExpiredThreads

\* WakeBlockedThreads keeps the scheduler's invariant for any key and any limit.
LEMMA WakeBlockedThreadsOK ==
  ASSUME NEW K, NEW s, SchedulerOK(s, K), NEW key, NEW n, NEW now
  PROVE  SchedulerOK(WakeBlockedThreads(s, key, n, now), K)
<1> DEFINE w == WakeExpiredThreads(s, now)
           B == BlockedOn(w, key)
           W == {h \in B : Cardinality({g \in B : g < h}) < n}
<1>1. SchedulerOK(w, K)
  BY WakeExpiredOK
<1>2. W \in SUBSET InState(w, "blocked")
  BY DEF BlockedOn, InState
<1>3. NoTimeout \in [Handles -> K \cup {NoKey}]
  BY DEF NoTimeout
<1>4. SchedulerOK(MakeReady(w, W, NoTimeout), K)
  <2> HIDE DEF w, W
  <2> QED BY <1>1, <1>2, <1>3, MakeReadyOK
<1> QED BY <1>4 DEF WakeBlockedThreads

\* WakeBlockedThread keeps the scheduler's invariant, also when the handle it is
\* given is not blocked on the key.
LEMMA WakeBlockedThreadOK ==
  ASSUME NEW K, NEW s, SchedulerOK(s, K), NEW h, NEW key, NEW now
  PROVE  SchedulerOK(WakeBlockedThread(s, h, key, now), K)
<1> DEFINE w == WakeExpiredThreads(s, now)
           W == BlockedOn(w, key) \cap {h}
<1>1. SchedulerOK(w, K)
  BY WakeExpiredOK
<1>2. W \in SUBSET InState(w, "blocked")
  BY DEF BlockedOn, InState
<1>3. NoTimeout \in [Handles -> K \cup {NoKey}]
  BY DEF NoTimeout
<1>4. SchedulerOK(MakeReady(w, W, NoTimeout), K)
  <2> HIDE DEF w, W
  <2> QED BY <1>1, <1>2, <1>3, MakeReadyOK
<1> QED BY <1>4 DEF WakeBlockedThread

\* CreateThread keeps the scheduler's invariant: the new thread is the only new
\* entry of the ready queue.
LEMMA CreateThreadOK ==
  ASSUME NEW K, NEW s, SchedulerOK(s, K),
         NEW h \in Handles, s.state[h] = "absent"
  PROVE  SchedulerOK(CreateThread(s, h), K)
<1> DEFINE t == CreateThread(s, h)
           R == InState(s, "ready")
           q == Append(s.ready, h)
<1>1. s \in SchedulerType(K) /\ s.state \in [Handles -> ThreadStates]
  BY DEF SchedulerOK, SchedulerType
<1>2. Lists(s.ready, R) /\ h \notin R
  BY <1>1, QueueExactLists DEF SchedulerOK, InState
<1>3. Lists(q, R \cup {h})
  BY <1>2, ListsAppend
<1>4. q \in Seq(Handles)
  BY <1>1 DEF SchedulerType
<1>5. /\ t \in SchedulerType(K)
      /\ t.state = [s.state EXCEPT ![h] = "ready"]
      /\ t.wait_key = s.wait_key /\ t.deadline = s.deadline
      /\ t.timed_out = s.timed_out
      /\ t.ready = q /\ t.current = s.current
  <2> DEFINE x == "ready"
  <2>1. x \in ThreadStates
    BY DEF ThreadStates
  <2>2. t = [s EXCEPT !.state[h] = x, !.ready = q]
    BY DEF CreateThread
  <2> HIDE DEF x, q, t
  <2>3. /\ t \in SchedulerType(K)
        /\ t.state = [s.state EXCEPT ![h] = x]
        /\ t.wait_key = s.wait_key /\ t.deadline = s.deadline
        /\ t.timed_out = s.timed_out
        /\ t.ready = q /\ t.current = s.current
    BY <1>1, <1>4, <2>1, <2>2 DEF SchedulerType
  <2> QED BY <2>3 DEF x
<1> HIDE DEF t, q
<1>6. InState(t, "ready") = R \cup {h}
  BY <1>1, <1>5 DEF InState
<1>7. QueueExact(t)
  BY <1>3, <1>5, <1>6, QueueExactLists
<1>8. OneRunning(t) /\ WaitsOK(t) /\ NoJoinerMissed(t)
  BY <1>1, <1>5 DEF SchedulerOK, OneRunning, WaitsOK, NoJoinerMissed
<1> QED BY <1>5, <1>7, <1>8 DEF SchedulerOK, t

\* DiscardReadyThread keeps the scheduler's invariant: the erased handle leaves
\* the table and the queue together.
LEMMA DiscardReadyThreadOK ==
  ASSUME NEW K, NEW s, SchedulerOK(s, K), NEW h \in Handles
  PROVE  SchedulerOK(DiscardReadyThread(s, h), K)
<1> DEFINE t == DiscardReadyThread(s, h)
           R == InState(s, "ready")
           q == Erase(s.ready, h)
<1>1. SUFFICES ASSUME s.state[h] = "ready" PROVE SchedulerOK(t, K)
  BY DEF DiscardReadyThread
<1>2. s \in SchedulerType(K) /\ s.state \in [Handles -> ThreadStates]
  BY DEF SchedulerOK, SchedulerType
<1>3. Lists(q, R \ {h})
  BY <1>2, QueueExactLists, ListsErase DEF SchedulerOK
<1>4. q \in Seq(Handles)
  <2>1. R \ {h} \in SUBSET Handles
    BY DEF InState
  <2>2. q \in Seq(R \ {h})
    BY <1>3 DEF Lists
  <2> HIDE DEF q, R
  <2> QED BY <2>1, <2>2
<1>5. /\ t \in SchedulerType(K)
      /\ t.state = [s.state EXCEPT ![h] = "absent"]
      /\ t.wait_key = s.wait_key /\ t.deadline = s.deadline
      /\ t.timed_out = [s.timed_out EXCEPT ![h] = NoKey]
      /\ t.ready = q /\ t.current = s.current
  <2> DEFINE x == "absent"
  <2>1. x \in ThreadStates
    BY DEF ThreadStates
  <2>2. t = [s EXCEPT !.state[h] = x, !.timed_out[h] = NoKey, !.ready = q]
    BY <1>1 DEF DiscardReadyThread
  <2> HIDE DEF x, q, t
  <2>3. /\ t \in SchedulerType(K)
        /\ t.state = [s.state EXCEPT ![h] = x]
        /\ t.wait_key = s.wait_key /\ t.deadline = s.deadline
        /\ t.timed_out = [s.timed_out EXCEPT ![h] = NoKey]
        /\ t.ready = q /\ t.current = s.current
    BY <1>2, <1>4, <2>1, <2>2 DEF SchedulerType
  <2> QED BY <2>3 DEF x
<1> HIDE DEF t, q
<1>6. InState(t, "ready") = R \ {h}
  BY <1>2, <1>5 DEF InState
<1>7. QueueExact(t)
  BY <1>3, <1>5, <1>6, QueueExactLists
<1>8. OneRunning(t) /\ NoJoinerMissed(t)
  BY <1>1, <1>2, <1>5 DEF SchedulerOK, OneRunning, NoJoinerMissed
<1>9. WaitsOK(t)
  BY <1>1, <1>2, <1>5 DEF SchedulerOK, WaitsOK, SchedulerType
<1> QED BY <1>5, <1>7, <1>8, <1>9 DEF SchedulerOK, t

\* YieldCurrent keeps the scheduler's invariant: the running thread goes to the
\* back of the queue and nothing is current.
LEMMA YieldCurrentOK ==
  ASSUME NEW K, NEW s, SchedulerOK(s, K)
  PROVE  SchedulerOK(YieldCurrent(s), K)
<1> DEFINE t == YieldCurrent(s)
           R == InState(s, "ready")
           h == s.current
           q == Append(s.ready, h)
<1>1. SUFFICES ASSUME CanLeave(s) PROVE SchedulerOK(t, K)
  BY DEF YieldCurrent
<1>2. s \in SchedulerType(K) /\ s.state \in [Handles -> ThreadStates]
  BY DEF SchedulerOK, SchedulerType
<1>3. h \in Handles /\ s.state[h] = "running" /\ h # NoThread
  BY <1>1, <1>2 DEF CanLeave, SchedulerType
<1>4. Lists(s.ready, R) /\ h \notin R
  BY <1>2, <1>3, QueueExactLists DEF SchedulerOK, InState
<1>5. Lists(q, R \cup {h})
  BY <1>4, ListsAppend
<1>6. q \in Seq(Handles)
  BY <1>2, <1>3 DEF SchedulerType
<1> DEFINE x == "ready"
<1>7. t = [s EXCEPT !.state[h] = x, !.ready = q, !.current = NoThread]
  BY <1>1 DEF YieldCurrent
<1>8. x \in ThreadStates
  BY DEF ThreadStates
<1> HIDE DEF t, q, h, x
<1>9. /\ t \in SchedulerType(K)
      /\ t.state = [s.state EXCEPT ![h] = x]
      /\ t.wait_key = s.wait_key /\ t.deadline = s.deadline
      /\ t.timed_out = s.timed_out
      /\ t.ready = q /\ t.current = NoThread
  BY <1>2, <1>3, <1>6, <1>7, <1>8 DEF SchedulerType
<1> USE DEF x
<1>10. InState(t, "ready") = R \cup {h}
  BY <1>2, <1>3, <1>9 DEF InState
<1>11. QueueExact(t)
  BY <1>5, <1>9, <1>10, QueueExactLists
<1>12. OneRunning(t)
  <2>1. \A g \in Handles : s.state[g] = "running" => g = h
    BY DEF SchedulerOK, OneRunning, h
  <2>2. NoThread \notin Handles
    BY MaxHandleAssumption DEF NoThread, Handles
  <2> QED BY <2>1, <2>2, <1>2, <1>3, <1>9 DEF OneRunning
<1>13. WaitsOK(t) /\ NoJoinerMissed(t)
  BY <1>2, <1>3, <1>9 DEF SchedulerOK, WaitsOK, NoJoinerMissed
<1> QED BY <1>9, <1>11, <1>12, <1>13 DEF SchedulerOK, t

\* The running thread leaves the processor: to wait (x = "blocked", with a
\* key) or for good (x = "exited", without one).
LEMMA LeaveConsistent ==
  ASSUME NEW K, NEW s, Consistent(s, K), CanLeave(s),
         NEW x \in {"blocked", "exited"}, NEW k \in K \cup {NoKey},
         x = "blocked" <=> k # NoKey,
         NEW d \in Nat \cup {NoDeadline}, x = "exited" => d = NoDeadline,
         NEW h, h = s.current, NEW t \in SchedulerType(K),
         t.state = [s.state EXCEPT ![h] = x],
         t.wait_key = [s.wait_key EXCEPT ![h] = k],
         t.deadline = [s.deadline EXCEPT ![h] = d],
         t.timed_out = [s.timed_out EXCEPT ![h] = NoKey],
         t.ready = s.ready, t.current = NoThread
  PROVE  Consistent(t, K)
<1>1. /\ s \in SchedulerType(K) /\ s.state \in [Handles -> ThreadStates]
      /\ s.wait_key \in [Handles -> K \cup {NoKey}]
      /\ s.deadline \in [Handles -> Nat \cup {NoDeadline}]
      /\ s.timed_out \in [Handles -> K \cup {NoKey}]
  BY DEF Consistent, SchedulerType
<1>2. h \in Handles /\ s.state[h] = "running" /\ h # NoThread
  BY <1>1 DEF CanLeave, SchedulerType
<1>3. x \in ThreadStates /\ x # "ready" /\ x # "running"
  BY DEF ThreadStates
<1>4. InState(t, "ready") = InState(s, "ready")
  BY <1>1, <1>2, <1>3 DEF InState
<1>5. QueueExact(t)
  BY <1>1, <1>4, QueueExactLists DEF Consistent
<1>6. OneRunning(t)
  <2>1. \A g \in Handles : s.state[g] = "running" => g = h
    BY DEF Consistent, OneRunning
  <2>2. NoThread \notin Handles
    BY MaxHandleAssumption DEF NoThread, Handles
  <2> QED BY <2>1, <2>2, <1>1, <1>2, <1>3 DEF OneRunning
<1>7. WaitsOK(t)
  <2> SUFFICES ASSUME NEW g \in Handles
               PROVE  /\ t.state[g] = "blocked" <=> t.wait_key[g] # NoKey
                      /\ t.deadline[g] # NoDeadline => t.state[g] = "blocked"
                      /\ t.timed_out[g] # NoKey =>
                           t.state[g] \in {"ready", "running"}
    BY DEF WaitsOK
  <2>1. CASE g = h
    BY <2>1, <1>1, <1>2
  <2>2. CASE g # h
    BY <2>2, <1>1, <1>2 DEF Consistent, WaitsOK
  <2> QED BY <2>1, <2>2
<1> QED BY <1>5, <1>6, <1>7 DEF Consistent

\* Blocking on a key of K, never on the exit of a thread that has exited.
LEMMA BlockCurrentUntilOK ==
  ASSUME NEW K, NEW s, SchedulerOK(s, K), NEW key \in K,
         NEW deadline \in Nat \cup {NoDeadline},
         \A h \in Handles : key = ThreadExitWaitKey(h) => s.state[h] # "exited"
  PROVE  SchedulerOK(BlockCurrentUntil(s, key, deadline), K)
<1> DEFINE t == BlockCurrentUntil(s, key, deadline)
           h == s.current
<1>1. SUFFICES ASSUME CanLeave(s), key # NoKey PROVE SchedulerOK(t, K)
  BY DEF BlockCurrentUntil
<1> DEFINE x == "blocked"
<1>2. t = [s EXCEPT !.state[h] = x, !.wait_key[h] = key,
                    !.deadline[h] = deadline, !.timed_out[h] = NoKey,
                    !.current = NoThread]
  BY <1>1 DEF BlockCurrentUntil
<1>3. Consistent(s, K) /\ s \in SchedulerType(K) /\ h \in Handles
  BY <1>1 DEF SchedulerOK, Consistent, CanLeave, SchedulerType
<1>4. x \in ThreadStates /\ x \in {"blocked", "exited"}
  BY DEF ThreadStates
<1> HIDE DEF t, h, x
<1>5. /\ t \in SchedulerType(K)
      /\ t.state = [s.state EXCEPT ![h] = x]
      /\ t.wait_key = [s.wait_key EXCEPT ![h] = key]
      /\ t.deadline = [s.deadline EXCEPT ![h] = deadline]
      /\ t.timed_out = [s.timed_out EXCEPT ![h] = NoKey]
      /\ t.ready = s.ready /\ t.current = NoThread
  BY <1>2, <1>3, <1>4 DEF SchedulerType
<1>6. /\ h = s.current /\ x = "blocked" /\ x # "exited"
      /\ key \in K \cup {NoKey}
      /\ x = "blocked" <=> key # NoKey
  BY <1>1 DEF h, x
<1>7. Consistent(t, K)
  BY <1>1, <1>3, <1>4, <1>5, <1>6, LeaveConsistent
<1>8. NoJoinerMissed(t)
  <2>1. /\ s.state \in [Handles -> ThreadStates]
        /\ s.wait_key \in [Handles -> K \cup {NoKey}]
    BY <1>3 DEF SchedulerType
  <2>2. \A g \in Handles : t.state[g] = "exited" => s.state[g] = "exited"
    BY <1>3, <1>5, <1>6, <2>1
  <2>3. \A g \in Handles : t.wait_key[g] = s.wait_key[g] \/ t.wait_key[g] = key
    BY <1>3, <1>5, <2>1
  <2> QED BY <2>2, <2>3 DEF SchedulerOK, NoJoinerMissed
<1> QED BY <1>7, <1>8 DEF SchedulerOK, Consistent, t

\* JoinThread keeps the scheduler's invariant: it blocks only on a thread that
\* has not exited, so the exit is still to come.
LEMMA JoinThreadOK ==
  ASSUME NEW K, NEW s, SchedulerOK(s, K), NEW h \in Handles,
         ThreadExitWaitKey(h) \in K
  PROVE  SchedulerOK(JoinThread(s, h), K)
<1>1. CASE ~JoinMustWait(s, h)
  BY <1>1 DEF JoinThread
<1>2. CASE JoinMustWait(s, h)
  <2>1. \A g \in Handles : ThreadExitWaitKey(h) = ThreadExitWaitKey(g) =>
           s.state[g] # "exited"
    BY <1>2, ThreadExitKeyFacts DEF JoinMustWait
  <2>2. SchedulerOK(BlockCurrentUntil(s, ThreadExitWaitKey(h), NoDeadline), K)
    BY <2>1, BlockCurrentUntilOK
  <2> QED BY <1>2, <2>2 DEF JoinThread, BlockCurrent
<1> QED BY <1>1, <1>2

\* ExitCurrent keeps the scheduler's invariant: marking the thread exited and
\* waking its joiners are one step, so no joiner is left on a dead thread.
LEMMA ExitCurrentOK ==
  ASSUME NEW K, NEW s, SchedulerOK(s, K)
  PROVE  SchedulerOK(ExitCurrent(s), K)
<1> DEFINE h == s.current
           e == [s EXCEPT !.state[h] = "exited", !.wait_key[h] = NoKey,
                          !.deadline[h] = NoDeadline, !.timed_out[h] = NoKey,
                          !.current = NoThread]
           W == BlockedOn(s, ThreadExitWaitKey(h))
           t == MakeReady(e, W, NoTimeout)
<1>1. SUFFICES ASSUME CanLeave(s) PROVE SchedulerOK(t, K)
  BY DEF ExitCurrent
<1>2. Consistent(s, K)
  BY DEF SchedulerOK, Consistent
<1>3. /\ Consistent(e, K)
      /\ h \in Handles
      /\ e.state = [s.state EXCEPT ![h] = "exited"]
      /\ e.wait_key = [s.wait_key EXCEPT ![h] = NoKey]
  <2> DEFINE x == "exited"
             d == NoDeadline
             k == NoKey
  <2>1. s \in SchedulerType(K) /\ h \in Handles
    BY <1>1 DEF SchedulerOK, CanLeave, SchedulerType
  <2>2. /\ x \in ThreadStates /\ x \in {"blocked", "exited"}
        /\ d \in Nat \cup {NoDeadline} /\ k \in K \cup {NoKey}
    BY DEF ThreadStates
  <2>3. e = [s EXCEPT !.state[h] = x, !.wait_key[h] = k,
                      !.deadline[h] = d, !.timed_out[h] = NoKey,
                      !.current = NoThread]
    OBVIOUS
  <2> HIDE DEF e, h, x, d, k
  <2>4. /\ e \in SchedulerType(K)
        /\ e.state = [s.state EXCEPT ![h] = x]
        /\ e.wait_key = [s.wait_key EXCEPT ![h] = k]
        /\ e.deadline = [s.deadline EXCEPT ![h] = d]
        /\ e.timed_out = [s.timed_out EXCEPT ![h] = NoKey]
        /\ e.ready = s.ready /\ e.current = NoThread
    BY <2>1, <2>2, <2>3 DEF SchedulerType
  <2>5. x = "exited" /\ d = NoDeadline /\ k = NoKey /\ h = s.current
    BY DEF x, d, k, h
  <2>6. Consistent(e, K)
    BY <1>1, <1>2, <2>2, <2>4, <2>5, LeaveConsistent
  <2> QED BY <2>1, <2>4, <2>5, <2>6
<1> HIDE DEF e
<1>4. /\ s.state \in [Handles -> ThreadStates]
      /\ s.wait_key \in [Handles -> K \cup {NoKey}]
      /\ s.state[h] = "running"
  BY <1>1 DEF SchedulerOK, SchedulerType, CanLeave
<1>5. W \in SUBSET InState(e, "blocked")
  BY <1>3, <1>4 DEF BlockedOn, InState
<1>6. NoTimeout \in [Handles -> K \cup {NoKey}]
  BY DEF NoTimeout
<1>7. Consistent(t, K)
  <2> HIDE DEF W
  <2> QED BY <1>3, <1>5, <1>6, MakeReadyConsistent
<1>8. NoJoinerMissed(t)
  <2> SUFFICES ASSUME NEW x \in Handles, NEW g \in Handles,
                      t.wait_key[g] = ThreadExitWaitKey(x)
               PROVE  t.state[x] # "exited"
    BY DEF NoJoinerMissed
  <2>1. /\ g \notin W /\ g # h
        /\ s.wait_key[g] = ThreadExitWaitKey(x)
    BY <1>3, <1>4, ThreadExitKeyFacts DEF MakeReady
  <2>2. s.state[g] = "blocked"
    BY <2>1, ThreadExitKeyFacts DEF SchedulerOK, WaitsOK
  <2>3. x # h
    BY <2>1, <2>2 DEF BlockedOn
  <2>4. s.state[x] # "exited"
    BY <2>1 DEF SchedulerOK, NoJoinerMissed
  <2> QED BY <2>3, <2>4, <1>3, <1>4 DEF MakeReady
<1> QED BY <1>7, <1>8 DEF SchedulerOK, Consistent

\* ConsumeTimeout keeps the scheduler's invariant: it only clears the flag of the
\* running thread.
LEMMA ConsumeTimeoutOK ==
  ASSUME NEW K, NEW s, SchedulerOK(s, K), NEW key
  PROVE  SchedulerOK(ConsumeCurrentThreadTimeout(s, key), K)
<1> DEFINE t == ConsumeCurrentThreadTimeout(s, key)
           h == s.current
<1>1. SUFFICES ASSUME CurrentThreadTimedOut(s, key) PROVE SchedulerOK(t, K)
  BY DEF ConsumeCurrentThreadTimeout
<1>2. t = [s EXCEPT !.timed_out[h] = NoKey] /\ h \in Handles
  BY <1>1 DEF ConsumeCurrentThreadTimeout, CurrentThreadTimedOut, CanLeave,
              SchedulerOK, SchedulerType
<1> HIDE DEF t, h
<1>3. /\ t \in SchedulerType(K)
      /\ t.state = s.state /\ t.wait_key = s.wait_key
      /\ t.deadline = s.deadline /\ t.ready = s.ready /\ t.current = s.current
      /\ t.timed_out = [s.timed_out EXCEPT ![h] = NoKey]
  BY <1>2 DEF SchedulerOK, SchedulerType
<1>4. QueueExact(t) /\ OneRunning(t) /\ NoJoinerMissed(t)
  BY <1>3 DEF SchedulerOK, QueueExact, OneRunning, NoJoinerMissed
<1>5. WaitsOK(t)
  BY <1>2, <1>3 DEF SchedulerOK, SchedulerType, WaitsOK
<1> QED BY <1>3, <1>4, <1>5 DEF SchedulerOK, t

\* What SelectNext does on a consistent scheduler: it wakes what expired and,
\* when anything is ready then, runs the thread at the head of the queue.

Dispatched(w, h, q) ==
  [w EXCEPT !.state[h] = "running", !.ready = q, !.current = h]

\* The record of a thread that SelectNext starts: running, its timeout flag kept.
LEMMA DispatchedFields ==
  ASSUME NEW K, NEW w \in SchedulerType(K), NEW h \in Handles,
         NEW q \in Seq(Handles)
  PROVE  LET t == Dispatched(w, h, q)
         IN  /\ t \in SchedulerType(K)
             /\ \A g \in Handles :
                  t.state[g] = IF g = h THEN "running" ELSE w.state[g]
             /\ t.wait_key = w.wait_key /\ t.deadline = w.deadline
             /\ t.timed_out = w.timed_out
             /\ t.ready = q /\ t.current = h
<1> DEFINE x == "running"
           t == [w EXCEPT !.state[h] = x, !.ready = q, !.current = h]
<1>1. x \in ThreadStates
  BY DEF ThreadStates
<1> HIDE DEF x
<1>2. /\ t \in SchedulerType(K)
      /\ t.state = [w.state EXCEPT ![h] = x]
      /\ t.wait_key = w.wait_key /\ t.deadline = w.deadline
      /\ t.timed_out = w.timed_out
      /\ t.ready = q /\ t.current = h
  BY <1>1 DEF SchedulerType
<1>3. \A g \in Handles : t.state[g] = IF g = h THEN x ELSE w.state[g]
  BY <1>2 DEF SchedulerType
<1> QED BY <1>2, <1>3 DEF Dispatched, x

\* SelectNext wakes what is due and then either starts nothing or starts the
\* thread at the front, leaving every other record and the rest of the queue.
LEMMA SelectNextEffect ==
  ASSUME NEW K, NEW s, SchedulerOK(s, K), NEW now, s.current = NoThread
  PROVE  LET w == WakeExpiredThreads(s, now)
             t == SelectNext(s, now)
         IN  /\ SchedulerOK(w, K)
             /\ w.current = NoThread
             /\ \/ t = w
                \/ /\ Len(w.ready) # 0
                   /\ w.ready[1] \in InState(w, "ready")
                   /\ t = Dispatched(w, w.ready[1],
                                     SubSeq(w.ready, 2, Len(w.ready)))
<1> DEFINE w == WakeExpiredThreads(s, now)
           t == SelectNext(s, now)
           R == InState(w, "ready")
           live == {i \in DOMAIN w.ready : w.state[w.ready[i]] = "ready"}
           n == Len(w.ready)
           m == CHOOSE i \in live : \A j \in live : i <= j
<1>1. SchedulerOK(w, K) /\ w.current = NoThread
  BY WakeExpiredOK DEF WakeExpiredThreads, MakeReady
<1>2. /\ w \in SchedulerType(K) /\ w.state \in [Handles -> ThreadStates]
      /\ w.ready \in Seq(Handles) /\ n \in Nat
      /\ DOMAIN w.ready = 1 .. n
  BY <1>1 DEF SchedulerOK, SchedulerType
<1>3. live = 1 .. n /\ Lists(w.ready, R)
  BY <1>1, <1>2, QueueExactLists DEF SchedulerOK, QueueExact
<1>4. t = IF live = {} THEN [w EXCEPT !.ready = <<>>]
          ELSE [w EXCEPT !.state[w.ready[m]] = "running",
                         !.ready = SubSeq(w.ready, m + 1, Len(w.ready)),
                         !.current = w.ready[m]]
  BY DEF SelectNext
<1>5. CASE n = 0
  <2>1. live = {} /\ w.ready = <<>>
    BY <1>2, <1>3, <1>5
  <2>2. t = w
    <3> HIDE DEF m, live, w, t
    <3> QED BY <2>1, <1>4, <1>2 DEF SchedulerType
  <2> QED BY <2>2, <1>1
<1>6. CASE n # 0
  <2>1. live # {} /\ m = 1
    <3>1. 1 \in live /\ \A j \in live : 1 <= j
      BY <1>2, <1>3, <1>6
    <3>2. m \in live /\ \A j \in live : m <= j
      <4> HIDE DEF live
      <4> QED BY <3>1
    <3> QED BY <3>1, <3>2, <1>2, <1>3
  <2>2. t = Dispatched(w, w.ready[1], SubSeq(w.ready, 2, n))
    <3> HIDE DEF m, live, w, t
    <3> QED BY <2>1, <1>4 DEF Dispatched
  <2>3. w.ready[1] \in R
    BY <1>3, <1>6, ListsRest
  <2> QED BY <1>1, <1>6, <2>2, <2>3
<1> QED BY <1>5, <1>6

\* SelectNext keeps the scheduler's invariant, expiry of due waits included.
LEMMA SelectNextOK ==
  ASSUME NEW K, NEW s, SchedulerOK(s, K), NEW now
  PROVE  SchedulerOK(SelectNext(s, now), K)
<1> DEFINE w == WakeExpiredThreads(s, now)
           R == InState(w, "ready")
           h == w.ready[1]
           q == SubSeq(w.ready, 2, Len(w.ready))
           t == SelectNext(s, now)
<1>1. SUFFICES ASSUME s.current = NoThread PROVE SchedulerOK(t, K)
  BY DEF SelectNext
<1> HIDE DEF w, t
<1>2. /\ SchedulerOK(w, K) /\ w.current = NoThread
      /\ t = w \/ (Len(w.ready) # 0 /\ h \in R /\ t = Dispatched(w, h, q))
  BY <1>1, SelectNextEffect DEF w, t
<1>3. SUFFICES ASSUME t # w PROVE SchedulerOK(t, K)
  BY <1>2
<1>4. /\ w \in SchedulerType(K) /\ w.state \in [Handles -> ThreadStates]
      /\ h \in Handles /\ q \in Seq(Handles)
  BY <1>2, <1>3 DEF SchedulerOK, SchedulerType, InState
<1>5. Lists(q, R \ {h})
  <2>1. Lists(w.ready, R) /\ Len(w.ready) # 0
    BY <1>2, <1>3, <1>4, QueueExactLists DEF SchedulerOK
  <2> QED BY <2>1, ListsRest
<1> HIDE DEF h, q
<1>6. /\ t \in SchedulerType(K)
      /\ \A g \in Handles :
           t.state[g] = IF g = h THEN "running" ELSE w.state[g]
      /\ t.wait_key = w.wait_key /\ t.deadline = w.deadline
      /\ t.timed_out = w.timed_out
      /\ t.ready = q /\ t.current = h
  <2>1. t = Dispatched(w, h, q) /\ w \in SchedulerType(K)
    BY <1>2, <1>3, <1>4
  <2> QED BY <2>1, <1>4, DispatchedFields
<1>7. h \in R
  BY <1>2, <1>3
<1>8. InState(t, "ready") = R \ {h}
  BY <1>4, <1>6 DEF InState
<1>9. QueueExact(t)
  BY <1>5, <1>6, <1>8, QueueExactLists
<1>10. OneRunning(t)
  <2>1. NoThread \notin Handles
    BY MaxHandleAssumption DEF NoThread, Handles
  <2>2. \A g \in Handles : w.state[g] # "running"
    BY <2>1, <1>2 DEF SchedulerOK, OneRunning
  <2> QED BY <2>2, <1>4, <1>6 DEF OneRunning
<1>11. WaitsOK(t) /\ NoJoinerMissed(t)
  BY <1>2, <1>4, <1>6, <1>7 DEF SchedulerOK, WaitsOK, NoJoinerMissed, InState
<1> QED BY <1>6, <1>9, <1>10, <1>11 DEF SchedulerOK
-----------------------------------------------------------------------------
(* What the operations do to the wait keys: the services' own invariants are *)
(* about who sleeps on which key.                                            *)

\* No thread sleeps under a key of t that it did not sleep under in s.
KeysLeave(s, t) == \A h \in Handles : t.wait_key[h] \in {s.wait_key[h], NoKey}

\* A thread that runs sleeps under no key.
LEMMA RunningHasNoKey ==
  ASSUME NEW K, NEW s, SchedulerOK(s, K), NEW h, s.current = h,
         s.state[h] = "running"
  PROVE  (h \in Handles => s.wait_key[h] = NoKey) /\ (h # NoThread => CanLeave(s))
BY DEF SchedulerOK, WaitsOK, CanLeave

\* WakeExpiredThreads only ends waits.
LEMMA WakeExpiredKeys ==
  ASSUME NEW s, NEW now
  PROVE  KeysLeave(s, WakeExpiredThreads(s, now))
BY DEF KeysLeave, WakeExpiredThreads, MakeReady

\* WakeBlockedThreads only ends waits, whatever the key and the limit.
LEMMA WakeBlockedThreadsKeys ==
  ASSUME NEW s, NEW key, NEW n, NEW now
  PROVE  KeysLeave(s, WakeBlockedThreads(s, key, n, now))
BY DEF KeysLeave, WakeBlockedThreads, WakeExpiredThreads, MakeReady

\* Fewer threads than MaxHandle have a handle below a given one, so the limit
\* that stands for the default argument of WakeBlockedThreads limits nothing.
LEMMA FewerBelow ==
  ASSUME NEW B \in SUBSET Handles, NEW h \in Handles
  PROVE  Cardinality({g \in B : g < h}) < MaxHandle
<1> DEFINE L == {g \in B : g < h}
<1>1. h \in Nat /\ h >= 1 /\ h <= MaxHandle /\ MaxHandle \in Nat
  BY MaxHandleAssumption DEF Handles
<1>2. L \in SUBSET (1 .. (h - 1))
  <2>1. \A g \in L : g \in 1 .. MaxHandle /\ g < h
    BY DEF Handles
  <2>2. \A g \in L : g \in 1 .. (h - 1)
    BY <2>1, <1>1
  <2> QED BY <2>2
<1>3. IsFiniteSet(1 .. (h - 1)) /\ Cardinality(1 .. (h - 1)) = h - 1
  BY <1>1, FS_Interval
<1>4. Cardinality(L) <= h - 1 /\ Cardinality(L) \in Nat
  BY <1>2, <1>3, FS_Subset, FS_CardinalityType
<1> QED BY <1>1, <1>4

\* Waking every waiter of a key leaves nobody under it.
LEMMA WakeAllKeys ==
  ASSUME NEW K, NEW s, SchedulerOK(s, K), NEW key, key # NoKey, NEW now
  PROVE  /\ KeysLeave(s, WakeAll(s, key, now))
         /\ \A h \in Handles : WakeAll(s, key, now).wait_key[h] # key
<1> DEFINE w == WakeExpiredThreads(s, now)
           B == BlockedOn(w, key)
           W == {h \in B : Cardinality({g \in B : g < h}) < MaxHandle}
           t == WakeAll(s, key, now)
<1>1. KeysLeave(s, t)
  BY WakeBlockedThreadsKeys DEF WakeAll
<1>2. SchedulerOK(w, K)
  BY WakeExpiredOK
<1>3. t = MakeReady(w, W, NoTimeout)
  BY MaxHandleAssumption DEF WakeAll, WakeBlockedThreads
<1>4. W = B
  BY FewerBelow DEF BlockedOn
<1>5. ASSUME NEW h \in Handles PROVE t.wait_key[h] # key
  <2> HIDE DEF w, t, W
  <2>1. w.wait_key[h] = key => h \in B
    BY <1>2 DEF SchedulerOK, WaitsOK, BlockedOn
  <2>2. t.wait_key[h] = IF h \in W THEN NoKey ELSE w.wait_key[h]
    BY <1>3 DEF MakeReady
  <2> QED BY <2>1, <2>2, <1>4
<1> QED BY <1>1, <1>5

\* SelectNext only ends waits.
LEMMA SelectNextKeys ==
  ASSUME NEW K, NEW s, SchedulerOK(s, K), NEW now
  PROVE  KeysLeave(s, SelectNext(s, now))
<1> DEFINE w == WakeExpiredThreads(s, now)
           h == w.ready[1]
           q == SubSeq(w.ready, 2, Len(w.ready))
           t == SelectNext(s, now)
<1>1. CASE s.current # NoThread
  BY <1>1 DEF SelectNext, KeysLeave
<1>2. CASE s.current = NoThread
  <2>1. KeysLeave(s, w)
    BY WakeExpiredKeys
  <2> HIDE DEF w, t
  <2>2. /\ SchedulerOK(w, K)
        /\ t = w \/ (h \in InState(w, "ready") /\ t = Dispatched(w, h, q))
    BY <1>2, SelectNextEffect DEF w, t
  <2>3. t.wait_key = w.wait_key
    BY <2>2 DEF Dispatched, SchedulerOK, SchedulerType
  <2> QED BY <2>1, <2>3 DEF KeysLeave, t, w
<1> QED BY <1>1, <1>2

\* YieldCurrent puts nobody to sleep.
LEMMA YieldCurrentKeys ==
  ASSUME NEW K, NEW s, SchedulerOK(s, K)
  PROVE  KeysLeave(s, YieldCurrent(s))
BY DEF SchedulerOK, SchedulerType, YieldCurrent, KeysLeave

\* A block puts the running thread to sleep under the key, and nobody else.
LEMMA BlockCurrentKeys ==
  ASSUME NEW K, NEW s, SchedulerOK(s, K), CanLeave(s), NEW key, key # NoKey,
         NEW d
  PROVE  \A h \in Handles : BlockCurrentUntil(s, key, d).wait_key[h] =
                              IF h = s.current THEN key ELSE s.wait_key[h]
BY DEF SchedulerOK, SchedulerType, BlockCurrentUntil, CanLeave
-----------------------------------------------------------------------------
(* Sequences of wait keys: what a selection of positions keeps, what joining *)
(* sequences gives.                                                          *)

\* r has the entries of q at the positions I, each once and in order.
Picks(q, I, r) ==
  \E idx \in [DOMAIN r -> I] :
    /\ \A k \in DOMAIN r : r[k] = q[idx[k]]
    /\ \A k, l \in DOMAIN r : idx[k] = idx[l] => k = l
    /\ \A k, l \in DOMAIN r : k < l => idx[k] < idx[l]
    /\ \A i \in I : \E k \in DOMAIN r : idx[k] = i

\* EntriesAt takes exactly the entries at the positions it is given.
LEMMA EntriesAtFacts ==
  ASSUME NEW S, NEW q \in Seq(S), NEW I \in SUBSET DOMAIN q
  PROVE  EntriesAt(q, I) \in Seq(S) /\ Picks(q, I, EntriesAt(q, I))
<1> DEFINE idx == InOrder(I)
           r == EntriesAt(q, I)
<1>1. I \in SUBSET (1 .. Len(q)) /\ Len(q) \in Nat
  OBVIOUS
<1>2. Lists(idx, I) /\ Sorted(idx, I)
  BY <1>1, InOrderLists, InOrderSorted
<1>3. r = [k \in DOMAIN idx |-> q[idx[k]]]
  BY DEF EntriesAt
<1>4. /\ idx \in Seq(I) /\ Len(idx) \in Nat
      /\ DOMAIN idx = 1 .. Len(idx)
      /\ \A k \in DOMAIN idx : idx[k] \in I
  <2>1. idx \in Seq(I)
    BY <1>2 DEF Lists
  <2> HIDE DEF idx
  <2> QED BY <2>1
<1> HIDE DEF r, idx
<1>5. \A k \in DOMAIN idx : r[k] = q[idx[k]] /\ r[k] \in S
  BY <1>1, <1>3, <1>4
<1>6. r \in Seq(S) /\ DOMAIN r = DOMAIN idx
  BY <1>3, <1>4, <1>5
<1>7. idx \in [DOMAIN r -> I]
  BY <1>4, <1>6
<1>8. /\ \A k, l \in DOMAIN r : idx[k] = idx[l] => k = l
      /\ \A i \in I : \E k \in DOMAIN r : idx[k] = i
  BY <1>2, <1>6 DEF Lists
<1>9. \A k, l \in DOMAIN r : k < l => idx[k] < idx[l]
  BY <1>2, <1>6 DEF Sorted
<1>10. Picks(q, I, r)
  BY <1>5, <1>6, <1>7, <1>8, <1>9 DEF Picks
<1> QED BY <1>6, <1>10 DEF r

\* f[i] is the first i of the parts, joined, for every i up to n.
JoinsUpTo(f, parts, n) ==
  f = [i \in 0 .. n |-> IF i = 0 THEN <<>> ELSE f[i - 1] \o parts[i]]

\* The recursion that defines Joined has a solution.
LEMMA JoinsExist ==
  ASSUME NEW parts, NEW n \in Nat
  PROVE  \E f : JoinsUpTo(f, parts, n)
<1> DEFINE Bad == {m \in Nat : ~ \E f : JoinsUpTo(f, parts, m)}
<1>1. SUFFICES ASSUME Bad # {} PROVE FALSE
  BY <1>1
<1>2. PICK m \in Bad : \A k \in Bad : m <= k
  BY <1>1, LeastElement
<1>3. m \in Nat /\ ~ \E f : JoinsUpTo(f, parts, m)
  BY <1>2
<1>4. CASE m = 0
  <2>1. JoinsUpTo([i \in 0 .. 0 |-> <<>>], parts, 0)
    BY DEF JoinsUpTo
  <2> QED BY <2>1, <1>3, <1>4
<1>5. CASE m # 0
  <2>1. m - 1 \in Nat /\ ~(m <= m - 1)
    BY <1>3, <1>5
  <2>2. PICK f : JoinsUpTo(f, parts, m - 1)
    BY <2>1, <1>2
  <2> DEFINE g == [i \in 0 .. m |-> IF i = m THEN f[m - 1] \o parts[m] ELSE f[i]]
  <2>3. \A i \in 0 .. (m - 1) :
           f[i] = IF i = 0 THEN <<>> ELSE f[i - 1] \o parts[i]
    BY <2>2 DEF JoinsUpTo
  <2>4. ASSUME NEW i \in 0 .. m
        PROVE  g[i] = IF i = 0 THEN <<>> ELSE g[i - 1] \o parts[i]
    <3>1. CASE i = m
      <4>1. g[i] = f[m - 1] \o parts[m] /\ g[i - 1] = f[m - 1]
        BY <3>1, <2>1, <1>3
      <4> QED BY <3>1, <4>1, <1>5
    <3>2. CASE i # m /\ i # 0
      <4>1. i \in 0 .. (m - 1) /\ i - 1 \in 0 .. m /\ i - 1 # m
        BY <3>2, <1>3
      <4>2. g[i] = f[i] /\ g[i - 1] = f[i - 1]
        BY <3>2, <4>1
      <4> QED BY <3>2, <4>1, <4>2, <2>3
    <3>3. CASE i # m /\ i = 0
      <4>1. i \in 0 .. (m - 1)
        BY <3>3, <1>3
      <4>2. g[i] = f[i]
        BY <3>3
      <4> QED BY <3>3, <4>1, <4>2, <2>3
    <3> QED BY <3>1, <3>2, <3>3
  <2>5. g = [i \in 0 .. m |-> g[i]]
    OBVIOUS
  <2>6. g = [i \in 0 .. m |-> IF i = 0 THEN <<>> ELSE g[i - 1] \o parts[i]]
    <3> HIDE DEF g
    <3> QED BY <2>4, <2>5
  <2>7. JoinsUpTo(g, parts, m)
    BY <2>6 DEF JoinsUpTo
  <2> QED BY <2>7, <1>3
<1> QED BY <1>4, <1>5

\* Joining lists of disjoint sets lists their union.
LEMMA JoinedLists ==
  ASSUME NEW n \in Nat, NEW parts, DOMAIN parts = 1 .. n, Len(parts) = n,
         NEW T, \A i \in 1 .. n : Lists(parts[i], T[i]),
         \A i, j \in 1 .. n : i # j => T[i] \cap T[j] = {}
  PROVE  Lists(Joined(parts), UNION {T[i] : i \in 1 .. n})
<1> DEFINE f == CHOOSE g : JoinsUpTo(g, parts, n)
           U(m) == UNION {T[i] : i \in 1 .. m}
           Bad == {m \in Nat : m <= n /\ ~ Lists(f[m], U(m))}
<1>1. JoinsUpTo(f, parts, n)
  BY JoinsExist
<1>2. Joined(parts) = f[n]
  BY DEF Joined, JoinsUpTo
<1> HIDE DEF f
<1>3. ASSUME Bad # {} PROVE FALSE
  <2>1. PICK m \in Bad : \A k \in Bad : m <= k
    BY <1>3, LeastElement
  <2>2. m \in Nat /\ m <= n /\ ~ Lists(f[m], U(m)) /\ m \in 0 .. n
    BY <2>1
  <2>3. f[m] = IF m = 0 THEN <<>> ELSE f[m - 1] \o parts[m]
    BY <1>1, <2>2 DEF JoinsUpTo
  <2>4. CASE m = 0
    <3>1. U(0) = {}
      OBVIOUS
    <3>2. Lists(<<>>, {})
      BY DEF Lists
    <3> QED BY <2>2, <2>3, <2>4, <3>1, <3>2
  <2>5. CASE m # 0
    <3>1. m - 1 \in Nat /\ m - 1 <= n /\ ~(m <= m - 1) /\ m \in 1 .. n
      BY <2>2, <2>5
    <3>2. Lists(f[m - 1], U(m - 1))
      BY <2>1, <3>1
    <3>3. \A i \in 1 .. (m - 1) : i \in 1 .. n /\ i # m
      BY <3>1, <2>2
    <3>4. U(m - 1) \cap T[m] = {}
      BY <3>1, <3>3
    <3>5. U(m) = U(m - 1) \cup T[m]
      <4>1. \A i : i \in 1 .. m <=> i \in 1 .. (m - 1) \/ i = m
        BY <3>1, <2>2
      <4> QED BY <4>1
    <3> HIDE DEF U
    <3>6. Lists(f[m - 1] \o parts[m], U(m))
      BY <3>1, <3>2, <3>4, <3>5, ListsConcat
    <3> QED BY <2>2, <2>3, <2>5, <3>6
  <2> QED BY <2>4, <2>5
<1>4. n \notin Bad
  BY <1>3
<1>5. Lists(f[n], U(n))
  BY <1>4
<1> QED BY <1>2, <1>5

\* A scheduler whose ready queue lists the same threads in another order.
LEMMA ReorderedOK ==
  ASSUME NEW K, NEW t, SchedulerOK(t, K), NEW q, Lists(q, InState(t, "ready"))
  PROVE  SchedulerOK([t EXCEPT !.ready = q], K)
<1> DEFINE u == [t EXCEPT !.ready = q]
<1>1. q \in Seq(Handles)
  BY DEF Lists, InState
<1>2. u \in SchedulerType(K)
  BY <1>1 DEF SchedulerOK, SchedulerType
<1>3. /\ u.state = t.state /\ u.wait_key = t.wait_key /\ u.deadline = t.deadline
      /\ u.timed_out = t.timed_out /\ u.current = t.current /\ u.ready = q
  BY DEF SchedulerOK, SchedulerType
<1> HIDE DEF u
<1>4. QueueExact(u)
  BY <1>2, <1>3, QueueExactLists DEF InState
<1>5. OneRunning(u) /\ WaitsOK(u) /\ NoJoinerMissed(u)
  BY <1>3 DEF SchedulerOK, OneRunning, WaitsOK, NoJoinerMissed
<1> QED BY <1>2, <1>4, <1>5 DEF SchedulerOK, u

\* The threads the wake-ups of the keys find asleep.
SleepersOf(s, keys) ==
  {h \in Handles : \E i \in DOMAIN keys : /\ KeyThread(keys[i]) = h
                                         /\ s.wait_key[h] = keys[i]}

\* t is s after the threads of W were woken without a timeout.
Woken(s, W, t) ==
  /\ t.current = s.current
  /\ \A h \in Handles :
       /\ t.state[h] = IF h \in W THEN "ready" ELSE s.state[h]
       /\ t.wait_key[h] = IF h \in W THEN NoKey ELSE s.wait_key[h]
       /\ t.deadline[h] = IF h \in W THEN NoDeadline ELSE s.deadline[h]
       /\ t.timed_out[h] = IF h \in W THEN NoKey ELSE s.timed_out[h]

\* Waking different keys in turn keeps the scheduler's invariant, and wakes
\* exactly the threads that still sleep under their key once the expired waits
\* are retired.
LEMMA WakeInTurnEffect ==
  ASSUME NEW K, NEW s, SchedulerOK(s, K), NEW now, NEW keys \in Seq(K),
         keys # <<>>, NoKey \notin K,
         \A i \in DOMAIN keys : KeyThread(keys[i]) \in Handles,
         \A i, j \in DOMAIN keys : keys[i] = keys[j] => i = j
  PROVE  LET w == WakeExpiredThreads(s, now)
         IN  /\ SchedulerOK(WakeInTurn(s, keys, now), K)
             /\ Woken(w, SleepersOf(w, keys), WakeInTurn(s, keys, now))
<1> DEFINE w == WakeExpiredThreads(s, now)
           threads == [i \in DOMAIN keys |-> KeyThread(keys[i])]
           found == {i \in DOMAIN keys : w.wait_key[threads[i]] = keys[i]}
           W == {threads[i] : i \in found}
           m == MakeReady(w, W, NoTimeout)
           e == EntriesAt(threads, found)
           t == WakeInTurn(s, keys, now)
<1>1. SchedulerOK(w, K)
  BY WakeExpiredOK
<1>2. t = [m EXCEPT !.ready = w.ready \o e]
  BY DEF WakeInTurn
<1>3. /\ \A i \in DOMAIN keys : threads[i] = KeyThread(keys[i]) /\ keys[i] \in K
      /\ threads \in Seq(Handles) /\ DOMAIN threads = DOMAIN keys
  OBVIOUS
<1> HIDE DEF w, threads, t
<1>4. W \in SUBSET InState(w, "blocked") /\ W \in SUBSET Handles
  <2> SUFFICES ASSUME NEW i \in found
               PROVE  threads[i] \in InState(w, "blocked")
    BY DEF InState
  <2>1. threads[i] \in Handles /\ w.wait_key[threads[i]] = keys[i] /\ keys[i] # NoKey
    BY <1>3
  <2> QED BY <2>1, <1>1 DEF SchedulerOK, WaitsOK, InState
<1>5. W = SleepersOf(w, keys)
  BY <1>3 DEF SleepersOf
<1>6. NoTimeout \in [Handles -> K \cup {NoKey}]
  BY DEF NoTimeout
<1>7. SchedulerOK(m, K)
  <2> HIDE DEF W
  <2> QED BY <1>1, <1>4, <1>6, MakeReadyOK
<1>8. Lists(e, W)
  <2>1. found \in SUBSET DOMAIN threads
    BY <1>3
  <2>2. e \in Seq(Handles)
    BY <1>3, <2>1, EntriesAtFacts
  <2>3. PICK idx \in [DOMAIN e -> found] :
           /\ \A k \in DOMAIN e : e[k] = threads[idx[k]]
           /\ \A k, l \in DOMAIN e : idx[k] = idx[l] => k = l
           /\ \A k, l \in DOMAIN e : k < l => idx[k] < idx[l]
           /\ \A i \in found : \E k \in DOMAIN e : idx[k] = i
    <3>1. Picks(threads, found, e)
      BY <1>3, <2>1, EntriesAtFacts
    <3> HIDE DEF found, e
    <3> QED BY <3>1 DEF Picks
  <2> HIDE DEF e
  <2>4. \A i, j \in found : threads[i] = threads[j] => i = j
    OBVIOUS
  <2>5. \A k \in DOMAIN e : idx[k] \in found
    BY <2>3
  <2> HIDE DEF found
  <2>6. e \in Seq(W)
    BY <2>2, <2>3, <2>5
  <2>7. \A k, l \in DOMAIN e : e[k] = e[l] => k = l
    BY <2>3, <2>4, <2>5
  <2>8. \A h \in W : \E k \in DOMAIN e : e[k] = h
    BY <2>3
  <2> QED BY <2>6, <2>7, <2>8 DEF Lists
<1> HIDE DEF found, e
<1>9. Lists(w.ready \o e, InState(m, "ready"))
  <2> DEFINE R == InState(w, "ready")
  <2>1. Lists(w.ready, R)
    BY <1>1, QueueExactLists DEF SchedulerOK
  <2>2. R \cap W = {}
    BY <1>4 DEF InState
  <2>3. InState(m, "ready") = R \cup W
    BY <1>4 DEF InState, MakeReady
  <2> HIDE DEF W, R
  <2> QED BY <1>8, <2>1, <2>2, <2>3, ListsConcat
<1> HIDE DEF W
<1>10. SchedulerOK(t, K)
  <2> HIDE DEF m
  <2> QED BY <1>2, <1>7, <1>9, ReorderedOK
<1>11. Woken(w, W, t)
  <2>1. /\ t.state = m.state /\ t.wait_key = m.wait_key /\ t.deadline = m.deadline
        /\ t.timed_out = m.timed_out /\ t.current = m.current
    BY <1>2, <1>7 DEF SchedulerOK, SchedulerType
  <2> QED BY <2>1 DEF Woken, MakeReady, NoTimeout
<1> QED BY <1>5, <1>10, <1>11 DEF t, w

-----------------------------------------------------------------------------
(* What the operations do to the states of the threads.                     *)

Awake(s, h) == s.state[h] \in {"ready", "running"}

\* No thread of s waits with a deadline.
NoDeadlines(s) == \A h \in Handles : s.deadline[h] = NoDeadline

\* t is s after some threads were dispatched or sent back to the ready queue:
\* nobody fell asleep, woke up or exited.
SameSleepers(s, t) ==
  \A h \in Handles :
    /\ t.wait_key[h] = s.wait_key[h] /\ t.deadline[h] = s.deadline[h]
    /\ Awake(t, h) <=> Awake(s, h)
    /\ t.state[h] = "exited" <=> s.state[h] = "exited"

\* Without deadlines nothing expires.
LEMMA NothingExpires ==
  ASSUME NEW s, NoDeadlines(s), NEW now
  PROVE  Woken(s, {}, WakeExpiredThreads(s, now))
BY DEF NoDeadlines, WakeExpiredThreads, MakeReady, Expired, Woken

\* SelectNext without deadlines changes no thread but the one it dispatches.
LEMMA SelectNextSleepers ==
  ASSUME NEW K, NEW s, SchedulerOK(s, K), NoDeadlines(s), NEW now
  PROVE  SameSleepers(s, SelectNext(s, now))
<1> DEFINE w == WakeExpiredThreads(s, now)
           h == w.ready[1]
           q == SubSeq(w.ready, 2, Len(w.ready))
           t == SelectNext(s, now)
<1>1. CASE s.current # NoThread
  BY <1>1 DEF SelectNext, SameSleepers
<1>2. CASE s.current = NoThread
  <2>1. Woken(s, {}, w)
    BY NothingExpires
  <2> HIDE DEF w, t
  <2>2. /\ SchedulerOK(w, K)
        /\ t = w \/ (/\ Len(w.ready) # 0 /\ h \in InState(w, "ready")
                     /\ t = Dispatched(w, h, q))
    BY <1>2, SelectNextEffect DEF w, t
  <2>3. SameSleepers(s, w)
    BY <2>1 DEF Woken, SameSleepers, Awake
  <2>4. CASE t # w
    <3>1. h \in Handles /\ w.state[h] = "ready" /\ t = Dispatched(w, h, q)
      BY <2>2, <2>4 DEF InState
    <3>2. w \in SchedulerType(K) /\ q \in Seq(Handles)
      BY <2>2 DEF SchedulerOK, SchedulerType
    <3> HIDE DEF h, q
    <3>3. /\ \A g \in Handles : t.state[g] = IF g = h THEN "running" ELSE w.state[g]
          /\ t.wait_key = w.wait_key /\ t.deadline = w.deadline
      BY <3>1, <3>2, DispatchedFields
    <3> QED BY <2>3, <3>1, <3>3 DEF SameSleepers, Awake, t
  <2> QED BY <2>3, <2>4 DEF t
<1> QED BY <1>1, <1>2

\* YieldCurrent changes the running thread, which stays awake.
LEMMA YieldCurrentSleepers ==
  ASSUME NEW K, NEW s, SchedulerOK(s, K)
  PROVE  SameSleepers(s, YieldCurrent(s))
BY DEF SchedulerOK, SchedulerType, YieldCurrent, CanLeave, SameSleepers, Awake

\* A block changes the running thread and nobody else.
LEMMA BlockCurrentStates ==
  ASSUME NEW K, NEW s, SchedulerOK(s, K), CanLeave(s), NEW key, key # NoKey,
         NEW d
  PROVE  LET t == BlockCurrentUntil(s, key, d)
         IN  \A h \in Handles :
               /\ t.state[h] = IF h = s.current THEN "blocked" ELSE s.state[h]
               /\ t.wait_key[h] = IF h = s.current THEN key ELSE s.wait_key[h]
               /\ t.deadline[h] = IF h = s.current THEN d ELSE s.deadline[h]
BY DEF SchedulerOK, SchedulerType, BlockCurrentUntil, CanLeave

\* An exit changes the running thread and its joiners, whom it wakes.
LEMMA ExitCurrentStates ==
  ASSUME NEW K, NEW s, SchedulerOK(s, K), CanLeave(s)
  PROVE  LET c == s.current
             t == ExitCurrent(s)
             J == BlockedOn(s, ThreadExitWaitKey(c))
         IN  \A h \in Handles :
               /\ t.state[h] = IF h \in J THEN "ready"
                               ELSE IF h = c THEN "exited" ELSE s.state[h]
               /\ t.wait_key[h] = IF h \in J \/ h = c THEN NoKey ELSE s.wait_key[h]
               /\ t.deadline[h] = IF h \in J \/ h = c THEN NoDeadline
                                  ELSE s.deadline[h]
BY DEF SchedulerOK, SchedulerType, ExitCurrent, CanLeave, MakeReady

-----------------------------------------------------------------------------
(* What a thread other than the running one may notice of a step.           *)

Alive(s, h) == s.state[h] \in {"ready", "running", "blocked"}

\* Nothing: it may at most have been dispatched or sent back to the queue.
Steady(s, t, h) ==
  /\ t.wait_key[h] = s.wait_key[h] /\ t.deadline[h] = s.deadline[h]
  /\ t.timed_out[h] = s.timed_out[h]
  /\ Awake(t, h) <=> Awake(s, h)
  /\ Alive(t, h) <=> Alive(s, h)

\* The thread was woken.
Roused(t, h) == t.wait_key[h] = NoKey /\ Awake(t, h)

\* Nothing, or its wait expired, or the thread it had joined is gone.
Drifts(s, t, h, time) ==
  \/ Steady(s, t, h)
  \/ h \in Expired(s, time) /\ Roused(t, h) /\ t.timed_out[h] = s.wait_key[h]
  \/ Roused(t, h) /\ \E g \in Handles : s.wait_key[h] = ThreadExitWaitKey(g)

\* Steps compose.
LEMMA DriftsOn ==
  ASSUME NEW s, NEW w, NEW t, NEW h, NEW time, Drifts(s, w, h, time),
         \/ Steady(w, t, h)
         \/ Roused(t, h) /\ \E g \in Handles : w.wait_key[h] = ThreadExitWaitKey(g)
  PROVE  Drifts(s, t, h, time)
<1>1. CASE Steady(w, t, h)
  BY <1>1 DEF Drifts, Steady, Roused
<1>2. CASE Roused(t, h) /\ \E g \in Handles : w.wait_key[h] = ThreadExitWaitKey(g)
  <2>1. w.wait_key[h] # NoKey
    BY <1>2, ThreadExitKeyFacts
  <2>2. Steady(s, w, h)
    BY <2>1 DEF Drifts, Roused
  <2> QED BY <1>2, <2>2 DEF Drifts, Steady
<1> QED BY <1>1, <1>2

\* WakeExpiredThreads, on which every wake-up and every selection begins.
LEMMA ExpiryDrifts ==
  ASSUME NEW K, NEW s, SchedulerOK(s, K), NEW time
  PROVE  LET w == WakeExpiredThreads(s, time)
         IN  /\ SchedulerOK(w, K) /\ w.current = s.current
             /\ \A h \in Handles : Drifts(s, w, h, time)
             /\ \A h \in Handles : s.state[h] # "blocked" => w.state[h] = s.state[h]
<1> DEFINE w == WakeExpiredThreads(s, time)
<1>1. SchedulerOK(w, K)
  BY WakeExpiredOK
<1>2. /\ w.current = s.current
      /\ \A h \in Handles : s.state[h] # "blocked" => w.state[h] = s.state[h]
  BY DEF WakeExpiredThreads, MakeReady, Expired
<1>3. ASSUME NEW h \in Handles PROVE Drifts(s, w, h, time)
  <2>1. CASE h \in Expired(s, time)
    <3>1. w.wait_key[h] = NoKey /\ w.state[h] = "ready" /\ w.timed_out[h] = s.wait_key[h]
      BY <2>1 DEF WakeExpiredThreads, MakeReady
    <3> HIDE DEF w
    <3> QED BY <2>1, <3>1 DEF Drifts, Roused, Awake
  <2>2. CASE h \notin Expired(s, time)
    <3>1. /\ w.wait_key[h] = s.wait_key[h] /\ w.state[h] = s.state[h]
          /\ w.timed_out[h] = s.timed_out[h] /\ w.deadline[h] = s.deadline[h]
      BY <2>2 DEF WakeExpiredThreads, MakeReady
    <3> HIDE DEF w
    <3> QED BY <3>1 DEF Drifts, Steady, Awake, Alive
  <2> QED BY <2>1, <2>2
<1> QED BY <1>1, <1>2, <1>3

\* SelectNext dispatches one thread, after the expired waits.
LEMMA SelectDrifts ==
  ASSUME NEW K, NEW s, SchedulerOK(s, K), NEW time
  PROVE  /\ SchedulerOK(SelectNext(s, time), K)
         /\ \A h \in Handles : Drifts(s, SelectNext(s, time), h, time)
<1> DEFINE w == WakeExpiredThreads(s, time)
           g == w.ready[1]
           q == SubSeq(w.ready, 2, Len(w.ready))
           t == SelectNext(s, time)
<1>1. SchedulerOK(t, K)
  BY SelectNextOK
<1>2. ASSUME NEW h \in Handles PROVE Drifts(s, t, h, time)
  <2>1. CASE s.current # NoThread
    <3>1. t = s
      BY <2>1 DEF SelectNext
    <3> QED BY <3>1 DEF Drifts, Steady
  <2>2. CASE s.current = NoThread
    <3>1. SchedulerOK(w, K) /\ Drifts(s, w, h, time)
      BY ExpiryDrifts
    <3> HIDE DEF w, t
    <3>2. t = w \/ (Len(w.ready) # 0 /\ g \in InState(w, "ready") /\ t = Dispatched(w, g, q))
      BY <2>2, SelectNextEffect DEF w, t
    <3>3. CASE t = w
      BY <3>1, <3>3
    <3>4. CASE Len(w.ready) # 0 /\ g \in InState(w, "ready") /\ t = Dispatched(w, g, q)
      <4>1. w \in SchedulerType(K) /\ g \in Handles /\ w.state[g] = "ready"
        BY <3>1, <3>4 DEF SchedulerOK, InState
      <4>2. q \in Seq(Handles)
        BY <4>1, <3>4 DEF SchedulerType
      <4> HIDE DEF g, q
      <4>3. /\ t.state[h] = IF h = g THEN "running" ELSE w.state[h]
            /\ t.wait_key = w.wait_key /\ t.deadline = w.deadline
            /\ t.timed_out = w.timed_out
        BY <3>4, <4>1, <4>2, DispatchedFields
      <4>4. Steady(w, t, h)
        BY <4>1, <4>3 DEF Steady, Awake, Alive
      <4> QED BY <3>1, <4>4, DriftsOn
    <3> QED BY <3>2, <3>3, <3>4
  <2> QED BY <2>1, <2>2
<1> QED BY <1>1, <1>2

\* A yield changes nobody but its thread, and that only from running to ready.
LEMMA YieldSteady ==
  ASSUME NEW K, NEW s, SchedulerOK(s, K), NEW h \in Handles
  PROVE  Steady(s, YieldCurrent(s), h)
<1> DEFINE t == YieldCurrent(s)
<1>1. /\ t.wait_key = s.wait_key /\ t.deadline = s.deadline /\ t.timed_out = s.timed_out
      /\ \/ t.state[h] = s.state[h]
         \/ s.state[h] = "running" /\ t.state[h] = "ready"
  BY DEF SchedulerOK, SchedulerType, YieldCurrent, CanLeave
<1> HIDE DEF t
<1>2. Steady(s, t, h)
  BY <1>1 DEF Steady, Awake, Alive
<1> QED BY <1>2 DEF t

\* A block changes nobody but the running thread.
LEMMA BlockSteady ==
  ASSUME NEW K, NEW s, SchedulerOK(s, K), CanLeave(s), NEW key, key # NoKey, NEW d
  PROVE  LET t == BlockCurrentUntil(s, key, d)
             c == s.current
         IN  /\ \A h \in Handles : h # c => Steady(s, t, h)
             /\ c \in Handles => /\ t.state[c] = "blocked" /\ t.wait_key[c] = key
                                 /\ t.deadline[c] = d
<1> DEFINE t == BlockCurrentUntil(s, key, d)
           c == s.current
<1>1. \A h \in Handles :
        /\ t.state[h] = IF h = c THEN "blocked" ELSE s.state[h]
        /\ t.wait_key[h] = IF h = c THEN key ELSE s.wait_key[h]
        /\ t.deadline[h] = IF h = c THEN d ELSE s.deadline[h]
        /\ h # c => t.timed_out[h] = s.timed_out[h]
  BY DEF SchedulerOK, SchedulerType, BlockCurrentUntil, CanLeave
<1> HIDE DEF t
<1>2. \A h \in Handles : h # c => Steady(s, t, h)
  BY <1>1 DEF Steady, Awake, Alive
<1> QED BY <1>1, <1>2 DEF t

\* ConsumeCurrentThreadTimeout clears the running thread's mark and no more.
LEMMA ConsumeSteady ==
  ASSUME NEW K, NEW s, SchedulerOK(s, K), NEW key
  PROVE  LET t == ConsumeCurrentThreadTimeout(s, key)
         IN  /\ SchedulerOK(t, K) /\ t.current = s.current
             /\ t.state = s.state /\ t.wait_key = s.wait_key /\ t.deadline = s.deadline
             /\ \A h \in Handles : h # s.current => Steady(s, t, h)
<1> DEFINE t == ConsumeCurrentThreadTimeout(s, key)
<1>1. SchedulerOK(t, K)
  BY ConsumeTimeoutOK
<1>2. /\ t.current = s.current /\ t.state = s.state /\ t.wait_key = s.wait_key
      /\ t.deadline = s.deadline
      /\ \A h \in Handles : h # s.current => t.timed_out[h] = s.timed_out[h]
  BY DEF SchedulerOK, SchedulerType, ConsumeCurrentThreadTimeout
<1> HIDE DEF t
<1>3. \A h \in Handles : h # s.current => Steady(s, t, h)
  BY <1>2 DEF Steady, Awake, Alive
<1> QED BY <1>1, <1>2, <1>3 DEF t

-----------------------------------------------------------------------------
(* The scheduler at the start of a service.                                 *)

\* The scheduler of a service whose threads were just created.
LEMMA StartedOK ==
  ASSUME NEW K, NEW s,
         s = [state     |-> [h \in Handles |-> "ready"],
              wait_key  |-> [h \in Handles |-> NoKey],
              deadline  |-> [h \in Handles |-> NoDeadline],
              timed_out |-> [h \in Handles |-> NoKey],
              ready     |-> [i \in Handles |-> i],
              current   |-> NoThread]
  PROVE  /\ SchedulerOK(s, K)
         /\ \A h \in Handles : s.wait_key[h] = NoKey /\ s.deadline[h] = NoDeadline
<1>2. [i \in Handles |-> i] \in Seq(Handles)
  BY MaxHandleAssumption DEF Handles
<1>3. s \in SchedulerType(K)
  BY <1>2 DEF SchedulerType, ThreadStates
<1>4. QueueExact(s) /\ WaitsOK(s) /\ NoJoinerMissed(s)
  BY DEF QueueExact, WaitsOK, NoJoinerMissed
<1>5. OneRunning(s)
  BY MaxHandleAssumption DEF OneRunning, Handles, NoThread
<1> QED BY <1>3, <1>4, <1>5 DEF SchedulerOK
=============================================================================

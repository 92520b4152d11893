------------------------ MODULE PthreadRwlockProofs -------------------------
(***************************************************************************)
(* The read-write locks are correct for any number of threads and locks:   *)
(* a writer is alone, exactly the queued threads sleep, a free lock has no  *)
(* queue, and a grant belongs to an awake thread that will take it.         *)
(*                                                                         *)
(* The invariant is stated for one lock (LockOK).  A step first changes the *)
(* lock it is about and then hands it on; in between the lock may be free   *)
(* with a queue (Handing).  Every other lock is only touched through the    *)
(* scheduler and the calls, and Moves says what of that it may notice.      *)
(***************************************************************************)
EXTENDS PthreadRwlock, SchedulerLemmas

-----------------------------------------------------------------------------
(* The inductive invariant.                                                 *)

\* Lock l in state x between an unlock and the hand-over.
Handing(l, x, s, c) ==
  /\ x \in RwlockRecords
  /\ x.writer # NoThread => Reading(x) = {}
  /\ \A h \in Handles : Held(x, h) => s.state[h] # "exited"
  /\ \A i, j \in DOMAIN x.waiters :
       x.waiters[i].thread = x.waiters[j].thread => i = j
  /\ \A h \in Handles : h \in QueuedThreads(x) <=> s.wait_key[h] = RwlockWaitKey(l, h)
  /\ \A i \in DOMAIN x.waiters :
       /\ c[x.waiters[i].thread] = LockCall(l, x.waiters[i].write)
       /\ ~Held(x, x.waiters[i].thread)
  /\ x.granted_writer # NoThread =>
       /\ x.writer = x.granted_writer
       /\ c[x.writer] = LockCall(l, TRUE) /\ Awake(s, x.writer)
  /\ \A h \in x.granted_readers :
       x.readers[h] > 0 /\ c[h] = LockCall(l, FALSE) /\ Awake(s, h)

LockOK(l, x, s, c) ==
  /\ Handing(l, x, s, c)
  /\ x.waiters # <<>> => ~Free(x)
  /\ ~x.live => x = NoRwlock

IInv ==
  /\ TypeOK
  /\ NoDeadlines(sched)
  /\ \A l \in Rwlocks : LockOK(l, rwlocks[l], sched, call)

(* What lock l, in state x, may notice of a step from the scheduler s and the *)
(* calls c to t and d that wakes W of its sleepers.                           *)
Moves(l, x, W, s, c, t, d) ==
  \A h \in Handles :
    /\ t.wait_key[h] = RwlockWaitKey(l, h) <=>
         s.wait_key[h] = RwlockWaitKey(l, h) /\ h \notin W
    /\ h \in W => Awake(t, h)
    /\ Held(x, h) /\ t.state[h] = "exited" => s.state[h] = "exited"
    /\ h \in QueuedThreads(x) \cup x.granted_readers \cup {x.granted_writer} =>
         d[h] = c[h] /\ (Awake(s, h) => Awake(t, h))

-----------------------------------------------------------------------------
(* Wait keys.                                                               *)

\* The wait key of a thread on a lock ends in the thread and differs from every
\* other key.
LEMMA KeyFacts ==
  /\ \A l, h : RwlockWaitKey(l, h) # NoKey /\ KeyThread(RwlockWaitKey(l, h)) = h
  /\ \A l, h, m, g : RwlockWaitKey(l, h) = RwlockWaitKey(m, g) => l = m /\ h = g
  /\ \A l, h, g : RwlockWaitKey(l, h) # ThreadExitWaitKey(g)
  /\ \A l \in Rwlocks, h \in Handles : RwlockWaitKey(l, h) \in WaitKeys
  /\ NoKey \notin WaitKeys
<1>1. \A l, h : RwlockWaitKey(l, h) # NoKey /\ KeyThread(RwlockWaitKey(l, h)) = h
  BY DEF RwlockWaitKey, KeyThread, NoKey
<1>2. \A l, h, m, g : RwlockWaitKey(l, h) = RwlockWaitKey(m, g) => l = m /\ h = g
  BY DEF RwlockWaitKey
<1>3. \A l, h, g : RwlockWaitKey(l, h) # ThreadExitWaitKey(g)
  BY DEF RwlockWaitKey, ThreadExitWaitKey
<1>4. \A l \in Rwlocks, h \in Handles : RwlockWaitKey(l, h) \in WaitKeys
  BY DEF WaitKeys
<1>5. NoKey \notin WaitKeys
  BY <1>1, ThreadExitKeyFacts DEF WaitKeys
<1> QED BY <1>1, <1>2, <1>3, <1>4, <1>5

\* Calls on different locks, or of different kinds, differ.
LEMMA CallFacts ==
  /\ \A l, w : LockCall(l, w) # NoCall
  /\ \A l, w, m, v : LockCall(l, w) = LockCall(m, v) => l = m /\ w = v
BY DEF LockCall, NoCall

\* Handles are not NoThread.
LEMMA HandleFacts == NoThread \notin Handles
BY MaxHandleAssumption DEF NoThread, Handles

\* The fields of a lock's state.
LEMMA FieldTypes ==
  ASSUME NEW x \in RwlockRecords
  PROVE  /\ x.live \in BOOLEAN /\ x.writer \in Handles \cup {NoThread}
         /\ x.readers \in [Handles -> 0 .. MaxReadCount]
         /\ x.waiters \in Seq(Waiters)
         /\ x.granted_readers \in SUBSET Handles
         /\ x.granted_writer \in Handles \cup {NoThread}
BY DEF RwlockRecords

\* The queue of a lock holds threads.
LEMMA WaiterTypes ==
  ASSUME NEW x \in RwlockRecords
  PROVE  /\ Len(x.waiters) \in Nat /\ DOMAIN x.waiters = 1 .. Len(x.waiters)
         /\ \A i \in DOMAIN x.waiters :
              /\ x.waiters[i] \in Waiters
              /\ x.waiters[i].thread \in Handles
              /\ x.waiters[i].write \in BOOLEAN
              /\ x.waiters[i].thread \in QueuedThreads(x)
<1>1. x.waiters \in Seq(Waiters)
  BY FieldTypes
<1>2. /\ Len(x.waiters) \in Nat /\ DOMAIN x.waiters = 1 .. Len(x.waiters)
      /\ \A i \in DOMAIN x.waiters : x.waiters[i] \in Waiters
  BY <1>1
<1>3. \A w \in Waiters : w.thread \in Handles /\ w.write \in BOOLEAN
  BY DEF Waiters
<1> QED BY <1>2, <1>3 DEF QueuedThreads

-----------------------------------------------------------------------------
(* Steps that do not touch the lock.                                        *)

\* The lock notices nothing but wake-ups of threads it does not queue.
LEMMA HandingKept ==
  ASSUME NEW l, NEW x, NEW s, NEW c, NEW t, NEW d,
         Handing(l, x, s, c), Moves(l, x, {}, s, c, t, d)
  PROVE  Handing(l, x, t, d)
<1>1. x \in RwlockRecords
  BY DEF Handing
<1>2. /\ \A h \in Handles : Held(x, h) => t.state[h] # "exited"
      /\ \A h \in Handles : h \in QueuedThreads(x) <=> t.wait_key[h] = RwlockWaitKey(l, h)
  BY DEF Handing, Moves
<1>3. ASSUME NEW i \in DOMAIN x.waiters
      PROVE  d[x.waiters[i].thread] = LockCall(l, x.waiters[i].write)
  <2>1. x.waiters[i].thread \in Handles /\ x.waiters[i].thread \in QueuedThreads(x)
    BY <1>1, WaiterTypes
  <2> QED BY <2>1 DEF Handing, Moves
<1>4. x.granted_writer # NoThread =>
       d[x.writer] = LockCall(l, TRUE) /\ Awake(t, x.writer)
  BY <1>1 DEF Handing, Moves, RwlockRecords
<1>5. \A h \in x.granted_readers : d[h] = LockCall(l, FALSE) /\ Awake(t, h)
  BY <1>1 DEF Handing, Moves, RwlockRecords
<1> QED BY <1>1, <1>2, <1>3, <1>4, <1>5 DEF Handing

\* So a lock that no step touches stays correct.
LEMMA LockKept ==
  ASSUME NEW l, NEW x, NEW s, NEW c, NEW t, NEW d,
         LockOK(l, x, s, c), Moves(l, x, {}, s, c, t, d)
  PROVE  LockOK(l, x, t, d)
BY HandingKept DEF LockOK

-----------------------------------------------------------------------------
(* The hand-over.                                                           *)

\* GrantRwlockWaitersLocked hands an empty lock to its first writer, or to the
\* readers in front of the next writer; it hands nothing on otherwise.
LEMMA GrantCountFacts ==
  ASSUME NEW x \in RwlockRecords
  PROVE  /\ GrantCount(x) \in 0 .. Len(x.waiters)
         /\ GrantCount(x) = 0 <=> (~Free(x) \/ x.waiters = <<>>)
         /\ GrantCount(x) # 0 /\ x.waiters[1].write => GrantCount(x) = 1
         /\ GrantCount(x) # 0 /\ ~x.waiters[1].write =>
              \A i \in 1 .. GrantCount(x) : ~x.waiters[i].write
<1> DEFINE q == x.waiters
           n == Len(q)
           writers == {i \in DOMAIN q : q[i].write}
<1>1. n \in Nat /\ DOMAIN q = 1 .. n /\ \A i \in 1 .. n : q[i].write \in BOOLEAN
  BY WaiterTypes
<1>2. q = <<>> <=> n = 0
  BY FieldTypes
<1>3. CASE ~Free(x) \/ q = <<>>
  BY <1>1, <1>3 DEF GrantCount
<1>4. CASE Free(x) /\ q # <<>> /\ 1 \in writers
  <2>1. GrantCount(x) = 1
    BY <1>4 DEF GrantCount
  <2> QED BY <1>1, <1>2, <1>4, <2>1
<1>5. CASE Free(x) /\ q # <<>> /\ 1 \notin writers /\ writers = {}
  <2>1. GrantCount(x) = n
    BY <1>5 DEF GrantCount
  <2>2. \A i \in 1 .. n : ~q[i].write
    BY <1>1, <1>5
  <2>3. n # 0 /\ 1 \in 1 .. n
    BY <1>1, <1>2, <1>5
  <2> QED BY <1>1, <1>5, <2>1, <2>2, <2>3
<1>6. CASE Free(x) /\ q # <<>> /\ 1 \notin writers /\ writers # {}
  <2> DEFINE m == CHOOSE i \in writers : \A j \in writers : i <= j
  <2>1. writers \in SUBSET Nat
    BY <1>1
  <2>2. \E i \in writers : \A j \in writers : i <= j
    BY <1>6, <2>1, LeastElement
  <2>3. m \in writers /\ \A j \in writers : m <= j
    BY <2>2
  <2>4. GrantCount(x) = m - 1
    BY <1>6 DEF GrantCount
  <2> HIDE DEF m
  <2>5. m \in 1 .. n /\ m # 1
    BY <1>1, <1>6, <2>3
  <2>6. \A i \in 1 .. (m - 1) : i \in 1 .. n /\ ~(m <= i)
    BY <1>1, <2>5
  <2>7. \A i \in 1 .. (m - 1) : ~q[i].write
    BY <1>1, <2>3, <2>6
  <2>8. m - 1 \in 0 .. n /\ m - 1 # 0 /\ 1 \in 1 .. (m - 1)
    BY <1>1, <2>5
  <2> QED BY <1>6, <2>4, <2>7, <2>8
<1> QED BY <1>3, <1>4, <1>5, <1>6

\* The threads the lock in state x is handed to.
Granted(x) == {x.waiters[i].thread : i \in 1 .. GrantCount(x)}

\* An unfree or unwanted lock is handed to nobody.
LEMMA GrantNobody ==
  ASSUME NEW x \in RwlockRecords, GrantCount(x) = 0
  PROVE  GrantWaiters(x) = x /\ Granted(x) = {}
<1>1. 1 .. GrantCount(x) = {}
  OBVIOUS
<1>2. Granted(x) = {}
  BY <1>1 DEF Granted
<1> QED BY <1>2 DEF GrantWaiters

\* A writer in front takes it alone.
LEMMA GrantWriter ==
  ASSUME NEW x \in RwlockRecords, GrantCount(x) # 0, x.waiters[1].write
  PROVE  /\ GrantCount(x) = 1 /\ Granted(x) = {x.waiters[1].thread}
         /\ GrantWaiters(x) =
              [x EXCEPT !.writer = x.waiters[1].thread,
                        !.granted_writer = x.waiters[1].thread,
                        !.waiters = SubSeq(x.waiters, 2, Len(x.waiters))]
<1>1. GrantCount(x) = 1 /\ x.waiters \in Seq(Waiters) /\ x.waiters # <<>>
  BY GrantCountFacts, FieldTypes
<1>2. Tail(x.waiters) = SubSeq(x.waiters, 2, Len(x.waiters))
  BY <1>1
<1>3. 1 .. GrantCount(x) = {1}
  BY <1>1
<1>4. Granted(x) = {x.waiters[1].thread}
  BY <1>3 DEF Granted
<1>5. GrantCount(x) # 0 /\ GrantCount(x) > 0
  BY <1>1
<1>6. GrantWaiters(x) = [x EXCEPT !.writer = x.waiters[1].thread,
                                  !.granted_writer = x.waiters[1].thread,
                                  !.waiters = Tail(x.waiters)]
  BY <1>5 DEF GrantWaiters
<1> QED BY <1>1, <1>2, <1>4, <1>6

\* Otherwise the readers in front share it.
LEMMA GrantReaders ==
  ASSUME NEW x \in RwlockRecords, GrantCount(x) # 0, ~x.waiters[1].write
  PROVE  GrantWaiters(x) =
           [x EXCEPT !.readers = [h \in Handles |-> IF h \in Granted(x) THEN 1
                                                    ELSE x.readers[h]],
                     !.granted_readers = x.granted_readers \cup Granted(x),
                     !.waiters = SubSeq(x.waiters, GrantCount(x) + 1,
                                        Len(x.waiters))]
<1>1. GrantCount(x) \in Nat
  BY GrantCountFacts, WaiterTypes
<1> QED BY <1>1 DEF GrantWaiters, Granted

\* r is the queue of x without its first n entries.
Rest(x, n, r) ==
  /\ r \in Seq(Waiters)
  /\ \A i \in DOMAIN r : /\ \E j \in DOMAIN x.waiters : r[i] = x.waiters[j]
                        /\ \A j \in 1 .. n : r[i].thread # x.waiters[j].thread
  /\ \A i, j \in DOMAIN r : r[i].thread = r[j].thread => i = j
  /\ \A h : (\E i \in DOMAIN r : r[i].thread = h) <=>
              h \in QueuedThreads(x) /\ \A j \in 1 .. n : x.waiters[j].thread # h

\* SubSeq leaves the rest of a queue of different threads.
LEMMA QueueRest ==
  ASSUME NEW x \in RwlockRecords, NEW n \in 0 .. Len(x.waiters),
         \A i, j \in DOMAIN x.waiters :
           x.waiters[i].thread = x.waiters[j].thread => i = j,
         NEW r, r = SubSeq(x.waiters, n + 1, Len(x.waiters))
  PROVE  Rest(x, n, r)
<1> DEFINE q == x.waiters
<1>1. q \in Seq(Waiters) /\ Len(q) \in Nat /\ DOMAIN q = 1 .. Len(q)
  BY FieldTypes, WaiterTypes
<1>2. n \in Nat /\ n <= Len(q)
  BY <1>1
<1>3. r \in Seq(Waiters)
  BY <1>1, <1>2
<1>4. DOMAIN r = 1 .. (Len(q) - n) /\ \A i \in 1 .. (Len(q) - n) : r[i] = q[i + n]
  BY <1>1, <1>2
<1> HIDE DEF q
<1>5. /\ \A i \in DOMAIN r : i + n \in DOMAIN q /\ r[i] = q[i + n]
      /\ \A i \in DOMAIN r : \A j \in 1 .. n : i + n # j /\ j \in DOMAIN q
      /\ \A j \in DOMAIN q : j \in 1 .. n \/ (j - n \in DOMAIN r /\ r[j - n] = q[j])
      /\ \A i, j \in DOMAIN r : i + n = j + n => i = j
  <2>1. \A i \in 1 .. (Len(q) - n) : i + n \in 1 .. Len(q) /\ i \in Int
    BY <1>1, <1>2
  <2>2. \A j \in 1 .. n : j \in 1 .. Len(q)
    BY <1>1, <1>2
  <2>3. \A i \in 1 .. (Len(q) - n) : \A j \in 1 .. n : i + n # j
    BY <1>1, <1>2
  <2>4. \A j \in 1 .. Len(q) : j \in 1 .. n \/ (j - n \in 1 .. (Len(q) - n) /\ (j - n) + n = j)
    BY <1>1, <1>2
  <2>5. \A i, j \in 1 .. (Len(q) - n) : i + n = j + n => i = j
    BY <1>1, <1>2
  <2>6. ASSUME NEW j \in DOMAIN q, j \notin 1 .. n
        PROVE  j - n \in DOMAIN r /\ r[j - n] = q[j]
    <3>1. j - n \in 1 .. (Len(q) - n) /\ (j - n) + n = j
      BY <1>1, <2>4, <2>6
    <3> QED BY <1>4, <3>1
  <2>7. \A i \in DOMAIN r : i + n \in DOMAIN q /\ r[i] = q[i + n]
    BY <1>1, <1>4, <2>1
  <2>8. \A i \in DOMAIN r : \A j \in 1 .. n : i + n # j /\ j \in DOMAIN q
    BY <1>1, <1>4, <2>2, <2>3
  <2>9. \A i, j \in DOMAIN r : i + n = j + n => i = j
    BY <1>4, <2>5
  <2> QED BY <2>6, <2>7, <2>8, <2>9
<1>6. \A i, j \in DOMAIN q : q[i].thread = q[j].thread => i = j
  BY DEF q
<1>7. \A h : h \in QueuedThreads(x) <=> \E j \in DOMAIN q : q[j].thread = h
  BY DEF QueuedThreads, q
<1>8. \A i \in DOMAIN r : /\ \E j \in DOMAIN q : r[i] = q[j]
                         /\ \A j \in 1 .. n : r[i].thread # q[j].thread
  BY <1>5, <1>6
<1>9. \A i, j \in DOMAIN r : r[i].thread = r[j].thread => i = j
  BY <1>5, <1>6
<1>10. \A h : (\E i \in DOMAIN r : r[i].thread = h) <=>
                h \in QueuedThreads(x) /\ \A j \in 1 .. n : q[j].thread # h
  <2> SUFFICES ASSUME NEW h
               PROVE  (\E i \in DOMAIN r : r[i].thread = h) <=>
                        h \in QueuedThreads(x) /\ \A j \in 1 .. n : q[j].thread # h
    OBVIOUS
  <2>1. ASSUME NEW i \in DOMAIN r, r[i].thread = h
        PROVE  h \in QueuedThreads(x) /\ \A j \in 1 .. n : q[j].thread # h
    BY <1>7, <1>8, <2>1
  <2>2. ASSUME h \in QueuedThreads(x), \A j \in 1 .. n : q[j].thread # h
        PROVE  \E i \in DOMAIN r : r[i].thread = h
    <3>1. PICK j \in DOMAIN q : q[j].thread = h
      BY <1>7, <2>2
    <3>2. j - n \in DOMAIN r /\ r[j - n] = q[j]
      BY <1>5, <2>2, <3>1
    <3> QED BY <3>1, <3>2
  <2> QED BY <2>1, <2>2
<1> QED BY <1>3, <1>8, <1>9, <1>10 DEF q, Rest

\* A free lock has no grant.
LEMMA FreeHasNoGrant ==
  ASSUME NEW l, NEW x, NEW s, NEW c, Handing(l, x, s, c), Free(x)
  PROVE  /\ x.writer = NoThread /\ x.granted_writer = NoThread
         /\ x.granted_readers = {} /\ \A h \in Handles : x.readers[h] = 0
<1>1. x \in RwlockRecords
  BY DEF Handing
<1>2. x.writer = NoThread /\ \A h \in Handles : ~(x.readers[h] > 0)
  BY DEF Free, Reading
<1>3. \A h \in Handles : x.readers[h] \in 0 .. MaxReadCount
  BY <1>1, FieldTypes
<1>4. \A h \in Handles : x.readers[h] = 0
  BY <1>2, <1>3, RwlockAssumption
<1>5. x.granted_readers = {}
  BY <1>1, <1>2, FieldTypes DEF Handing
<1> QED BY <1>2, <1>4, <1>5 DEF Handing

\* Whoever empties the lock hands it on: afterwards it is in order again.
LEMMA GrantOK ==
  ASSUME NEW l, NEW x, NEW s, NEW c, NEW t, NEW d, x.live,
         Handing(l, x, s, c), Moves(l, x, Granted(x), s, c, t, d)
  PROVE  LockOK(l, GrantWaiters(x), t, d)
<1> DEFINE n == GrantCount(x)
           y == GrantWaiters(x)
           q == x.waiters
           G == Granted(x)
<1>1. /\ x \in RwlockRecords /\ n \in 0 .. Len(q)
      /\ Len(q) \in Nat /\ DOMAIN q = 1 .. Len(q) /\ q \in Seq(Waiters)
      /\ \A i, j \in DOMAIN q : q[i].thread = q[j].thread => i = j
  BY GrantCountFacts, WaiterTypes, FieldTypes DEF Handing
<1>2. CASE n = 0
  <2>1. y = x /\ G = {}
    BY <1>2, <1>1, GrantNobody
  <2>2. x.waiters # <<>> => ~Free(x)
    BY <1>1, <1>2, GrantCountFacts
  <2> QED BY <2>1, <2>2, HandingKept DEF LockOK
<1> DEFINE r == SubSeq(q, n + 1, Len(q))
<1>3. /\ r \in Seq(Waiters)
      /\ \A i \in DOMAIN r : \E j \in DOMAIN q : r[i] = q[j]
      /\ \A i, j \in DOMAIN r : r[i].thread = r[j].thread => i = j
      /\ \A h : (\E i \in DOMAIN r : r[i].thread = h) <=>
                  h \in QueuedThreads(x) /\ \A j \in 1 .. n : q[j].thread # h
  <2>1. Rest(x, n, r)
    BY <1>1, QueueRest
  <2> HIDE DEF r, n
  <2> QED BY <2>1 DEF Rest
<1> HIDE DEF r
<1>4. \A h : (\E i \in DOMAIN r : r[i].thread = h) <=> h \in QueuedThreads(x) \ G
  BY <1>3 DEF Granted
<1>5. \A i \in DOMAIN r :
        /\ r[i].thread \in Handles /\ r[i].thread \in QueuedThreads(x) \ G
        /\ c[r[i].thread] = LockCall(l, r[i].write)
        /\ d[r[i].thread] = LockCall(l, r[i].write)
        /\ ~Held(x, r[i].thread)
  <2> SUFFICES ASSUME NEW i \in DOMAIN r
               PROVE  /\ r[i].thread \in Handles /\ r[i].thread \in QueuedThreads(x) \ G
                      /\ c[r[i].thread] = LockCall(l, r[i].write)
                      /\ d[r[i].thread] = LockCall(l, r[i].write)
                      /\ ~Held(x, r[i].thread)
    OBVIOUS
  <2>1. PICK j \in DOMAIN q : r[i] = q[j]
    BY <1>3
  <2>2. r[i].thread \in Handles /\ r[i].thread \in QueuedThreads(x) \ G
    BY <1>1, <1>4, <2>1, WaiterTypes
  <2>3. c[r[i].thread] = LockCall(l, r[i].write) /\ ~Held(x, r[i].thread)
    BY <2>1 DEF Handing
  <2> QED BY <2>2, <2>3 DEF Moves
<1>6. \A h \in G : /\ h \in Handles /\ h \in QueuedThreads(x) /\ Awake(t, h)
                  /\ d[h] = c[h]
  <2>1. \A h \in G : h \in Handles /\ h \in QueuedThreads(x)
    BY <1>1, WaiterTypes DEF Granted
  <2> QED BY <2>1 DEF Moves
<1>7. \A h \in Handles : h \in QueuedThreads(x) \ G <=> t.wait_key[h] = RwlockWaitKey(l, h)
  BY DEF Handing, Moves
<1>8. CASE n # 0 /\ q[1].write
  <2>1. /\ Free(x) /\ x.writer = NoThread /\ x.granted_writer = NoThread
        /\ x.granted_readers = {} /\ \A h \in Handles : x.readers[h] = 0
    BY <1>1, <1>8, GrantCountFacts, FreeHasNoGrant
  <2> DEFINE h1 == q[1].thread
  <2>2. n = 1 /\ G = {h1} /\ h1 \in Handles /\ 1 \in DOMAIN q
    <3>1. n = 1 /\ G = {h1}
      BY <1>1, <1>8, GrantWriter
    <3> QED BY <1>1, <1>6, <3>1
  <2>3. y = [x EXCEPT !.writer = h1, !.granted_writer = h1, !.waiters = r]
    <3>1. n + 1 = 2
      BY <2>2
    <3>2. r = SubSeq(q, 2, Len(q))
      BY <3>1 DEF r
    <3> QED BY <1>1, <1>8, <3>2, GrantWriter
  <2> HIDE DEF y, G, h1, n
  <2>4. /\ y \in RwlockRecords /\ y.writer = h1 /\ y.granted_writer = h1
        /\ y.waiters = r /\ y.readers = x.readers
        /\ y.granted_readers = {} /\ y.live = x.live
    BY <1>1, <1>3, <2>1, <2>2, <2>3 DEF RwlockRecords
  <2>5. Reading(y) = {} /\ h1 # NoThread /\ \A h \in Handles : Held(y, h) <=> h = h1
    BY <2>1, <2>2, <2>4, HandleFacts DEF Reading, Held
  <2>6. c[h1] = LockCall(l, TRUE)
    <3>1. q[1].write = TRUE
      BY <1>8, <1>1, <2>2, WaiterTypes
    <3> QED BY <3>1, <2>2 DEF Handing, h1
  <2>7. Awake(t, h1) /\ d[h1] = LockCall(l, TRUE) /\ t.state[h1] # "exited"
    BY <1>6, <2>2, <2>6 DEF Awake
  <2>8. \A h \in Handles : h \in QueuedThreads(y) <=> t.wait_key[h] = RwlockWaitKey(l, h)
    BY <1>4, <1>7, <2>4 DEF QueuedThreads
  <2>9. \A i \in DOMAIN y.waiters :
           /\ d[y.waiters[i].thread] = LockCall(l, y.waiters[i].write)
           /\ ~Held(y, y.waiters[i].thread)
    BY <1>5, <2>2, <2>4, <2>5
  <2>10. Handing(l, y, t, d)
    BY <1>3, <2>4, <2>5, <2>7, <2>8, <2>9 DEF Handing
  <2> QED BY <2>4, <2>5, <2>10 DEF LockOK, Free, y
<1>9. CASE n # 0 /\ ~q[1].write
  <2>1. /\ Free(x) /\ x.writer = NoThread /\ x.granted_writer = NoThread
        /\ x.granted_readers = {} /\ \A h \in Handles : x.readers[h] = 0
    BY <1>1, <1>9, GrantCountFacts, FreeHasNoGrant
  <2> DEFINE R == [h \in Handles |-> IF h \in G THEN 1 ELSE x.readers[h]]
  <2>2. y = [x EXCEPT !.readers = R, !.granted_readers = x.granted_readers \cup G,
                      !.waiters = r]
    BY <1>1, <1>9, GrantReaders DEF r
  <2>3. G \in SUBSET Handles
    BY <1>6
  <2>4. R \in [Handles -> 0 .. MaxReadCount]
        /\ \A h \in Handles : R[h] = IF h \in G THEN 1 ELSE 0
    <3>1. 0 \in 0 .. MaxReadCount /\ 1 \in 0 .. MaxReadCount
      BY RwlockAssumption
    <3> QED BY <2>1, <3>1
  <2>5. \A i \in 1 .. n : q[i].write = FALSE /\ i \in DOMAIN q
    BY <1>1, <1>9, GrantCountFacts, WaiterTypes
  <2>6. \A h \in G : c[h] = LockCall(l, FALSE)
    BY <2>5 DEF Handing, Granted
  <2>7. q[1].thread \in G
    BY <1>1, <1>9 DEF Granted
  <2> HIDE DEF y, G, R, n
  <2>8. /\ y \in RwlockRecords /\ y.writer = NoThread /\ y.granted_writer = NoThread
        /\ y.waiters = r /\ y.readers = R
        /\ y.granted_readers = G /\ y.live = x.live
    BY <1>1, <1>3, <2>1, <2>2, <2>3, <2>4 DEF RwlockRecords
  <2>9. \A h \in Handles : (Held(y, h) <=> h \in G) /\ (h \in G => R[h] > 0)
    BY <2>4, <2>8, HandleFacts DEF Held
  <2>10. ~Free(y)
    BY <2>3, <2>4, <2>7, <2>8 DEF Free, Reading
  <2>11. \A h \in G : t.state[h] # "exited" /\ d[h] = LockCall(l, FALSE) /\ Awake(t, h)
    BY <1>6, <2>6 DEF Awake
  <2>12. \A h \in Handles : h \in QueuedThreads(y) <=> t.wait_key[h] = RwlockWaitKey(l, h)
    BY <1>4, <1>7, <2>8 DEF QueuedThreads
  <2>13. \A i \in DOMAIN y.waiters :
           /\ d[y.waiters[i].thread] = LockCall(l, y.waiters[i].write)
           /\ ~Held(y, y.waiters[i].thread)
    BY <1>5, <2>8, <2>9
  <2>14. Handing(l, y, t, d)
    BY <1>3, <2>3, <2>8, <2>9, <2>11, <2>12, <2>13 DEF Handing
  <2> QED BY <2>8, <2>10, <2>14 DEF LockOK, y
<1> QED BY <1>2, <1>8, <1>9

-----------------------------------------------------------------------------
(* Giving a lock up.                                                        *)

\* A lock with fewer holders and no writer.
LEMMA HoldersLeave ==
  ASSUME NEW l, NEW x, NEW s, NEW c, Handing(l, x, s, c), NEW y \in RwlockRecords,
         y.writer = NoThread, y.granted_writer = NoThread,
         y.waiters = x.waiters, y.granted_readers = x.granted_readers,
         \A g \in Handles : Held(y, g) => Held(x, g),
         \A g \in x.granted_readers : y.readers[g] = x.readers[g]
  PROVE  Handing(l, y, s, c)
<1>1. \A i \in DOMAIN x.waiters : x.waiters[i].thread \in Handles
  BY WaiterTypes DEF Handing
<1>2. QueuedThreads(y) = QueuedThreads(x)
  BY DEF QueuedThreads
<1>3. \A g \in Handles : Held(y, g) => s.state[g] # "exited"
  BY DEF Handing
<1>4. \A g \in Handles : g \in QueuedThreads(y) <=> s.wait_key[g] = RwlockWaitKey(l, g)
  BY <1>2 DEF Handing
<1>5. \A i \in DOMAIN y.waiters :
        /\ c[y.waiters[i].thread] = LockCall(l, y.waiters[i].write)
        /\ ~Held(y, y.waiters[i].thread)
  BY <1>1 DEF Handing
<1>6. \A g \in y.granted_readers :
        y.readers[g] > 0 /\ c[g] = LockCall(l, FALSE) /\ Awake(s, g)
  BY DEF Handing
<1>7. \A i, j \in DOMAIN y.waiters :
        y.waiters[i].thread = y.waiters[j].thread => i = j
  BY DEF Handing
<1> QED BY <1>3, <1>4, <1>5, <1>6, <1>7 DEF Handing

\* Unlock: a thread in no call has no grant, so it takes nobody's grant away.
LEMMA UnlockedOK ==
  ASSUME NEW l, NEW x, NEW s, NEW c, LockOK(l, x, s, c),
         NEW h \in Handles, Held(x, h), c[h] = NoCall
  PROVE  /\ Handing(l, Unlocked(x, h), s, c)
         /\ Unlocked(x, h).live = x.live
<1> DEFINE y == Unlocked(x, h)
<1>1. Handing(l, x, s, c) /\ x \in RwlockRecords
  BY DEF LockOK, Handing
<1>2. x.granted_writer # h /\ h \notin x.granted_readers
  BY <1>1, CallFacts, HandleFacts DEF Handing
<1>3. CASE x.writer = h
  <2>1. y = [x EXCEPT !.writer = NoThread]
    BY <1>3 DEF Unlocked
  <2>2. x.granted_writer = NoThread
    BY <1>1, <1>2, <1>3 DEF Handing
  <2> HIDE DEF y
  <2>3. /\ y \in RwlockRecords /\ y.writer = NoThread /\ y.readers = x.readers
        /\ y.waiters = x.waiters /\ y.granted_readers = x.granted_readers
        /\ y.granted_writer = NoThread /\ y.live = x.live
    BY <1>1, <2>1, <2>2 DEF RwlockRecords
  <2>4. \A g \in Handles : Held(y, g) => Held(x, g)
    BY <2>3, HandleFacts DEF Held
  <2>5. Handing(l, y, s, c)
    BY <1>1, <2>3, <2>4, HoldersLeave
  <2> QED BY <2>3, <2>5 DEF y
<1>4. CASE x.writer # h
  <2> DEFINE R == [x.readers EXCEPT ![h] = x.readers[h] - 1]
  <2>1. y = [x EXCEPT !.readers = R]
    BY <1>4 DEF Unlocked
  <2>2. x.readers[h] > 0 /\ x.readers \in [Handles -> 0 .. MaxReadCount]
    BY <1>1, <1>4, FieldTypes DEF Held
  <2>3. x.readers[h] - 1 \in 0 .. MaxReadCount
    BY <2>2, RwlockAssumption
  <2>4. /\ R \in [Handles -> 0 .. MaxReadCount]
        /\ \A g \in Handles : g # h => R[g] = x.readers[g]
    BY <2>2, <2>3
  <2>5. x.writer = NoThread /\ x.granted_writer = NoThread
    BY <1>1, <2>2 DEF Handing, Reading
  <2> HIDE DEF y, R
  <2>6. /\ y \in RwlockRecords /\ y.writer = NoThread /\ y.readers = R
        /\ y.waiters = x.waiters /\ y.granted_readers = x.granted_readers
        /\ y.granted_writer = NoThread /\ y.live = x.live
    BY <1>1, <2>1, <2>4, <2>5 DEF RwlockRecords
  <2>7. \A g \in Handles : Held(y, g) => Held(x, g)
    BY <2>2, <2>4, <2>6, HandleFacts DEF Held
  <2>8. \A g \in x.granted_readers : g \in Handles /\ R[g] = x.readers[g]
    BY <1>1, <1>2, <2>4, FieldTypes
  <2>9. Handing(l, y, s, c)
    BY <1>1, <2>6, <2>7, <2>8, HoldersLeave
  <2> QED BY <2>6, <2>9 DEF y
<1> QED BY <1>3, <1>4

\* y is lock l in state x after h, which runs, left it.
Left(l, x, y, h, s, c) ==
  /\ Handing(l, y, s, c)
  /\ y.live = x.live
  /\ ~Held(y, h) /\ h \notin y.granted_readers /\ y.granted_writer # h
  /\ QueuedThreads(y) = QueuedThreads(x) /\ h \notin QueuedThreads(y)
  /\ ~Held(x, h) => LockOK(l, y, s, c)
  /\ \A g \in Handles : Held(y, g) => Held(x, g)
  /\ Picks(x.waiters, DOMAIN x.waiters, y.waiters)

\* Exit: the running thread drops all it had.
LEMMA AbandonedOK ==
  ASSUME NEW l, NEW x, NEW s, NEW c, LockOK(l, x, s, c),
         NEW h \in Handles, s.wait_key[h] = NoKey
  PROVE  Left(l, x, Abandoned(x, h), h, s, c)
<1> DEFINE y == Abandoned(x, h)
           q == EntriesAt(x.waiters, {i \in DOMAIN x.waiters : x.waiters[i].thread # h})
           R == [x.readers EXCEPT ![h] = 0]
<1>1. Handing(l, x, s, c) /\ x \in RwlockRecords
  BY DEF LockOK, Handing
<1>2. h \notin QueuedThreads(x)
  BY <1>1, KeyFacts DEF Handing
<1>3. {i \in DOMAIN x.waiters : x.waiters[i].thread # h} = DOMAIN x.waiters
  BY <1>2 DEF QueuedThreads
<1>4. /\ x.waiters \in Seq(Waiters)
      /\ \A i \in DOMAIN x.waiters : x.waiters[i].thread \in Handles
  BY <1>1, FieldTypes, WaiterTypes
<1>5. q \in Seq(Waiters) /\ Picks(x.waiters, DOMAIN x.waiters, q)
  BY <1>3, <1>4, EntriesAtFacts
<1>6. y = [x EXCEPT !.writer = IF x.writer = h THEN NoThread ELSE x.writer,
                    !.granted_writer = IF x.writer = h THEN NoThread
                                       ELSE x.granted_writer,
                    !.readers = R,
                    !.granted_readers = IF x.readers[h] > 0 THEN x.granted_readers \ {h}
                                        ELSE x.granted_readers,
                    !.waiters = q]
  BY DEF Abandoned
<1> HIDE DEF q, y, R
<1>7. PICK idx \in [DOMAIN q -> DOMAIN x.waiters] :
         /\ \A k \in DOMAIN q : q[k] = x.waiters[idx[k]]
         /\ \A k, j \in DOMAIN q : idx[k] = idx[j] => k = j
         /\ \A i \in DOMAIN x.waiters : \E k \in DOMAIN q : idx[k] = i
  BY <1>5 DEF Picks
<1>8. \A k \in DOMAIN q : idx[k] \in DOMAIN x.waiters
  BY <1>7
<1>9. /\ R \in [Handles -> 0 .. MaxReadCount] /\ R[h] = 0
      /\ \A g \in Handles : g # h => R[g] = x.readers[g]
  <2>1. 0 \in 0 .. MaxReadCount /\ x.readers \in [Handles -> 0 .. MaxReadCount]
    BY <1>1, FieldTypes, RwlockAssumption
  <2> QED BY <2>1 DEF R
<1>10. /\ y \in RwlockRecords /\ y.live = x.live
       /\ y.writer = IF x.writer = h THEN NoThread ELSE x.writer
       /\ y.granted_writer = IF x.writer = h THEN NoThread ELSE x.granted_writer
       /\ y.readers = R /\ y.waiters = q
       /\ y.granted_readers = IF x.readers[h] > 0 THEN x.granted_readers \ {h}
                              ELSE x.granted_readers
  BY <1>1, <1>5, <1>6, <1>9 DEF RwlockRecords
<1>11. \A g \in Handles : (Held(y, g) => Held(x, g)) /\ (g # h => (Held(y, g) <=> Held(x, g)))
  BY <1>9, <1>10, HandleFacts DEF Held
<1>12. ~Held(y, h)
  BY <1>9, <1>10, HandleFacts DEF Held
<1>13. h \notin y.granted_readers /\ y.granted_writer # h
  <2>1. h \in x.granted_readers => x.readers[h] > 0
    BY <1>1 DEF Handing
  <2>2. x.granted_writer = h => x.writer = h
    BY <1>1, HandleFacts DEF Handing
  <2>3. h \notin y.granted_readers
    BY <2>1, <1>10
  <2>4. y.granted_writer # h
    BY <2>2, <1>10, HandleFacts
  <2> QED BY <2>3, <2>4
<1>14. QueuedThreads(y) = QueuedThreads(x)
  BY <1>7, <1>8, <1>10 DEF QueuedThreads
<1>15. \A i, j \in DOMAIN y.waiters : y.waiters[i].thread = y.waiters[j].thread => i = j
  BY <1>1, <1>7, <1>8, <1>10 DEF Handing
<1>16. y.writer # NoThread => Reading(y) = {}
  <2>1. \A g \in Handles : R[g] > 0 => x.readers[g] > 0
    BY <1>9
  <2> QED BY <2>1, <1>1, <1>10 DEF Handing, Reading
<1>17. \A i \in DOMAIN y.waiters :
         /\ c[y.waiters[i].thread] = LockCall(l, y.waiters[i].write)
         /\ ~Held(y, y.waiters[i].thread)
  BY <1>1, <1>4, <1>7, <1>8, <1>10, <1>11 DEF Handing
<1>18. y.granted_writer # NoThread =>
         /\ y.writer = y.granted_writer
         /\ c[y.writer] = LockCall(l, TRUE) /\ Awake(s, y.writer)
  BY <1>1, <1>10 DEF Handing
<1>19. \A g \in y.granted_readers :
         y.readers[g] > 0 /\ c[g] = LockCall(l, FALSE) /\ Awake(s, g)
  BY <1>1, <1>9, <1>10, <1>13, FieldTypes DEF Handing
<1>20. Handing(l, y, s, c)
  <2>1. \A g \in Handles : Held(y, g) => s.state[g] # "exited"
    BY <1>1, <1>11 DEF Handing
  <2>2. \A g \in Handles : g \in QueuedThreads(y) <=> s.wait_key[g] = RwlockWaitKey(l, g)
    BY <1>1, <1>14 DEF Handing
  <2> QED BY <1>10, <1>15, <1>16, <1>17, <1>18, <1>19, <2>1, <2>2 DEF Handing
<1>21. ASSUME ~Held(x, h) PROVE LockOK(l, y, s, c)
  <2>1. x.writer # h /\ ~(x.readers[h] > 0)
    BY <1>21 DEF Held
  <2>2. R = x.readers
    <3>1. x.readers[h] = 0 /\ x.readers \in [Handles -> 0 .. MaxReadCount]
      BY <1>1, <2>1, FieldTypes, RwlockAssumption
    <3> QED BY <3>1 DEF R
  <2>3. Free(y) <=> Free(x)
    BY <2>1, <2>2, <1>10 DEF Free, Reading
  <2>4. y.waiters # <<>> => x.waiters # <<>>
    BY <1>4, <1>5, <1>7, <1>8, <1>10
  <2>5. ~y.live => y = NoRwlock
    <3> SUFFICES ASSUME ~x.live PROVE y = NoRwlock
      BY <1>10
    <3>1. x = NoRwlock
      BY DEF LockOK
    <3>2. x.waiters = <<>> /\ x.writer = NoThread /\ x.granted_readers = {}
          /\ x.granted_writer = NoThread
      BY <3>1 DEF NoRwlock
    <3>3. DOMAIN q = {}
      BY <1>7, <1>8, <3>2
    <3>4. q = <<>>
      BY <1>5, <3>3
    <3>5. y = [x EXCEPT !.writer = x.writer, !.granted_writer = x.granted_writer,
                        !.readers = x.readers, !.granted_readers = x.granted_readers,
                        !.waiters = x.waiters]
      BY <1>6, <2>1, <2>2, <3>2, <3>4
    <3> QED BY <1>1, <3>1, <3>5 DEF RwlockRecords
  <2> QED BY <1>20, <2>3, <2>4, <2>5 DEF LockOK
<1> QED BY <1>2, <1>5, <1>10, <1>11, <1>12, <1>13, <1>14, <1>20, <1>21 DEF y, Left

-----------------------------------------------------------------------------
(* Taking a lock.                                                           *)

\* What the answer st of LockRwlock says of the lock.
StatusMeans(x, h, write, try_only, st) ==
  /\ st = "kWouldBlock" =>
       ~try_only /\ ~Held(x, h) /\ ~(Free(x) /\ x.waiters = <<>>)
  /\ st = "kOk" /\ write /\ x.writer = h => x.granted_writer = h
  /\ st = "kOk" /\ write /\ x.writer # h => Free(x) /\ x.waiters = <<>>
  /\ st = "kOk" /\ ~write /\ h \notin x.granted_readers =>
       \/ x.readers[h] > 0 /\ x.readers[h] # MaxReadCount
       \/ Free(x) /\ x.waiters = <<>>
  /\ write /\ x.writer = h /\ x.granted_writer = h => st = "kOk"
  /\ ~write /\ h \in x.granted_readers => st = "kOk"

\* Only who holds nothing is queued, and a lock is given only when it is free and
\* wanted by nobody else, to a reader among readers, or to whom it was granted.
LEMMA StatusFacts ==
  ASSUME NEW x \in RwlockRecords, NEW h \in Handles,
         NEW write \in BOOLEAN, NEW try_only \in BOOLEAN,
         NEW st, st = RwlockStatus(x, h, write, try_only)
  PROVE  StatusMeans(x, h, write, try_only, st)
<1> USE DEF StatusMeans
<1>1. CASE write
  <2>1. CASE x.writer = h /\ x.granted_writer = h
    BY <1>1, <2>1 DEF RwlockStatus
  <2>2. CASE ~(x.writer = h /\ x.granted_writer = h) /\ (x.writer = h \/ x.readers[h] > 0)
    <3>1. st = "kInvalidArgument"
      BY <1>1, <2>2 DEF RwlockStatus
    <3> QED BY <1>1, <2>2, <3>1
  <2>3. CASE x.writer # h /\ ~(x.readers[h] > 0)
    <3>1. st = IF Free(x) /\ x.waiters = <<>> THEN "kOk"
               ELSE IF try_only THEN "kBusy" ELSE "kWouldBlock"
      BY <1>1, <2>3 DEF RwlockStatus
    <3> QED BY <1>1, <2>3, <3>1 DEF Held
  <2> QED BY <2>1, <2>2, <2>3
<1>2. CASE ~write
  <2>1. CASE h \in x.granted_readers
    BY <1>2, <2>1 DEF RwlockStatus
  <2>2. CASE h \notin x.granted_readers /\ x.readers[h] > 0
    <3>1. st = IF x.readers[h] = MaxReadCount THEN "kNoResources" ELSE "kOk"
      BY <1>2, <2>2 DEF RwlockStatus
    <3> QED BY <1>2, <2>2, <3>1
  <2>3. CASE h \notin x.granted_readers /\ ~(x.readers[h] > 0)
    <3>1. CASE x.readers[h] = 0 /\ x.writer = h
      <4>1. st = "kInvalidArgument"
        BY <1>2, <2>3, <3>1 DEF RwlockStatus
      <4> QED BY <1>2, <2>3, <4>1
    <3>2. CASE ~(x.readers[h] = 0 /\ x.writer = h)
      <4>1. st = IF Free(x) /\ x.waiters = <<>> THEN "kOk"
                 ELSE IF try_only THEN "kBusy" ELSE "kWouldBlock"
        BY <1>2, <2>3, <3>2 DEF RwlockStatus
      <4>2. x.readers[h] = 0
        BY <2>3, FieldTypes, RwlockAssumption
      <4> QED BY <1>2, <2>3, <3>2, <4>1, <4>2 DEF Held
    <3> QED BY <3>1, <3>2
  <2> QED BY <2>1, <2>2, <2>3
<1> QED BY <1>1, <1>2

\* A lock call that must wait: the thread is queued and goes to sleep.
LEMMA QueueOK ==
  ASSUME NEW l, NEW x, NEW s, NEW c, NEW t, NEW d, LockOK(l, x, s, c), x.live,
         NEW h \in Handles, s.wait_key[h] = NoKey,
         NEW write \in BOOLEAN, ~Held(x, h), ~(Free(x) /\ x.waiters = <<>>),
         NEW y, y = [x EXCEPT !.waiters = Append(x.waiters, [thread |-> h, write |-> write])],
         d[h] = LockCall(l, write), \A g \in Handles : g # h => d[g] = c[g],
         \A g \in Handles :
           /\ t.state[g] = IF g = h THEN "blocked" ELSE s.state[g]
           /\ t.wait_key[g] = IF g = h THEN RwlockWaitKey(l, h) ELSE s.wait_key[g]
  PROVE  LockOK(l, y, t, d)
<1> DEFINE q == x.waiters
           e == [thread |-> h, write |-> write]
           r == Append(q, e)
           n == Len(q)
<1>1. Handing(l, x, s, c) /\ x \in RwlockRecords
  BY DEF LockOK, Handing
<1>2. /\ q \in Seq(Waiters) /\ n \in Nat /\ DOMAIN q = 1 .. n
      /\ \A i \in DOMAIN q : q[i].thread \in Handles /\ q[i].thread \in QueuedThreads(x)
  BY <1>1, FieldTypes, WaiterTypes
<1>3. e \in Waiters /\ e.thread = h /\ e.write = write
  BY DEF Waiters
<1> HIDE DEF e
<1>4. /\ r \in Seq(Waiters) /\ DOMAIN r = 1 .. (n + 1)
      /\ \A i \in 1 .. n : r[i] = q[i]
      /\ r[n + 1] = e /\ r # <<>>
  BY <1>2, <1>3
<1>5. y = [x EXCEPT !.waiters = r]
  BY DEF e
<1> HIDE DEF q, r, n
<1>6. /\ DOMAIN r = DOMAIN q \cup {n + 1} /\ n + 1 \notin DOMAIN q
      /\ \A i \in DOMAIN q : r[i] = q[i]
  <2>1. \A i : i \in 1 .. (n + 1) <=> i \in 1 .. n \/ i = n + 1
    BY <1>2
  <2>2. n + 1 \notin 1 .. n
    BY <1>2
  <2> QED BY <1>2, <1>4, <2>1, <2>2
<1>7. /\ y \in RwlockRecords /\ y.live = x.live /\ y.writer = x.writer
      /\ y.readers = x.readers /\ y.granted_readers = x.granted_readers
      /\ y.granted_writer = x.granted_writer /\ y.waiters = r
  BY <1>1, <1>4, <1>5 DEF RwlockRecords
<1>8. h \notin QueuedThreads(x)
  BY <1>1, KeyFacts DEF Handing
<1>9. \A i \in DOMAIN q : q[i].thread # h
  BY <1>2, <1>8
<1>10. \A g \in Handles : Held(y, g) <=> Held(x, g)
  BY <1>7 DEF Held
<1>11. \A g \in Handles : Held(y, g) => t.state[g] # "exited"
  BY <1>1, <1>10 DEF Handing
<1>12. \A i, j \in DOMAIN r : r[i].thread = r[j].thread => i = j
  <2>1. \A i, j \in DOMAIN q : q[i].thread = q[j].thread => i = j
    BY <1>1 DEF Handing, q
  <2> QED BY <1>3, <1>4, <1>6, <1>9, <2>1
<1>13. ASSUME NEW g \in Handles
       PROVE  g \in QueuedThreads(y) <=> t.wait_key[g] = RwlockWaitKey(l, g)
  <2>1. g \in QueuedThreads(y) <=> g \in QueuedThreads(x) \/ g = h
    BY <1>3, <1>4, <1>6, <1>7 DEF QueuedThreads, q
  <2> QED BY <1>1, <2>1 DEF Handing
<1>14. \A i \in DOMAIN r : /\ d[r[i].thread] = LockCall(l, r[i].write)
                          /\ ~Held(y, r[i].thread)
  <2>1. \A i \in DOMAIN q : c[q[i].thread] = LockCall(l, q[i].write) /\ ~Held(x, q[i].thread)
    BY <1>1 DEF Handing, q
  <2> SUFFICES ASSUME NEW i \in DOMAIN r
               PROVE  d[r[i].thread] = LockCall(l, r[i].write) /\ ~Held(y, r[i].thread)
    OBVIOUS
  <2>2. CASE i \in DOMAIN q
    BY <1>2, <1>6, <1>9, <1>10, <2>1, <2>2
  <2>3. CASE i = n + 1
    BY <1>3, <1>4, <1>10, <2>3
  <2> QED BY <1>6, <2>2, <2>3
<1>15. x.granted_writer # NoThread =>
         x.writer = x.granted_writer /\ d[x.writer] = LockCall(l, TRUE) /\ Awake(t, x.writer)
  BY <1>1, FieldTypes DEF Handing, Held, Awake
<1>16. \A g \in x.granted_readers :
         x.readers[g] > 0 /\ d[g] = LockCall(l, FALSE) /\ Awake(t, g)
  BY <1>1, FieldTypes DEF Handing, Held, Awake
<1>17. Handing(l, y, t, d)
  <2>1. y.writer # NoThread => Reading(y) = {}
    BY <1>1, <1>7 DEF Handing, Reading
  <2>2. y.granted_writer # NoThread =>
          /\ y.writer = y.granted_writer
          /\ d[y.writer] = LockCall(l, TRUE) /\ Awake(t, y.writer)
    BY <1>7, <1>15
  <2>3. \A g \in y.granted_readers :
          y.readers[g] > 0 /\ d[g] = LockCall(l, FALSE) /\ Awake(t, g)
    BY <1>7, <1>16
  <2>4. \A i, j \in DOMAIN y.waiters : y.waiters[i].thread = y.waiters[j].thread => i = j
    BY <1>7, <1>12
  <2>5. \A i \in DOMAIN y.waiters :
          /\ d[y.waiters[i].thread] = LockCall(l, y.waiters[i].write)
          /\ ~Held(y, y.waiters[i].thread)
    BY <1>7, <1>14
  <2> QED BY <1>7, <1>11, <1>13, <2>1, <2>2, <2>3, <2>4, <2>5 DEF Handing
<1>18. ~Free(y)
  <2>1. ~Free(x)
    BY DEF LockOK
  <2> QED BY <2>1, <1>7 DEF Free, Reading
<1> QED BY <1>7, <1>17, <1>18 DEF LockOK

\* A lock call of h that was answered made y of x: h has no grant left, the
\* others keep what they hold and what they were granted, and the queue stays.
Answered(x, y, h) ==
  /\ y \in RwlockRecords /\ y.live /\ y.waiters = x.waiters
  /\ y.writer # NoThread => Reading(y) = {}
  /\ \A g \in Handles : g # h => (Held(y, g) <=> Held(x, g))
  /\ y.waiters # <<>> => ~Free(y)
  /\ y.granted_writer \in {NoThread, x.granted_writer} /\ y.granted_writer # h
  /\ y.granted_writer # NoThread => y.writer = y.granted_writer
  /\ y.granted_readers \subseteq x.granted_readers /\ h \notin y.granted_readers
  /\ \A g \in y.granted_readers : y.readers[g] = x.readers[g]

\* Such a call leaves the lock in order.
LEMMA AnsweredOK ==
  ASSUME NEW l, NEW x, NEW s, NEW c, NEW d, LockOK(l, x, s, c),
         NEW h \in Handles, s.wait_key[h] = NoKey, s.state[h] = "running",
         \A g \in Handles : g # h => d[g] = c[g],
         NEW y, Answered(x, y, h)
  PROVE  LockOK(l, y, s, d)
<1> USE DEF Answered
<1>1. Handing(l, x, s, c) /\ x \in RwlockRecords
  BY DEF LockOK, Handing
<1>2. \A i \in DOMAIN x.waiters : /\ x.waiters[i].thread \in Handles
                                 /\ x.waiters[i].thread # h
  <2>1. h \notin QueuedThreads(x)
    BY <1>1, KeyFacts DEF Handing
  <2> QED BY <1>1, <2>1, WaiterTypes
<1>3. \A g \in Handles : Held(y, g) => s.state[g] # "exited"
  BY <1>1 DEF Handing
<1>4. \A i \in DOMAIN y.waiters :
         /\ d[y.waiters[i].thread] = LockCall(l, y.waiters[i].write)
         /\ ~Held(y, y.waiters[i].thread)
  BY <1>1, <1>2 DEF Handing
<1>5. \A g \in Handles : g \in QueuedThreads(y) <=> s.wait_key[g] = RwlockWaitKey(l, g)
  BY <1>1 DEF Handing, QueuedThreads
<1>6. y.granted_writer # NoThread =>
         d[y.writer] = LockCall(l, TRUE) /\ Awake(s, y.writer)
  <2> SUFFICES ASSUME y.granted_writer # NoThread
               PROVE  d[y.writer] = LockCall(l, TRUE) /\ Awake(s, y.writer)
    OBVIOUS
  <2>1. y.writer = x.granted_writer /\ x.granted_writer # NoThread /\ y.writer # h
    OBVIOUS
  <2>2. x.granted_writer \in Handles
    BY <1>1, <2>1, FieldTypes
  <2>3. c[x.granted_writer] = LockCall(l, TRUE) /\ Awake(s, x.granted_writer)
    BY <1>1, <2>1 DEF Handing
  <2> QED BY <2>1, <2>2, <2>3
<1>7. \A g \in y.granted_readers :
         y.readers[g] > 0 /\ d[g] = LockCall(l, FALSE) /\ Awake(s, g)
  <2> SUFFICES ASSUME NEW g \in y.granted_readers
               PROVE  y.readers[g] > 0 /\ d[g] = LockCall(l, FALSE) /\ Awake(s, g)
    OBVIOUS
  <2>1. g \in x.granted_readers /\ g # h /\ y.readers[g] = x.readers[g]
    OBVIOUS
  <2>2. g \in Handles
    BY <1>1, <2>1, FieldTypes
  <2> QED BY <1>1, <2>1, <2>2 DEF Handing
<1>8. \A i, j \in DOMAIN y.waiters : y.waiters[i].thread = y.waiters[j].thread => i = j
  BY <1>1 DEF Handing
<1>9. Handing(l, y, s, d)
  BY <1>3, <1>4, <1>5, <1>6, <1>7, <1>8 DEF Handing
<1> QED BY <1>9 DEF LockOK

\* A lock call by the running thread h that is answered st, before and after.
LockCalled(l, h, write, try_only, st, s, c, t, d) ==
  /\ s.wait_key[h] = NoKey /\ s.state[h] = "running"
  /\ c[h] \in {NoCall, IF try_only THEN NoCall ELSE LockCall(l, write)}
  /\ d[h] = IF st = "kWouldBlock" THEN LockCall(l, write) ELSE NoCall
  /\ \A g \in Handles : g # h => d[g] = c[g]
  /\ st # "kWouldBlock" => t = s
  /\ st = "kWouldBlock" =>
       \A g \in Handles :
         /\ t.state[g] = IF g = h THEN "blocked" ELSE s.state[g]
         /\ t.wait_key[g] = IF g = h THEN RwlockWaitKey(l, h) ELSE s.wait_key[g]

\* LockRwlock by the running thread h, whatever it is answered.
LEMMA LockOneOK ==
  ASSUME NEW l, NEW x, NEW s, NEW c, NEW t, NEW d, LockOK(l, x, s, c), x.live,
         NEW h \in Handles, NEW write \in BOOLEAN, NEW try_only \in BOOLEAN,
         NEW st, st = RwlockStatus(x, h, write, try_only),
         LockCalled(l, h, write, try_only, st, s, c, t, d)
  PROVE  LockOK(l, AfterLock(x, h, write, try_only), t, d)
<1> USE DEF LockCalled
<1> DEFINE y == AfterLock(x, h, write, try_only)
<1>0. x \in RwlockRecords /\ StatusMeans(x, h, write, try_only, st)
  BY StatusFacts DEF LockOK, Handing
<1>1. Handing(l, x, s, c) /\ x \in RwlockRecords
  BY DEF LockOK, Handing
<1>2. h \notin QueuedThreads(x)
  BY <1>1, KeyFacts DEF Handing
<1>3. /\ x.writer \in Handles \cup {NoThread}
      /\ x.readers \in [Handles -> 0 .. MaxReadCount] /\ h # NoThread
  BY <1>1, FieldTypes, HandleFacts
<1>10. c[h] = NoCall \/ c[h] = LockCall(l, write)
  <2>1. CASE try_only
    BY <2>1, Zenon
  <2>2. CASE ~try_only
    BY <2>2, Zenon
  <2> QED BY <2>1, <2>2
<1>4. CASE st = "kWouldBlock"
  <2>1. y = [x EXCEPT !.waiters = Append(x.waiters, [thread |-> h, write |-> write])]
    BY <1>2, <1>4 DEF AfterLock
  <2>2. ~Held(x, h) /\ ~(Free(x) /\ x.waiters = <<>>)
    BY <1>0, <1>4 DEF StatusMeans
  <2> HIDE DEF y
  <2> QED BY <1>4, <2>1, <2>2, QueueOK DEF y
<1>5. CASE st = "kOk" /\ write /\ x.writer = h
  <2>1. y = [x EXCEPT !.granted_writer = NoThread]
    BY <1>5 DEF AfterLock
  <2>2. Reading(x) = {}
    BY <1>1, <1>3, <1>5 DEF Handing
  <2>3. x.granted_readers = {}
    BY <1>1, <2>2, FieldTypes DEF Handing, Reading
  <2> HIDE DEF y
  <2>4. /\ y \in RwlockRecords /\ y.live = x.live /\ y.writer = x.writer
        /\ y.readers = x.readers /\ y.waiters = x.waiters
        /\ y.granted_readers = {} /\ y.granted_writer = NoThread
    BY <1>1, <2>1, <2>3 DEF RwlockRecords
  <2>5. ~Free(y) /\ Reading(y) = {} /\ \A g \in Handles : Held(y, g) <=> Held(x, g)
    BY <1>3, <1>5, <2>2, <2>4 DEF Free, Reading, Held
  <2>6. LockOK(l, y, s, d)
    <3>1. Answered(x, y, h)
      BY <1>3, <2>4, <2>5 DEF Answered
    <3> QED BY <3>1, AnsweredOK
  <2> QED BY <1>5, <2>6 DEF y
<1>6. CASE st = "kOk" /\ write /\ x.writer # h
  <2>1. y = [x EXCEPT !.writer = h]
    BY <1>6 DEF AfterLock
  <2>2. Free(x) /\ x.waiters = <<>>
    BY <1>0, <1>6 DEF StatusMeans
  <2>3. /\ x.writer = NoThread /\ x.granted_writer = NoThread
        /\ x.granted_readers = {} /\ \A g \in Handles : x.readers[g] = 0
    BY <1>1, <2>2, FreeHasNoGrant
  <2> HIDE DEF y
  <2>4. /\ y \in RwlockRecords /\ y.live = x.live /\ y.writer = h
        /\ y.readers = x.readers /\ y.waiters = x.waiters
        /\ y.granted_readers = {} /\ y.granted_writer = NoThread
    BY <1>1, <2>1, <2>3 DEF RwlockRecords
  <2>5. /\ Reading(y) = {}
        /\ \A g \in Handles : g # h => (Held(y, g) <=> Held(x, g))
    BY <1>3, <2>3, <2>4, HandleFacts DEF Reading, Held
  <2>6. LockOK(l, y, s, d)
    <3>1. Answered(x, y, h)
      BY <1>3, <2>2, <2>4, <2>5 DEF Answered
    <3> QED BY <3>1, AnsweredOK
  <2> QED BY <1>6, <2>6 DEF y
<1>7. CASE st = "kOk" /\ ~write /\ h \in x.granted_readers
  <2>1. y = [x EXCEPT !.granted_readers = x.granted_readers \ {h}]
    BY <1>7 DEF AfterLock
  <2>2. x.readers[h] > 0 /\ h \in Reading(x)
    BY <1>1, <1>7 DEF Handing, Reading
  <2>3. x.writer = NoThread /\ x.granted_writer = NoThread
    BY <1>1, <2>2 DEF Handing
  <2> HIDE DEF y
  <2>4. /\ y \in RwlockRecords /\ y.live = x.live /\ y.writer = NoThread
        /\ y.readers = x.readers /\ y.waiters = x.waiters
        /\ y.granted_readers = x.granted_readers \ {h} /\ y.granted_writer = NoThread
    BY <1>1, <2>1, <2>3 DEF RwlockRecords
  <2>5. ~Free(y) /\ \A g \in Handles : Held(y, g) <=> Held(x, g)
    BY <2>2, <2>3, <2>4 DEF Free, Reading, Held
  <2>6. LockOK(l, y, s, d)
    <3>1. Answered(x, y, h)
      BY <1>3, <2>4, <2>5 DEF Answered
    <3> QED BY <3>1, AnsweredOK
  <2> QED BY <1>7, <2>6 DEF y
<1>8. CASE st = "kOk" /\ ~write /\ h \notin x.granted_readers
  <2> DEFINE R == [x.readers EXCEPT ![h] = x.readers[h] + 1]
  <2>1. y = [x EXCEPT !.readers = R]
    BY <1>8 DEF AfterLock
  <2>2. \/ x.readers[h] > 0 /\ x.readers[h] # MaxReadCount
        \/ Free(x) /\ x.waiters = <<>>
    BY <1>0, <1>8 DEF StatusMeans
  <2>3. x.writer = NoThread
    BY <1>1, <2>2 DEF Handing, Reading, Free
  <2>4. x.readers[h] \in 0 .. MaxReadCount /\ x.readers[h] # MaxReadCount
    <3>1. CASE Free(x)
      <4>1. x.readers[h] = 0
        BY <1>1, <3>1, FreeHasNoGrant
      <4> QED BY <4>1, RwlockAssumption
    <3>2. CASE x.readers[h] # MaxReadCount
      BY <1>3, <3>2
    <3> QED BY <2>2, <3>1, <3>2
  <2>5. x.readers[h] + 1 \in 0 .. MaxReadCount /\ x.readers[h] + 1 > 0
    BY <2>4, RwlockAssumption
  <2>6. /\ R \in [Handles -> 0 .. MaxReadCount] /\ R[h] > 0
        /\ \A g \in Handles : g # h => R[g] = x.readers[g]
    BY <1>3, <2>5
  <2>7. x.granted_writer = NoThread
    BY <1>1, <2>3 DEF Handing
  <2> HIDE DEF y, R
  <2>8. /\ y \in RwlockRecords /\ y.live = x.live /\ y.writer = NoThread
        /\ y.readers = R /\ y.waiters = x.waiters
        /\ y.granted_readers = x.granted_readers /\ y.granted_writer = NoThread
    BY <1>1, <2>1, <2>3, <2>6, <2>7 DEF RwlockRecords
  <2>9. ~Free(y) /\ \A g \in Handles : g # h => (Held(y, g) <=> Held(x, g))
    BY <2>3, <2>6, <2>8 DEF Free, Reading, Held
  <2>10. \A g \in x.granted_readers : R[g] = x.readers[g]
    BY <1>1, <1>8, <2>6, FieldTypes
  <2>11. LockOK(l, y, s, d)
    <3>1. Answered(x, y, h)
      BY <1>3, <1>8, <2>8, <2>9, <2>10 DEF Answered
    <3> QED BY <3>1, AnsweredOK
  <2> QED BY <1>8, <2>11 DEF y
<1>9. CASE st # "kOk" /\ st # "kWouldBlock"
  <2>1. y = x
    BY <1>9 DEF AfterLock
  <2>2. x.granted_writer # h
    <3> SUFFICES ASSUME x.granted_writer = h PROVE FALSE
      OBVIOUS
    <3>1. x.writer = h /\ c[h] = LockCall(l, TRUE)
      BY <1>1, <1>3 DEF Handing
    <3>2. write = TRUE
      BY <1>10, <3>1, CallFacts, Zenon
    <3> QED BY <1>0, <1>9, <3>1, <3>2 DEF StatusMeans
  <2>3. h \notin x.granted_readers
    <3> SUFFICES ASSUME h \in x.granted_readers PROVE FALSE
      OBVIOUS
    <3>1. c[h] = LockCall(l, FALSE)
      BY <1>1 DEF Handing
    <3>2. ~write
      <4>1. LockCall(l, write) = LockCall(l, FALSE)
        BY <1>10, <3>1, CallFacts, Zenon
      <4> QED BY <4>1 DEF LockCall
    <3> QED BY <1>0, <1>9, <3>2 DEF StatusMeans
  <2>4. /\ x.writer # NoThread => Reading(x) = {}
        /\ x.waiters # <<>> => ~Free(x)
        /\ x.granted_writer # NoThread => x.writer = x.granted_writer
    BY <1>1 DEF LockOK, Handing
  <2>5. LockOK(l, x, s, d)
    <3>1. Answered(x, x, h)
      BY <1>1, <2>2, <2>3, <2>4 DEF Answered
    <3> QED BY <3>1, AnsweredOK
  <2> QED BY <1>9, <2>1, <2>5
<1> QED BY <1>4, <1>5, <1>6, <1>7, <1>8, <1>9

-----------------------------------------------------------------------------
(* The steps.                                                               *)

\* A lock that was just created, or destroyed, and on which nobody sleeps.
LEMMA NewLockOK ==
  ASSUME NEW l, NEW b \in BOOLEAN, NEW x,
         x = [live |-> b, writer |-> NoThread, readers |-> [h \in Handles |-> 0],
              waiters |-> <<>>, granted_readers |-> {}, granted_writer |-> NoThread],
         NEW s, NEW c, \A h \in Handles : s.wait_key[h] # RwlockWaitKey(l, h)
  PROVE  LockOK(l, x, s, c)
<1> DEFINE R == [h \in Handles |-> 0]
<1>1. R \in [Handles -> 0 .. MaxReadCount]
  BY RwlockAssumption
<1> HIDE DEF R
<1>2. x = [live |-> b, writer |-> NoThread, readers |-> R, waiters |-> <<>>,
           granted_readers |-> {}, granted_writer |-> NoThread]
  BY DEF R
<1>3. /\ x.live = b /\ x.writer = NoThread /\ x.readers = R /\ x.waiters = <<>>
      /\ x.granted_readers = {} /\ x.granted_writer = NoThread
  BY <1>2
<1>4. x \in RwlockRecords
  <2> DEFINE none == <<>>
             Q == Seq(Waiters)
             F == [Handles -> 0 .. MaxReadCount]
  <2>1. none \in Q /\ R \in F
    BY <1>1
  <2>2. x = [live |-> b, writer |-> NoThread, readers |-> R, waiters |-> none,
             granted_readers |-> {}, granted_writer |-> NoThread]
    BY <1>2
  <2>3. RwlockRecords =
          [live : BOOLEAN, writer : Handles \cup {NoThread}, readers : F, waiters : Q,
           granted_readers : SUBSET Handles, granted_writer : Handles \cup {NoThread}]
    BY DEF RwlockRecords
  <2> HIDE DEF none, Q, F
  <2> QED BY <2>1, <2>2, <2>3
<1>5. \A h \in Handles : ~Held(x, h) /\ h \notin QueuedThreads(x)
  BY <1>3, HandleFacts DEF Held, QueuedThreads, R
<1>6. ~x.live => x = NoRwlock
  BY <1>2, <1>3 DEF NoRwlock, R
<1>7. DOMAIN x.waiters = {}
  BY <1>3
<1>8. Handing(l, x, s, c)
  BY <1>3, <1>4, <1>5, <1>7 DEF Handing
<1> QED BY <1>3, <1>6, <1>8 DEF LockOK

\* A lock that does not exist is held by nobody.
LEMMA DeadLock ==
  ASSUME NEW x, ~x.live => x = NoRwlock, NEW h \in Handles, Held(x, h)
  PROVE  x.live
BY HandleFacts DEF NoRwlock, Held

\* The types of a table of correct locks.
LEMMA LocksTyped ==
  ASSUME NEW f, f = [l \in Rwlocks |-> f[l]], NEW s, NEW c,
         \A l \in Rwlocks : LockOK(l, f[l], s, c)
  PROVE  f \in [Rwlocks -> RwlockRecords]
<1>1. \A l \in Rwlocks : f[l] \in RwlockRecords
  BY DEF LockOK, Handing
<1> QED BY <1>1

\* What an operation on lock l by h leaves of another lock.
LEMMA OtherLockOK ==
  ASSUME NEW m, NEW x, NEW s, NEW c, NEW t, NEW d, LockOK(m, x, s, c),
         NEW h \in Handles, s.wait_key[h] = NoKey,
         \A w \in BOOLEAN : c[h] # LockCall(m, w),
         t.wait_key[h] # RwlockWaitKey(m, h), t.state[h] # "exited",
         \A g \in Handles : g # h => /\ d[g] = c[g] /\ t.state[g] = s.state[g]
                                     /\ t.wait_key[g] = s.wait_key[g]
  PROVE  LockOK(m, x, t, d)
<1>1. Handing(m, x, s, c) /\ x \in RwlockRecords
  BY DEF LockOK, Handing
<1>2. h \notin QueuedThreads(x)
  BY <1>1, KeyFacts DEF Handing
<1>3. h \notin x.granted_readers /\ h # x.granted_writer
  BY <1>1, HandleFacts DEF Handing
<1>4. Moves(m, x, {}, s, c, t, d)
  <2> SUFFICES ASSUME NEW g \in Handles
               PROVE  /\ t.wait_key[g] = RwlockWaitKey(m, g) <=>
                           s.wait_key[g] = RwlockWaitKey(m, g)
                      /\ t.state[g] = "exited" => s.state[g] = "exited"
                      /\ g \in QueuedThreads(x) \cup x.granted_readers
                                 \cup {x.granted_writer} =>
                           d[g] = c[g] /\ (Awake(s, g) => Awake(t, g))
    BY DEF Moves
  <2>1. CASE g = h
    BY <1>2, <1>3, <2>1, KeyFacts
  <2>2. CASE g # h
    BY <2>2 DEF Awake
  <2> QED BY <2>1, <2>2
<1> QED BY <1>4, LockKept

\* A step that changes no sleeper disturbs no lock.
LEMMA SameSleepersOK ==
  ASSUME NEW l, NEW x, NEW s, NEW c, NEW t, LockOK(l, x, s, c), SameSleepers(s, t)
  PROVE  LockOK(l, x, t, c)
<1>1. Moves(l, x, {}, s, c, t, c)
  BY DEF Moves, SameSleepers
<1> QED BY <1>1, LockKept

\* The locks, of which W[l] were the sleepers of lock l handed the lock, and the
\* keys that wake them.
HandedKeys(W) ==
  {k \in WaitKeys : \E l \in Rwlocks : \E h \in W[l] : k = RwlockWaitKey(l, h)}

\* Each lock l was handed to W[l], whom the lock has asleep.
Handed(W, s) ==
  /\ \A l \in Rwlocks : W[l] \in SUBSET Handles
  /\ \A l \in Rwlocks : \A h \in W[l] : s.wait_key[h] = RwlockWaitKey(l, h)

HandedThreads(W) == UNION {W[l] : l \in Rwlocks}

\* Waking the threads that locks were handed to wakes exactly them.
LEMMA HandedWake ==
  ASSUME NEW s, SchedulerOK(s, WaitKeys), NoDeadlines(s), NEW at,
         NEW W, Handed(W, s), NEW keys, Lists(keys, HandedKeys(W)),
         NEW t, t = WakeInTurn(s, keys, at)
  PROVE  /\ SchedulerOK(t, WaitKeys)
         /\ Woken(s, HandedThreads(W), t)
<1> USE DEF Handed, HandedThreads
<1> DEFINE U == HandedThreads(W)
           w == WakeExpiredThreads(s, at)
<1>1. \A l \in Rwlocks : \A h \in W[l] : RwlockWaitKey(l, h) \in HandedKeys(W)
  BY KeyFacts DEF HandedKeys
<1>2. CASE keys = <<>>
  <2>1. HandedKeys(W) = {}
    BY <1>2 DEF Lists
  <2>2. U = {}
    BY <1>1, <2>1
  <2>3. t = s
    BY <1>2 DEF WakeInTurn
  <2> QED BY <2>2, <2>3 DEF Woken
<1>3. CASE keys # <<>>
  <2>1. keys \in Seq(WaitKeys) /\ \A i, j \in DOMAIN keys : keys[i] = keys[j] => i = j
    <3>1. keys \in Seq(HandedKeys(W)) /\ HandedKeys(W) \in SUBSET WaitKeys
      BY DEF Lists, HandedKeys
    <3>2. keys \in Seq(WaitKeys)
      BY <3>1
    <3> QED BY <3>2 DEF Lists
  <2>2. \A i \in DOMAIN keys : keys[i] \in HandedKeys(W)
    BY DEF Lists
  <2>3. \A i \in DOMAIN keys : KeyThread(keys[i]) \in Handles
    BY <2>2, KeyFacts DEF HandedKeys
  <2>4. Woken(s, {}, w)
    BY NothingExpires
  <2>5. /\ SchedulerOK(t, WaitKeys) /\ Woken(w, SleepersOf(w, keys), t)
    BY <1>3, <2>1, <2>3, KeyFacts, WakeInTurnEffect
  <2> HIDE DEF w
  <2>6. \A h \in Handles : w.wait_key[h] = s.wait_key[h]
    BY <2>4 DEF Woken
  <2>7. ASSUME NEW h \in SleepersOf(w, keys) PROVE h \in U
    <3>1. PICK i \in DOMAIN keys : KeyThread(keys[i]) = h /\ w.wait_key[h] = keys[i]
      BY <2>7 DEF SleepersOf
    <3>2. PICK l \in Rwlocks : \E g \in W[l] : keys[i] = RwlockWaitKey(l, g)
      BY <2>2 DEF HandedKeys
    <3>3. h \in W[l]
      BY <3>1, <3>2, KeyFacts
    <3> QED BY <3>3
  <2>8. ASSUME NEW h \in U PROVE h \in SleepersOf(w, keys)
    <3>1. PICK l \in Rwlocks : h \in W[l]
      BY <2>8
    <3>2. h \in Handles /\ s.wait_key[h] = RwlockWaitKey(l, h)
      BY <3>1
    <3>3. PICK i \in DOMAIN keys : keys[i] = RwlockWaitKey(l, h)
      BY <1>1, <3>1 DEF Lists
    <3> QED BY <2>6, <3>2, <3>3, KeyFacts DEF SleepersOf
  <2>9. SleepersOf(w, keys) = U
    BY <2>7, <2>8
  <2> HIDE DEF U
  <2>10. Woken(s, U, t)
    BY <2>4, <2>5, <2>9 DEF Woken
  <2> QED BY <2>5, <2>10 DEF U
<1> QED BY <1>2, <1>3

\* Waking the sleepers that locks were handed to is, for each lock, the wake-up
\* of its own.
LEMMA WokenMoves ==
  ASSUME NEW s, SchedulerOK(s, WaitKeys), NEW c, NEW W, Handed(W, s),
         NEW t, Woken(s, HandedThreads(W), t),
         NEW m \in Rwlocks, NEW x
  PROVE  Moves(m, x, W[m], s, c, t, c)
<1> USE DEF Handed, HandedThreads
<1> DEFINE U == HandedThreads(W)
<1> SUFFICES ASSUME NEW h \in Handles
             PROVE  /\ t.wait_key[h] = RwlockWaitKey(m, h) <=>
                         s.wait_key[h] = RwlockWaitKey(m, h) /\ h \notin W[m]
                    /\ h \in W[m] => Awake(t, h)
                    /\ t.state[h] = "exited" => s.state[h] = "exited"
                    /\ Awake(s, h) => Awake(t, h)
  BY DEF Moves
<1>1. CASE h \in U
  <2>1. t.state[h] = "ready" /\ t.wait_key[h] = NoKey
    BY <1>1 DEF Woken
  <2>2. PICK l \in Rwlocks : h \in W[l]
    BY <1>1
  <2>3. s.wait_key[h] = RwlockWaitKey(l, h)
    BY <2>2
  <2> QED BY <2>1, <2>2, <2>3, KeyFacts DEF Awake
<1>2. CASE h \notin U
  <2>1. t.state[h] = s.state[h] /\ t.wait_key[h] = s.wait_key[h]
    BY <1>2 DEF Woken
  <2>2. h \notin W[m]
    BY <1>2
  <2> QED BY <2>1, <2>2 DEF Awake
<1> QED BY <1>1, <1>2

\* The wake-ups of one hand-over are the keys of the threads it was handed to.
LEMMA GrantKeysList ==
  ASSUME NEW l, NEW x, NEW s, NEW c, Handing(l, x, s, c)
  PROVE  /\ Lists(GrantKeys(l, x), {RwlockWaitKey(l, h) : h \in Granted(x)})
         /\ Granted(x) \in SUBSET Handles
         /\ \A h \in Granted(x) : s.wait_key[h] = RwlockWaitKey(l, h)
<1> DEFINE n == GrantCount(x)
           T == {RwlockWaitKey(l, h) : h \in Granted(x)}
           k == GrantKeys(l, x)
<1>1. /\ x \in RwlockRecords /\ n \in Nat
      /\ \A i \in 1 .. n : i \in DOMAIN x.waiters
  <2>1. x \in RwlockRecords
    BY DEF Handing
  <2>2. n \in 0 .. Len(x.waiters) /\ Len(x.waiters) \in Nat
        /\ DOMAIN x.waiters = 1 .. Len(x.waiters)
    BY <2>1, GrantCountFacts, WaiterTypes
  <2> QED BY <2>1, <2>2
<1>2. \A i \in 1 .. n : /\ x.waiters[i].thread \in Handles
                        /\ s.wait_key[x.waiters[i].thread] =
                             RwlockWaitKey(l, x.waiters[i].thread)
  BY <1>1, WaiterTypes DEF Handing
<1>3. /\ DOMAIN k = 1 .. n
      /\ \A i \in 1 .. n : k[i] = RwlockWaitKey(l, x.waiters[i].thread) /\ k[i] \in T
  BY DEF GrantKeys, Granted
<1>4. k \in Seq(T)
  BY <1>1, <1>3 DEF GrantKeys
<1>5. \A i, j \in 1 .. n : k[i] = k[j] => i = j
  <2> SUFFICES ASSUME NEW i \in 1 .. n, NEW j \in 1 .. n, k[i] = k[j] PROVE i = j
    OBVIOUS
  <2>1. x.waiters[i].thread = x.waiters[j].thread
    BY <1>3, KeyFacts
  <2> QED BY <1>1, <2>1 DEF Handing
<1>6. \A e \in T : \E i \in 1 .. n : k[i] = e
  BY <1>3 DEF Granted
<1> HIDE DEF n, T, k
<1>7. Lists(k, T)
  BY <1>3, <1>4, <1>5, <1>6 DEF Lists
<1>8. Granted(x) \in SUBSET Handles /\ \A h \in Granted(x) : s.wait_key[h] = RwlockWaitKey(l, h)
  BY <1>2 DEF Granted, n
<1> QED BY <1>7, <1>8 DEF T, k

\* Every thread and every lock is as the service starts.
LEMMA InitIInv == Init => IInv
<1> SUFFICES ASSUME Init PROVE IInv
  OBVIOUS
<1>1. sched = [state     |-> [h \in Handles |-> "ready"],
               wait_key  |-> [h \in Handles |-> NoKey],
               deadline  |-> [h \in Handles |-> NoDeadline],
               timed_out |-> [h \in Handles |-> NoKey],
               ready     |-> [i \in Handles |-> i],
               current   |-> NoThread]
  BY DEF Init, Started, EmptyScheduler
<1>2. /\ SchedulerOK(sched, WaitKeys)
      /\ \A h \in Handles : sched.wait_key[h] = NoKey /\ sched.deadline[h] = NoDeadline
  BY <1>1, StartedOK
<1>3. now \in 0 .. MaxTime /\ call \in [Handles -> Calls]
  BY MaxTimeAssumption DEF Init, Started, Calls
<1>4. \A l \in Rwlocks : LockOK(l, NoRwlock, sched, call)
  <2> SUFFICES ASSUME NEW l \in Rwlocks PROVE LockOK(l, NoRwlock, sched, call)
    OBVIOUS
  <2>1. \A h \in Handles : sched.wait_key[h] # RwlockWaitKey(l, h)
    BY <1>2, KeyFacts
  <2>2. FALSE \in BOOLEAN
    OBVIOUS
  <2> QED BY <2>1, <2>2, NewLockOK DEF NoRwlock
<1>5. rwlocks = [l \in Rwlocks |-> NoRwlock]
  BY DEF Init
<1>6. \A l \in Rwlocks : LockOK(l, rwlocks[l], sched, call)
  BY <1>4, <1>5
<1>7. rwlocks \in [Rwlocks -> RwlockRecords]
  BY <1>5, <1>6, LocksTyped
<1> QED BY <1>2, <1>3, <1>6, <1>7 DEF IInv, TypeOK, NoDeadlines

\* What a thread that may make a call is: awake, under no wait key.
LEMMA CallerFacts ==
  ASSUME IInv, NEW h \in Handles, sched.current = h, sched.state[h] = "running"
  PROVE  /\ SchedulerOK(sched, WaitKeys) /\ NoDeadlines(sched)
         /\ sched.wait_key[h] = NoKey /\ CanLeave(sched)
         /\ call \in [Handles -> Calls] /\ rwlocks \in [Rwlocks -> RwlockRecords]
         /\ \A l \in Rwlocks : LockOK(l, rwlocks[l], sched, call)
BY RunningHasNoKey, HandleFacts DEF IInv, TypeOK

\* A step that touches no lock and no sleeper.
LEMMA SleepersStep ==
  ASSUME IInv, SchedulerOK(sched', WaitKeys), SameSleepers(sched, sched'),
         UNCHANGED <<now, call, rwlocks>>
  PROVE  IInv'
<1>1. \A l \in Rwlocks : LockOK(l, rwlocks'[l], sched', call')
  <2> SUFFICES ASSUME NEW l \in Rwlocks PROVE LockOK(l, rwlocks[l], sched', call)
    OBVIOUS
  <2>1. LockOK(l, rwlocks[l], sched, call)
    BY DEF IInv
  <2> QED BY <2>1, SameSleepersOK
<1>2. NoDeadlines(sched')
  BY DEF IInv, NoDeadlines, SameSleepers
<1> QED BY <1>1, <1>2 DEF IInv, TypeOK

\* CreateRwlock and DestroyRwlock replace a lock that nobody sleeps on.
LEMMA ReplaceStep ==
  ASSUME IInv, NEW l \in Rwlocks, NEW b \in BOOLEAN, rwlocks[l].waiters = <<>>,
         UNCHANGED <<sched, now, call>>,
         NEW x,
         x = [live |-> b, writer |-> NoThread, readers |-> [h \in Handles |-> 0],
              waiters |-> <<>>, granted_readers |-> {}, granted_writer |-> NoThread],
         rwlocks' = [rwlocks EXCEPT ![l] = x]
  PROVE  IInv'
<1>1. /\ rwlocks \in [Rwlocks -> RwlockRecords]
      /\ \A m \in Rwlocks : LockOK(m, rwlocks[m], sched, call)
  BY DEF IInv, TypeOK
<1>2. \A h \in Handles : sched.wait_key[h] # RwlockWaitKey(l, h)
  <2>1. Handing(l, rwlocks[l], sched, call)
    BY <1>1 DEF LockOK
  <2>2. QueuedThreads(rwlocks[l]) = {}
    BY DEF QueuedThreads
  <2> QED BY <2>1, <2>2 DEF Handing
<1>3. LockOK(l, x, sched, call)
  BY <1>2, NewLockOK
<1>4. \A m \in Rwlocks : LockOK(m, rwlocks'[m], sched, call)
  BY <1>1, <1>3
<1>5. rwlocks' = [m \in Rwlocks |-> rwlocks'[m]]
  BY <1>1
<1>6. rwlocks' \in [Rwlocks -> RwlockRecords]
  BY <1>4, <1>5, LocksTyped
<1> QED BY <1>4, <1>6 DEF IInv, TypeOK

\* LockRwlock: the lock it is about answers the call or queues the caller; no
\* other lock queues or grants to the caller.
LEMMA LockStep ==
  ASSUME IInv, NEW h \in Handles, NEW l \in Rwlocks, NEW write \in BOOLEAN,
         NEW try_only \in BOOLEAN, LockRwlock(h, l, write, try_only)
  PROVE  IInv'
<1> DEFINE st == RwlockStatus(rwlocks[l], h, write, try_only)
           s == sched
           t == sched'
           x == rwlocks[l]
<1>1. /\ SchedulerOK(s, WaitKeys) /\ NoDeadlines(s)
      /\ s.wait_key[h] = NoKey /\ CanLeave(s) /\ s.state[h] = "running" /\ s.current = h
      /\ call \in [Handles -> Calls] /\ rwlocks \in [Rwlocks -> RwlockRecords]
      /\ \A m \in Rwlocks : LockOK(m, rwlocks[m], s, call)
  BY CallerFacts DEF LockRwlock, MayCall
<1>2. /\ call[h] \in {NoCall, IF try_only THEN NoCall ELSE LockCall(l, write)}
      /\ x.live
      /\ rwlocks' = [rwlocks EXCEPT ![l] = AfterLock(x, h, write, try_only)]
      /\ t = IF st = "kWouldBlock" THEN BlockCurrent(s, RwlockWaitKey(l, h)) ELSE s
      /\ call' = [call EXCEPT ![h] = IF st = "kWouldBlock" THEN LockCall(l, write)
                                                           ELSE NoCall]
      /\ now' = now
  BY DEF LockRwlock, MayCall, CallAfter
<1> HIDE DEF st, s, t, x
<1>3. /\ SchedulerOK(t, WaitKeys) /\ NoDeadlines(t)
      /\ st # "kWouldBlock" => t = s
      /\ st = "kWouldBlock" =>
           \A g \in Handles :
             /\ t.state[g] = IF g = h THEN "blocked" ELSE s.state[g]
             /\ t.wait_key[g] = IF g = h THEN RwlockWaitKey(l, h) ELSE s.wait_key[g]
  <2>1. CASE st = "kWouldBlock"
    <3>1. t = BlockCurrentUntil(s, RwlockWaitKey(l, h), NoDeadline)
      BY <1>2, <2>1 DEF BlockCurrent
    <3>2. SchedulerOK(t, WaitKeys)
      <4>1. /\ RwlockWaitKey(l, h) \in WaitKeys /\ NoDeadline \in Nat \cup {NoDeadline}
            /\ \A g \in Handles : RwlockWaitKey(l, h) = ThreadExitWaitKey(g) =>
                                  s.state[g] # "exited"
        BY KeyFacts
      <4> QED BY <1>1, <3>1, <4>1, BlockCurrentUntilOK
    <3>3. \A g \in Handles :
            /\ t.state[g] = IF g = h THEN "blocked" ELSE s.state[g]
            /\ t.wait_key[g] = IF g = h THEN RwlockWaitKey(l, h) ELSE s.wait_key[g]
            /\ t.deadline[g] = IF g = h THEN NoDeadline ELSE s.deadline[g]
      BY <1>1, <3>1, KeyFacts, BlockCurrentStates
    <3> QED BY <1>1, <2>1, <3>2, <3>3 DEF NoDeadlines
  <2>2. CASE st # "kWouldBlock"
    BY <1>1, <1>2, <2>2
  <2> QED BY <2>1, <2>2
<1>4. /\ call'[h] = IF st = "kWouldBlock" THEN LockCall(l, write) ELSE NoCall
      /\ \A g \in Handles : g # h => call'[g] = call[g]
      /\ call' \in [Handles -> Calls]
  <2>1. NoCall \in Calls /\ LockCall(l, write) \in Calls
    BY DEF Calls
  <2> QED BY <1>1, <1>2, <2>1
<1>5. LockOK(l, AfterLock(x, h, write, try_only), t, call')
  <2>1. LockOK(l, x, s, call)
    BY <1>1 DEF x
  <2>2. st = RwlockStatus(x, h, write, try_only)
    BY DEF st, x
  <2>3. LockCalled(l, h, write, try_only, st, s, call, t, call')
    BY <1>1, <1>2, <1>3, <1>4 DEF LockCalled
  <2> QED BY <1>2, <2>1, <2>2, <2>3, LockOneOK
<1>6. ASSUME NEW m \in Rwlocks, m # l PROVE LockOK(m, rwlocks[m], t, call')
  <2>1. LockOK(m, rwlocks[m], s, call)
    BY <1>1
  <2>2. \A w \in BOOLEAN : call[h] # LockCall(m, w)
    <3>1. call[h] = NoCall \/ call[h] = LockCall(l, write)
      BY <1>2
    <3> QED BY <1>6, <3>1, CallFacts
  <2>3. t.wait_key[h] # RwlockWaitKey(m, h) /\ t.state[h] # "exited"
    BY <1>1, <1>3, <1>6, KeyFacts
  <2>4. \A g \in Handles : g # h => /\ call'[g] = call[g] /\ t.state[g] = s.state[g]
                                     /\ t.wait_key[g] = s.wait_key[g]
    BY <1>3, <1>4
  <2> QED BY <1>1, <2>1, <2>2, <2>3, <2>4, OtherLockOK
<1>7. \A m \in Rwlocks : LockOK(m, rwlocks'[m], t, call')
  BY <1>1, <1>2, <1>5, <1>6
<1>8. rwlocks' = [m \in Rwlocks |-> rwlocks'[m]]
  BY <1>1, <1>2
<1>9. rwlocks' \in [Rwlocks -> RwlockRecords]
  BY <1>7, <1>8, LocksTyped
<1> QED BY <1>2, <1>3, <1>4, <1>7, <1>9 DEF IInv, TypeOK, t

\* UnlockRwlock: the lock is handed on and exactly the threads it is handed to
\* are woken.
LEMMA UnlockStep ==
  ASSUME IInv, NEW h \in Handles, NEW l \in Rwlocks, UnlockRwlock(h, l)
  PROVE  IInv'
<1> DEFINE s == sched
           x == rwlocks[l]
           y == Unlocked(x, h)
           keys == GrantKeys(l, y)
           W == [m \in Rwlocks |-> IF m = l THEN Granted(y) ELSE {}]
           t == sched'
<1>1. /\ SchedulerOK(s, WaitKeys) /\ NoDeadlines(s)
      /\ call \in [Handles -> Calls] /\ rwlocks \in [Rwlocks -> RwlockRecords]
      /\ \A m \in Rwlocks : LockOK(m, rwlocks[m], s, call)
  BY CallerFacts DEF UnlockRwlock, MayCall
<1>2. /\ call[h] = NoCall /\ x.live /\ Held(x, h)
      /\ rwlocks' = [rwlocks EXCEPT ![l] = GrantWaiters(y)]
      /\ t = WakeInTurn(s, keys, now)
      /\ now' = now /\ call' = call
  BY DEF UnlockRwlock, MayCall
<1> HIDE DEF s, t, x, y
<1>3. Handing(l, y, s, call) /\ y.live
  BY <1>1, <1>2, UnlockedOK DEF x, y
<1>4. /\ Lists(keys, {RwlockWaitKey(l, g) : g \in Granted(y)})
      /\ Granted(y) \in SUBSET Handles
      /\ \A g \in Granted(y) : s.wait_key[g] = RwlockWaitKey(l, g)
  BY <1>3, GrantKeysList
<1> HIDE DEF keys
<1>5. Handed(W, s) /\ W[l] = Granted(y) /\ \A m \in Rwlocks : m # l => W[m] = {}
  BY <1>4 DEF Handed
<1> HIDE DEF W
<1>6. HandedKeys(W) = {RwlockWaitKey(l, g) : g \in Granted(y)}
  <2>1. \A k : k \in HandedKeys(W) <=> \E g \in Granted(y) : k = RwlockWaitKey(l, g)
    BY <1>4, <1>5, KeyFacts DEF HandedKeys
  <2> QED BY <2>1, Zenon
<1>7. SchedulerOK(t, WaitKeys) /\ Woken(s, HandedThreads(W), t)
  <2>1. Lists(keys, HandedKeys(W))
    BY <1>4, <1>6
  <2> QED BY <1>1, <1>2, <1>5, <2>1, HandedWake
<1>8. NoDeadlines(t)
  BY <1>1, <1>7 DEF NoDeadlines, Woken
<1>9. LockOK(l, GrantWaiters(y), t, call)
  <2>1. Moves(l, y, W[l], s, call, t, call)
    BY <1>1, <1>5, <1>7, WokenMoves
  <2> QED BY <1>3, <1>5, <2>1, GrantOK
<1>10. ASSUME NEW m \in Rwlocks, m # l PROVE LockOK(m, rwlocks[m], t, call)
  <2>1. Moves(m, rwlocks[m], W[m], s, call, t, call)
    BY <1>1, <1>5, <1>7, WokenMoves
  <2> QED BY <1>1, <1>5, <1>10, <2>1, LockKept
<1>11. \A m \in Rwlocks : LockOK(m, rwlocks'[m], t, call')
  BY <1>1, <1>2, <1>9, <1>10
<1>12. rwlocks' = [m \in Rwlocks |-> rwlocks'[m]]
  BY <1>1, <1>2
<1>13. rwlocks' \in [Rwlocks -> RwlockRecords]
  BY <1>11, <1>12, LocksTyped
<1> QED BY <1>1, <1>2, <1>7, <1>8, <1>11, <1>13 DEF IInv, TypeOK, t

GrantedKeys(l, x) == {RwlockWaitKey(l, h) : h \in Granted(x)}

\* The wake-ups of an exit, lock after lock, are the keys of all the threads
\* that some lock is handed to.
LEMMA ExitKeysList ==
  ASSUME NEW y, NEW H \in SUBSET Rwlocks, NEW s, NEW c,
         \A l \in Rwlocks : Handing(l, y[l], s, c),
         NEW W, \A l \in Rwlocks : W[l] = IF l \in H THEN Granted(y[l]) ELSE {},
         NEW q, Lists(q, {l \in H : GrantCount(y[l]) > 0})
  PROVE  /\ Handed(W, s)
         /\ Lists(Joined([i \in DOMAIN q |-> GrantKeys(q[i], y[q[i]])]), HandedKeys(W))
<1> DEFINE S == {l \in H : GrantCount(y[l]) > 0}
           n == Len(q)
           parts == [i \in DOMAIN q |-> GrantKeys(q[i], y[q[i]])]
           T == [i \in 1 .. n |-> GrantedKeys(q[i], y[q[i]])]
<1>1. \A l \in Rwlocks :
        /\ Lists(GrantKeys(l, y[l]), GrantedKeys(l, y[l]))
        /\ Granted(y[l]) \in SUBSET Handles
        /\ \A h \in Granted(y[l]) : s.wait_key[h] = RwlockWaitKey(l, h)
  BY GrantKeysList DEF GrantedKeys
<1>2. Handed(W, s)
  BY <1>1 DEF Handed
<1>3. /\ q \in Seq(S) /\ n \in Nat /\ DOMAIN q = 1 .. n
      /\ \A i \in 1 .. n : q[i] \in S
      /\ \A i, j \in 1 .. n : q[i] = q[j] => i = j
      /\ \A l \in S : \E i \in 1 .. n : q[i] = l
  BY DEF Lists
<1>4. \A i \in 1 .. n : q[i] \in Rwlocks /\ q[i] \in H
  BY <1>3
<1>5. \A l \in H : l \notin S => Granted(y[l]) = {}
  <2> SUFFICES ASSUME NEW l \in H, l \notin S PROVE Granted(y[l]) = {}
    OBVIOUS
  <2>1. y[l] \in RwlockRecords
    BY DEF Handing
  <2>2. GrantCount(y[l]) \in Nat
    BY <2>1, GrantCountFacts, WaiterTypes
  <2> QED BY <2>1, <2>2, GrantNobody
<1>6. DOMAIN parts = 1 .. n /\ Len(parts) = n
  BY <1>3
<1>7. \A i \in 1 .. n : parts[i] = GrantKeys(q[i], y[q[i]])
  BY <1>3
<1> HIDE DEF parts
<1>8. \A i \in 1 .. n : T[i] = GrantedKeys(q[i], y[q[i]])
  OBVIOUS
<1> HIDE DEF T
<1> HIDE DEF n
<1>9. \A i \in 1 .. n : Lists(parts[i], T[i])
  <2> SUFFICES ASSUME NEW i \in 1 .. n PROVE Lists(parts[i], T[i])
    OBVIOUS
  <2>1. parts[i] = GrantKeys(q[i], y[q[i]]) /\ T[i] = GrantedKeys(q[i], y[q[i]])
    BY <1>7, <1>8
  <2> QED BY <1>1, <1>4, <2>1
<1>10. \A i, j \in 1 .. n : i # j => T[i] \cap T[j] = {}
  <2> SUFFICES ASSUME NEW i \in 1 .. n, NEW j \in 1 .. n, NEW k, k \in T[i], k \in T[j]
               PROVE  i = j
    OBVIOUS
  <2>1. q[i] = q[j]
    BY <1>8, KeyFacts DEF GrantedKeys
  <2> QED BY <1>3, <2>1
<1>11. Lists(Joined(parts), UNION {T[i] : i \in 1 .. n})
  BY <1>3, <1>6, <1>9, <1>10, JoinedLists
<1>12. HandedKeys(W) = UNION {T[i] : i \in 1 .. n}
  <2>1. ASSUME NEW k \in HandedKeys(W) PROVE k \in UNION {T[i] : i \in 1 .. n}
    <3>1. PICK l \in Rwlocks : \E h \in W[l] : k = RwlockWaitKey(l, h)
      BY DEF HandedKeys
    <3>2. l \in H /\ W[l] = Granted(y[l]) /\ l \in S
      BY <3>1, <1>5
    <3>3. PICK i \in 1 .. n : q[i] = l
      BY <1>3, <3>2
    <3>4. k \in T[i]
      BY <1>8, <3>1, <3>2, <3>3 DEF GrantedKeys
    <3> QED BY <3>4
  <2>2. ASSUME NEW i \in 1 .. n, NEW k \in T[i] PROVE k \in HandedKeys(W)
    <3>1. PICK h \in Granted(y[q[i]]) : k = RwlockWaitKey(q[i], h)
      BY <1>8 DEF GrantedKeys
    <3>2. q[i] \in Rwlocks /\ h \in W[q[i]] /\ h \in Handles
      BY <1>1, <1>4, <3>1
    <3> QED BY <3>1, <3>2, KeyFacts DEF HandedKeys
  <2> QED BY <2>1, <2>2
<1> QED BY <1>2, <1>11, <1>12 DEF parts

\* What the exit of h leaves of the threads, after the wake-ups that led to s.
LEMMA ExitMoves ==
  ASSUME NEW s, SchedulerOK(s, WaitKeys), NEW c, NEW W, Handed(W, s),
         NEW u, SchedulerOK(u, WaitKeys), Woken(s, HandedThreads(W), u),
         NEW h \in Handles, s.current = h, s.state[h] = "running",
         NEW t, t = ExitCurrent(u), NEW d, d = [c EXCEPT ![h] = NoCall],
         c \in [Handles -> Calls], NEW m \in Rwlocks, NEW x,
         ~Held(x, h), h \notin x.granted_readers, x.granted_writer # h,
         h \notin QueuedThreads(x)
  PROVE  Moves(m, x, W[m], s, c, t, d)
<1> DEFINE J == BlockedOn(u, ThreadExitWaitKey(h))
<1>1. s.wait_key[h] = NoKey
  BY RunningHasNoKey
<1>2. h \notin HandedThreads(W)
  BY <1>1, KeyFacts DEF Handed, HandedThreads
<1>3. u.state[h] = "running" /\ u.current = h /\ u.wait_key[h] = NoKey
  BY <1>1, <1>2 DEF Woken
<1>4. CanLeave(u)
  BY <1>3, HandleFacts DEF CanLeave
<1>5. \A g \in Handles :
        /\ t.state[g] = IF g \in J THEN "ready" ELSE IF g = h THEN "exited" ELSE u.state[g]
        /\ t.wait_key[g] = IF g \in J \/ g = h THEN NoKey ELSE u.wait_key[g]
  BY <1>3, <1>4, ExitCurrentStates
<1>6. \A g \in Handles : g \in J => u.state[g] = "blocked" /\ u.wait_key[g] = ThreadExitWaitKey(h)
  BY DEF BlockedOn
<1> HIDE DEF J
<1>7. Moves(m, x, W[m], s, c, u, c)
  BY WokenMoves
<1> SUFFICES ASSUME NEW g \in Handles
             PROVE  /\ t.wait_key[g] = RwlockWaitKey(m, g) <=>
                         s.wait_key[g] = RwlockWaitKey(m, g) /\ g \notin W[m]
                    /\ g \in W[m] => Awake(t, g)
                    /\ Held(x, g) /\ t.state[g] = "exited" => s.state[g] = "exited"
                    /\ g \in QueuedThreads(x) \cup x.granted_readers
                               \cup {x.granted_writer} =>
                         d[g] = c[g] /\ (Awake(s, g) => Awake(t, g))
  BY DEF Moves
<1>8. /\ u.wait_key[g] = RwlockWaitKey(m, g) <=>
           s.wait_key[g] = RwlockWaitKey(m, g) /\ g \notin W[m]
      /\ g \in W[m] => Awake(u, g)
      /\ Held(x, g) /\ u.state[g] = "exited" => s.state[g] = "exited"
      /\ g \in QueuedThreads(x) \cup x.granted_readers \cup {x.granted_writer} =>
           (Awake(s, g) => Awake(u, g))
  BY <1>7 DEF Moves
<1>9. CASE g = h
  <2>1. g \notin W[m]
    BY <1>2, <1>9 DEF HandedThreads
  <2>2. t.wait_key[g] = NoKey
    BY <1>5, <1>9
  <2> QED BY <1>1, <1>9, <2>1, <2>2, KeyFacts
<1>10. CASE g # h /\ g \in J
  <2>1. t.wait_key[g] = NoKey /\ t.state[g] = "ready" /\ Awake(t, g)
    BY <1>5, <1>10 DEF Awake
  <2>2. u.wait_key[g] # RwlockWaitKey(m, g)
    BY <1>6, <1>10, KeyFacts
  <2>3. d[g] = c[g]
    BY <1>10
  <2> QED BY <1>8, <2>1, <2>2, <2>3, KeyFacts
<1>11. CASE g # h /\ g \notin J
  <2>1. t.wait_key[g] = u.wait_key[g] /\ t.state[g] = u.state[g] /\ d[g] = c[g]
    BY <1>5, <1>11
  <2> QED BY <1>8, <2>1 DEF Awake
<1> QED BY <1>9, <1>10, <1>11

\* Exit: every lock loses the thread; the ones it held are handed on, and exactly
\* the threads they are handed to and the joiners are woken.
LEMMA ExitStep ==
  ASSUME IInv, NEW h \in Handles, Exit(h)
  PROVE  IInv'
<1> DEFINE s == sched
           c == call
           y == [l \in Rwlocks |-> Abandoned(rwlocks[l], h)]
           H == {l \in Rwlocks : Held(rwlocks[l], h)}
           W == [l \in Rwlocks |-> IF l \in H THEN Granted(y[l]) ELSE {}]
           q == InOrder({l \in H : GrantCount(y[l]) > 0})
           keys == Joined([i \in DOMAIN q |-> GrantKeys(q[i], y[q[i]])])
           u == WakeInTurn(s, keys, now)
           t == sched'
           d == call'
<1>1. s.current = h /\ s.state[h] = "running"
  BY DEF Exit
<1>2. /\ SchedulerOK(s, WaitKeys) /\ NoDeadlines(s) /\ s.wait_key[h] = NoKey
      /\ c \in [Handles -> Calls] /\ rwlocks \in [Rwlocks -> RwlockRecords]
      /\ \A l \in Rwlocks : LockOK(l, rwlocks[l], s, c)
  BY <1>1, CallerFacts
<1>3. /\ {l \in H : GrantCount(y[l]) > 0} =
           {l \in Rwlocks : /\ Held(rwlocks[l], h)
                            /\ GrantCount(Abandoned(rwlocks[l], h)) > 0}
      /\ \A l \in Rwlocks : y[l] = Abandoned(rwlocks[l], h)
  OBVIOUS
<1>4. Lists(q, {l \in H : GrantCount(y[l]) > 0})
  <2>1. {l \in H : GrantCount(y[l]) > 0} \in SUBSET (1 .. MaxRwlock) /\ MaxRwlock \in Nat
    BY RwlockAssumption DEF Rwlocks
  <2> QED BY <2>1, InOrderLists
<1>5. keys = Joined([i \in DOMAIN q |-> GrantKeys(q[i], Abandoned(rwlocks[q[i]], h))])
  <2>1. \A i \in DOMAIN q : q[i] \in Rwlocks
    <3> DEFINE S == {l \in H : GrantCount(y[l]) > 0}
    <3>1. S \in SUBSET Rwlocks /\ Lists(q, S)
      BY <1>4
    <3> HIDE DEF q, S
    <3> QED BY <3>1 DEF Lists
  <2>2. \A i \in DOMAIN q : y[q[i]] = Abandoned(rwlocks[q[i]], h)
    BY <1>3, <2>1
  <2> HIDE DEF q, y
  <2> QED BY <2>2
<1>6. /\ t = ExitCurrent(u) /\ d = [c EXCEPT ![h] = NoCall] /\ now' = now
      /\ rwlocks' = [l \in Rwlocks |-> IF l \in H THEN GrantWaiters(y[l]) ELSE y[l]]
  <2>1. /\ t = ExitCurrent(u) /\ d = [c EXCEPT ![h] = NoCall] /\ now' = now
    BY <1>3, <1>5 DEF Exit
  <2>2. rwlocks' = [l \in Rwlocks |-> IF l \in H THEN GrantWaiters(y[l]) ELSE y[l]]
    BY DEF Exit
  <2> QED BY <2>1, <2>2
<1>7. \A l \in Rwlocks : Left(l, rwlocks[l], y[l], h, s, c)
  BY <1>2, <1>3, AbandonedOK
<1>8. \A l \in Rwlocks : W[l] = IF l \in H THEN Granted(y[l]) ELSE {}
  OBVIOUS
<1>9. H \in SUBSET Rwlocks /\ \A l \in H : Held(rwlocks[l], h)
  OBVIOUS
<1>10. \A l \in Rwlocks \ H : ~Held(rwlocks[l], h)
  OBVIOUS
<1> HIDE DEF s, c, t, d, y, H, W, q
<1>11. Handed(W, s) /\ Lists(keys, HandedKeys(W))
  <2>1. \A l \in Rwlocks : Handing(l, y[l], s, c)
    BY <1>7 DEF Left
  <2> QED BY <1>4, <1>8, <1>9, <2>1, ExitKeysList
<1> HIDE DEF keys, u
<1>12. SchedulerOK(u, WaitKeys) /\ Woken(s, HandedThreads(W), u)
  BY <1>2, <1>11, HandedWake DEF u
<1>13. SchedulerOK(t, WaitKeys)
  BY <1>6, <1>12, ExitCurrentOK
<1>14. ASSUME NEW l \in Rwlocks PROVE Moves(l, y[l], W[l], s, c, t, d)
  <2>1. /\ ~Held(y[l], h) /\ h \notin y[l].granted_readers /\ y[l].granted_writer # h
        /\ h \notin QueuedThreads(y[l])
    BY <1>7 DEF Left
  <2> QED BY <1>1, <1>2, <1>6, <1>11, <1>12, <2>1, ExitMoves
<1>15. ASSUME NEW l \in H PROVE LockOK(l, GrantWaiters(y[l]), t, d)
  <2>1. l \in Rwlocks /\ Held(rwlocks[l], h) /\ W[l] = Granted(y[l])
    BY <1>8, <1>9
  <2>2. rwlocks[l].live
    BY <1>2, <2>1, DeadLock DEF LockOK
  <2>3. Handing(l, y[l], s, c) /\ y[l].live
    BY <1>7, <2>1, <2>2 DEF Left
  <2> QED BY <1>14, <2>1, <2>3, GrantOK
<1>16. ASSUME NEW l \in Rwlocks \ H PROVE LockOK(l, y[l], t, d)
  <2>1. LockOK(l, y[l], s, c) /\ W[l] = {}
    BY <1>7, <1>8, <1>10 DEF Left
  <2> QED BY <1>14, <2>1, LockKept
<1>17. \A l \in Rwlocks : LockOK(l, rwlocks'[l], t, d)
  BY <1>6, <1>15, <1>16
<1>18. rwlocks' = [l \in Rwlocks |-> rwlocks'[l]]
  BY <1>6
<1>19. rwlocks' \in [Rwlocks -> RwlockRecords]
  BY <1>17, <1>18, LocksTyped
<1>20. NoDeadlines(t)
  <2>1. h \notin HandedThreads(W)
    BY <1>2, <1>11, KeyFacts DEF Handed, HandedThreads
  <2>2. u.current = h /\ u.state[h] = "running" /\ NoDeadlines(u)
    BY <1>1, <1>2, <1>12, <2>1 DEF Woken, NoDeadlines
  <2>3. CanLeave(u)
    BY <2>2, HandleFacts DEF CanLeave
  <2> QED BY <1>6, <1>12, <2>2, <2>3, ExitCurrentStates DEF NoDeadlines
<1>21. d \in [Handles -> Calls]
  <2>1. NoCall \in Calls
    BY DEF Calls
  <2> QED BY <1>2, <1>6, <2>1
<1>22. now' \in 0 .. MaxTime
  BY <1>6 DEF IInv, TypeOK
<1> QED BY <1>13, <1>17, <1>19, <1>20, <1>21, <1>22 DEF IInv, TypeOK, t, d

-----------------------------------------------------------------------------
(* The theorems.                                                            *)

\* Every step of the threads and of the host keeps the inductive invariant.
LEMMA NextIInv == IInv /\ [Next]_vars => IInv'
<1> SUFFICES ASSUME IInv, [Next]_vars PROVE IInv'
  OBVIOUS
<1>1. SchedulerOK(sched, WaitKeys) /\ NoDeadlines(sched)
  BY DEF IInv, TypeOK
<1>2. CASE Dispatch /\ UNCHANGED rwlocks
  <2>1. SchedulerOK(sched', WaitKeys) /\ SameSleepers(sched, sched')
    BY <1>1, <1>2, SelectNextOK, SelectNextSleepers DEF Dispatch
  <2> QED BY <1>2, <2>1, SleepersStep DEF Dispatch
<1>3. ASSUME NEW h \in Handles, Relinquish(h), UNCHANGED rwlocks PROVE IInv'
  <2>1. SchedulerOK(sched', WaitKeys) /\ SameSleepers(sched, sched')
    BY <1>1, <1>3, YieldCurrentOK, YieldCurrentSleepers DEF Relinquish
  <2> QED BY <1>3, <2>1, SleepersStep DEF Relinquish
<1>4. ASSUME NEW h \in Handles, NEW l \in Rwlocks, CreateRwlock(h, l) PROVE IInv'
  <2>1. rwlocks[l].waiters = <<>>
    BY <1>4 DEF CreateRwlock, IInv, LockOK, NoRwlock
  <2> DEFINE F == FALSE
             T == TRUE
             R == [g \in Handles |-> 0]
             e == <<>>
  <2>2. /\ T \in BOOLEAN
        /\ NoRwlock = [live |-> F, writer |-> NoThread, readers |-> R, waiters |-> e,
                       granted_readers |-> {}, granted_writer |-> NoThread]
        /\ rwlocks' = [rwlocks EXCEPT ![l] = [NoRwlock EXCEPT !.live = T]]
        /\ UNCHANGED <<sched, now, call>>
    BY <1>4 DEF CreateRwlock, NoRwlock
  <2> HIDE DEF F, T, R, e
  <2>3. [NoRwlock EXCEPT !.live = T] =
          [live |-> T, writer |-> NoThread, readers |-> R, waiters |-> e,
           granted_readers |-> {}, granted_writer |-> NoThread]
    BY <2>2
  <2>4. [NoRwlock EXCEPT !.live = T] =
          [live |-> T, writer |-> NoThread, readers |-> [g \in Handles |-> 0],
           waiters |-> <<>>, granted_readers |-> {}, granted_writer |-> NoThread]
    BY <2>3 DEF R, e
  <2> QED BY <2>1, <2>2, <2>4, ReplaceStep
<1>5. ASSUME NEW h \in Handles, NEW l \in Rwlocks, DestroyRwlock(h, l) PROVE IInv'
  <2>1. rwlocks[l].waiters = <<>> /\ rwlocks' = [rwlocks EXCEPT ![l] = NoRwlock]
        /\ UNCHANGED <<sched, now, call>>
    BY <1>5 DEF DestroyRwlock
  <2>2. FALSE \in BOOLEAN
    OBVIOUS
  <2> QED BY <2>1, <2>2, ReplaceStep DEF NoRwlock
<1>6. CASE UNCHANGED vars
  <2>1. SameSleepers(sched, sched')
    BY <1>6 DEF vars, SameSleepers
  <2> QED BY <1>1, <1>6, <2>1, SleepersStep DEF vars
<1> QED BY <1>2, <1>3, <1>4, <1>5, <1>6, LockStep, UnlockStep, ExitStep
    DEF Next, Operation

\* The inductive invariant holds in every reachable state of the locks.
THEOREM Invariance == Spec => []IInv
<1>1. Init => IInv
  BY InitIInv
<1>2. IInv /\ [Next]_vars => IInv'
  BY NextIInv
<1> QED BY <1>1, <1>2, PTL DEF Spec

\* Scheduler, calls and locks keep their types.
THEOREM TypeCorrect == Spec => []TypeOK
<1>1. IInv => TypeOK
  BY DEF IInv
<1> QED BY <1>1, Invariance, PTL

\* LockRwlock, the grants and the exits never let a writer hold a lock beside a
\* reader, nor a thread that is gone hold one.
THEOREM WriterIsAlone == Spec => []WriterExcludes
<1>1. IInv => WriterExcludes
  BY DEF IInv, LockOK, Handing, WriterExcludes
<1> QED BY <1>1, Invariance, PTL

\* Exactly the queued threads sleep on a lock, each queued once, and never beside
\* a free lock.
THEOREM QueueServes == Spec => []WaitersAreBlocked
<1>1. IInv => WaitersAreBlocked
  <2> SUFFICES ASSUME IInv, NEW l \in Rwlocks
               PROVE  LET q == rwlocks[l].waiters
                      IN  /\ \A i, j \in DOMAIN q : q[i].thread = q[j].thread => i = j
                          /\ QueuedThreads(rwlocks[l]) =
                               {h \in Handles : sched.wait_key[h] = RwlockWaitKey(l, h)}
                          /\ q # <<>> => ~Free(rwlocks[l])
    BY DEF WaitersAreBlocked
  <2>1. LockOK(l, rwlocks[l], sched, call)
    BY DEF IInv
  <2>2. QueuedThreads(rwlocks[l]) \in SUBSET Handles
    BY <2>1, WaiterTypes DEF LockOK, Handing, QueuedThreads
  <2>3. QueuedThreads(rwlocks[l]) =
          {h \in Handles : sched.wait_key[h] = RwlockWaitKey(l, h)}
    BY <2>1, <2>2 DEF LockOK, Handing
  <2> QED BY <2>1, <2>3 DEF LockOK, Handing
<1> QED BY <1>1, Invariance, PTL

\* A grant belongs to an awake thread that holds what it was granted and will
\* repeat the matching call.
THEOREM GrantsAreTaken == Spec => []GrantIsTaken
<1>1. IInv => GrantIsTaken
  BY DEF IInv, LockOK, Handing, GrantIsTaken, Awake
<1> QED BY <1>1, Invariance, PTL

-----------------------------------------------------------------------------
(* The order in which the queue is served.                                  *)

\* From lock state x to y, nobody takes the lock past a queued entry that it
\* must not pass.
NobodyPasses(x, y) ==
  \A i, j \in DOMAIN x.waiters :
    i < j /\ (x.waiters[i].write \/ x.waiters[j].write) =>
      ~Held(y, x.waiters[j].thread)

\* A step after which no queued thread holds the lock lets nobody pass.
LEMMA NobodyTakes ==
  ASSUME NEW l, NEW x, NEW s, NEW c, LockOK(l, x, s, c), NEW y,
         \A g \in QueuedThreads(x) : Held(y, g) => Held(x, g)
  PROVE  NobodyPasses(x, y)
BY DEF LockOK, Handing, NobodyPasses, QueuedThreads

\* The hand-over goes to the front of the queue: a writer alone, or readers with
\* no writer among them.
LEMMA GrantInOrder ==
  ASSUME NEW l, NEW x, NEW s, NEW c, Handing(l, x, s, c)
  PROVE  NobodyPasses(x, GrantWaiters(x))
<1> DEFINE n == GrantCount(x)
           y == GrantWaiters(x)
           q == x.waiters
<1>1. /\ x \in RwlockRecords /\ n \in 0 .. Len(q) /\ Len(q) \in Nat /\ DOMAIN q = 1 .. Len(q)
      /\ \A i \in DOMAIN q : q[i].thread \in Handles /\ ~Held(x, q[i].thread)
      /\ \A i, j \in DOMAIN q : q[i].thread = q[j].thread => i = j
      /\ n # 0 /\ q[1].write => n = 1
      /\ n # 0 /\ ~q[1].write => \A i \in 1 .. n : ~q[i].write
  BY GrantCountFacts, WaiterTypes DEF Handing
<1>2. \A j \in DOMAIN q : q[j].thread \in Granted(x) => j \in 1 .. n
  <2> SUFFICES ASSUME NEW j \in DOMAIN q, NEW i \in 1 .. n, q[j].thread = q[i].thread
               PROVE  j \in 1 .. n
    BY DEF Granted
  <2>1. i \in DOMAIN q
    BY <1>1
  <2> QED BY <1>1, <2>1
<1>3. \A g \in Handles : Held(y, g) => Held(x, g) \/ g \in Granted(x)
  <2> HIDE DEF n
  <2>1. CASE n = 0
    BY <1>1, <2>1, GrantNobody DEF n
  <2>2. CASE n # 0 /\ q[1].write
    <3>1. /\ y.writer = q[1].thread /\ y.readers = x.readers
          /\ Granted(x) = {q[1].thread}
      BY <1>1, <2>2, GrantWriter DEF n, RwlockRecords
    <3> QED BY <3>1 DEF Held
  <2>3. CASE n # 0 /\ ~q[1].write
    <3>1. /\ y.writer = x.writer
          /\ \A g \in Handles : y.readers[g] = IF g \in Granted(x) THEN 1 ELSE x.readers[g]
      <4> DEFINE R == [g \in Handles |-> IF g \in Granted(x) THEN 1 ELSE x.readers[g]]
      <4>1. y = [x EXCEPT !.readers = R,
                          !.granted_readers = x.granted_readers \cup Granted(x),
                          !.waiters = SubSeq(q, n + 1, Len(q))]
        BY <1>1, <2>3, GrantReaders DEF n
      <4> HIDE DEF R, y
      <4>2. y.writer = x.writer /\ y.readers = R
        BY <1>1, <4>1 DEF RwlockRecords
      <4> QED BY <4>2 DEF R
    <3> QED BY <3>1 DEF Held
  <2> QED BY <2>1, <2>2, <2>3
<1> SUFFICES ASSUME NEW i \in DOMAIN q, NEW j \in DOMAIN q, i < j,
                    q[i].write \/ q[j].write, Held(y, q[j].thread)
             PROVE  FALSE
  BY DEF NobodyPasses
<1>4. j \in 1 .. n
  BY <1>1, <1>2, <1>3
<1>5. i \in 1 .. n /\ n # 0 /\ n # 1
  BY <1>1, <1>4
<1> QED BY <1>1, <1>4, <1>5

\* LockRwlock gives the lock to its caller, who is not queued, or to nobody.
LEMMA LockTakes ==
  ASSUME NEW x \in RwlockRecords, NEW h \in Handles, NEW write, NEW try_only,
         NEW g \in Handles, g # h, Held(AfterLock(x, h, write, try_only), g)
  PROVE  Held(x, g)
<1> DEFINE st == RwlockStatus(x, h, write, try_only)
           y == AfterLock(x, h, write, try_only)
<1>1. \/ y = x
      \/ y = [x EXCEPT !.waiters = Append(@, [thread |-> h, write |-> write])]
      \/ y = [x EXCEPT !.granted_writer = NoThread]
      \/ y = [x EXCEPT !.writer = h]
      \/ y = [x EXCEPT !.granted_readers = @ \ {h}]
      \/ y = [x EXCEPT !.readers[h] = @ + 1]
  BY DEF AfterLock
<1> HIDE DEF y
<1>2. /\ y.writer = x.writer \/ y.writer = h
      /\ y.readers[g] = x.readers[g]
  BY <1>1 DEF RwlockRecords
<1> QED BY <1>2 DEF Held, y

\* What Left keeps of the order of the queue.
LEMMA LeftInOrder ==
  ASSUME NEW l, NEW x, NEW y, NEW h, NEW s, NEW c, LockOK(l, x, s, c),
         Left(l, x, y, h, s, c), NEW z, NobodyPasses(y, z)
  PROVE  NobodyPasses(x, z)
<1>1. PICK idx \in [DOMAIN y.waiters -> DOMAIN x.waiters] :
        /\ \A k \in DOMAIN y.waiters : y.waiters[k] = x.waiters[idx[k]]
        /\ \A k, m \in DOMAIN y.waiters : k < m => idx[k] < idx[m]
        /\ \A i \in DOMAIN x.waiters : \E k \in DOMAIN y.waiters : idx[k] = i
  BY DEF Left, Picks
<1>2. /\ DOMAIN x.waiters = 1 .. Len(x.waiters) /\ Len(x.waiters) \in Nat
      /\ DOMAIN y.waiters = 1 .. Len(y.waiters) /\ Len(y.waiters) \in Nat
  BY WaiterTypes DEF LockOK, Handing, Left
<1> SUFFICES ASSUME NEW i \in DOMAIN x.waiters, NEW j \in DOMAIN x.waiters, i < j,
                    x.waiters[i].write \/ x.waiters[j].write
             PROVE  ~Held(z, x.waiters[j].thread)
  BY DEF NobodyPasses
<1>3. PICK k \in DOMAIN y.waiters : idx[k] = i
  BY <1>1
<1>4. PICK m \in DOMAIN y.waiters : idx[m] = j
  BY <1>1
<1>5. k < m
  <2>1. k \in Nat /\ m \in Nat /\ i \in Nat /\ j \in Nat /\ ~(j < i) /\ i # j
    BY <1>2
  <2>2. k # m /\ ~(m < k)
    BY <1>1, <1>3, <1>4, <2>1
  <2> QED BY <2>1, <2>2
<1>6. y.waiters[k] = x.waiters[i] /\ y.waiters[m] = x.waiters[j]
  BY <1>1, <1>3, <1>4
<1> QED BY <1>5, <1>6 DEF NobodyPasses

\* No step lets a thread take a lock past an entry of the queue.
LEMMA StepInOrder ==
  ASSUME IInv, [Next]_vars, NEW l \in Rwlocks
  PROVE  NobodyPasses(rwlocks[l], rwlocks'[l])
<1> DEFINE x == rwlocks[l]
           y == rwlocks'[l]
<1>1. /\ LockOK(l, x, sched, call) /\ rwlocks \in [Rwlocks -> RwlockRecords]
      /\ x \in RwlockRecords /\ QueuedThreads(x) \in SUBSET Handles
  <2>1. LockOK(l, x, sched, call) /\ rwlocks \in [Rwlocks -> RwlockRecords]
    BY DEF IInv, TypeOK
  <2>2. x \in RwlockRecords
    BY <2>1
  <2> QED BY <2>1, <2>2, WaiterTypes DEF QueuedThreads
<1>2. CASE x = y
  BY <1>1, <1>2, NobodyTakes
<1>3. ASSUME NEW h \in Handles, NEW m \in Rwlocks, NEW write \in BOOLEAN,
             NEW try_only \in BOOLEAN, LockRwlock(h, m, write, try_only), m = l
      PROVE  NobodyPasses(x, y)
  <2>1. y = AfterLock(x, h, write, try_only)
    BY <1>1, <1>3 DEF LockRwlock
  <2>2. sched.wait_key[h] = NoKey
    BY <1>3, CallerFacts DEF LockRwlock, MayCall
  <2>3. h \notin QueuedThreads(x)
    BY <1>1, <2>2, KeyFacts DEF LockOK, Handing
  <2>4. \A g \in QueuedThreads(x) : Held(y, g) => Held(x, g)
    BY <1>1, <2>1, <2>3, LockTakes
  <2> QED BY <1>1, <2>4, NobodyTakes
<1>4. ASSUME NEW h \in Handles, UnlockRwlock(h, l)
      PROVE  NobodyPasses(x, y)
  <2> DEFINE z == Unlocked(x, h)
  <2>1. y = GrantWaiters(z) /\ Held(x, h) /\ call[h] = NoCall
    BY <1>1, <1>4 DEF UnlockRwlock, MayCall
  <2>2. Handing(l, z, sched, call)
    BY <1>1, <2>1, UnlockedOK
  <2>3. z.waiters = x.waiters
    BY <1>1 DEF Unlocked, RwlockRecords
  <2>4. NobodyPasses(z, y)
    BY <2>1, <2>2, GrantInOrder
  <2> HIDE DEF z
  <2> QED BY <2>3, <2>4 DEF NobodyPasses
<1>5. ASSUME NEW h \in Handles, Exit(h)
      PROVE  NobodyPasses(x, y)
  <2> DEFINE z == Abandoned(x, h)
  <2>1. y = IF Held(x, h) THEN GrantWaiters(z) ELSE z
    BY <1>5 DEF Exit
  <2>2. sched.wait_key[h] = NoKey
    BY <1>5, CallerFacts DEF Exit
  <2>3. Left(l, x, z, h, sched, call)
    BY <1>1, <2>2, AbandonedOK
  <2> HIDE DEF z
  <2>4. CASE y = z
    <3>1. \A g \in QueuedThreads(x) : Held(y, g) => Held(x, g)
      BY <1>1, <2>3, <2>4 DEF Left
    <3> QED BY <1>1, <3>1, NobodyTakes
  <2>5. CASE y = GrantWaiters(z)
    <3>1. NobodyPasses(z, y)
      BY <2>3, <2>5, GrantInOrder DEF Left
    <3> QED BY <1>1, <2>3, <3>1, LeftInOrder
  <2> QED BY <2>1, <2>4, <2>5
<1>6. ASSUME x.waiters = <<>> PROVE NobodyPasses(x, y)
  BY <1>6 DEF NobodyPasses
<1>7. ASSUME NEW h \in Handles, NEW m \in Rwlocks, CreateRwlock(h, m) PROVE NobodyPasses(x, y)
  <2>1. CASE m = l
    BY <1>1, <1>6, <1>7, <2>1 DEF CreateRwlock, LockOK, NoRwlock
  <2>2. CASE m # l
    BY <1>1, <1>2, <1>7, <2>2 DEF CreateRwlock
  <2> QED BY <2>1, <2>2
<1>8. ASSUME NEW h \in Handles, NEW m \in Rwlocks, DestroyRwlock(h, m) PROVE NobodyPasses(x, y)
  BY <1>1, <1>2, <1>6, <1>8 DEF DestroyRwlock
<1>9. ASSUME NEW h \in Handles, NEW m \in Rwlocks, NEW write \in BOOLEAN,
             NEW try_only \in BOOLEAN, LockRwlock(h, m, write, try_only)
      PROVE  NobodyPasses(x, y)
  <2>1. CASE m # l
    BY <1>1, <1>2, <1>9, <2>1 DEF LockRwlock
  <2> QED BY <1>3, <1>9, <2>1
<1>10. ASSUME NEW h \in Handles, NEW m \in Rwlocks, UnlockRwlock(h, m)
       PROVE  NobodyPasses(x, y)
  <2>1. CASE m # l
    BY <1>1, <1>2, <1>10, <2>1 DEF UnlockRwlock
  <2> QED BY <1>4, <1>10, <2>1
<1>11. CASE UNCHANGED rwlocks
  BY <1>2, <1>11
<1> QED BY <1>5, <1>7, <1>8, <1>9, <1>10, <1>11 DEF Next, Operation, vars

\* The queue is served in order: whoever is queued gets the lock only once every
\* writer in front of it is gone, and a writer once everybody is.
THEOREM QueueInOrder == Spec => ServedInOrder
<1>1. IInv /\ [Next]_vars =>
        [\A l \in Rwlocks :
           LET q == rwlocks[l].waiters
           IN  \A i, j \in DOMAIN q :
                 (i < j /\ (q[i].write \/ q[j].write)
                    /\ Held(rwlocks'[l], q[j].thread)) =>
                   q[i].thread \notin QueuedThreads(rwlocks'[l])]_vars
  BY StepInOrder DEF NobodyPasses
<1> QED BY <1>1, Invariance, PTL DEF Spec, ServedInOrder
=============================================================================

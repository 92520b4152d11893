------------------------ MODULE GuestSchedulerProofs ------------------------
(***************************************************************************)
(* The scheduler's invariants for every number of threads, every set of    *)
(* wait keys and every length of the clock.                                *)
(***************************************************************************)
EXTENDS GuestScheduler, SchedulerLemmas

\* JoinThread waits without a deadline, and no other wait has its keys.
UntimedJoins(s) ==
  \A h, g \in Handles :
    s.wait_key[h] = ThreadExitWaitKey(g) => s.deadline[h] = NoDeadline

\* The scheduler is consistent and only handles that were given out are in use,
\* which is what lets CreateThread rely on a fresh handle.
Books == /\ SchedulerOK(sched, WaitKeys)
         /\ now \in 0 .. MaxTime
         /\ allocated \in 0 .. MaxHandle
         /\ UnallocatedAbsent

\* The inductive invariant.  UntimedJoins is why ExitCurrent, which alone wakes
\* threads without a look at the clock, wakes nobody whose time is up.
IInv == Books /\ UntimedJoins(sched)

\* No operation but CreateThread brings a handle into use.
LEMMA AbsentStays ==
  ASSUME NEW K, NEW s, SchedulerOK(s, K), NEW h \in Handles,
         s.state[h] = "absent", NEW time
  PROVE  /\ SelectNext(s, time).state[h] = "absent"
         /\ \A key, n : WakeBlockedThreads(s, key, n, time).state[h] = "absent"
         /\ \A g, key : WakeBlockedThread(s, g, key, time).state[h] = "absent"
<1> DEFINE w == WakeExpiredThreads(s, time)
           t == SelectNext(s, time)
<1>1. s.state \in [Handles -> ThreadStates]
  BY DEF SchedulerOK, SchedulerType
<1>2. w.state \in [Handles -> ThreadStates] /\ w.state[h] = "absent"
  BY <1>1 DEF WakeExpiredThreads, MakeReady, Expired, ThreadStates
<1>3. t.state[h] = "absent"
  <2>1. CASE s.current # NoThread
    BY <2>1 DEF SelectNext
  <2>2. CASE s.current = NoThread
    <3> DEFINE g == w.ready[1]
               q == SubSeq(w.ready, 2, Len(w.ready))
    <3> HIDE DEF w, t
    <3>1. /\ SchedulerOK(w, K)
          /\ t = w \/ (g \in InState(w, "ready") /\ t = Dispatched(w, g, q))
      BY <2>2, SelectNextEffect DEF w, t
    <3>2. g \in InState(w, "ready") => g # h /\ g \in Handles
      BY <1>2 DEF InState
    <3>3. w \in SchedulerType(K) /\ q \in Seq(Handles)
      BY <3>1 DEF SchedulerOK, SchedulerType
    <3> HIDE DEF g, q
    <3>4. CASE t = w
      BY <3>4, <1>2
    <3>5. CASE t # w
      <4>1. t = Dispatched(w, g, q) /\ g \in Handles /\ g # h
        BY <3>1, <3>2, <3>5
      <4>2. t.state[h] = w.state[h]
        BY <3>3, <4>1, DispatchedFields
      <4> QED BY <1>2, <4>2
    <3> QED BY <3>4, <3>5
  <2> QED BY <2>1, <2>2
<1>4. ASSUME NEW key, NEW n
      PROVE  WakeBlockedThreads(s, key, n, time).state[h] = "absent"
  BY <1>2 DEF WakeBlockedThreads, MakeReady, BlockedOn
<1>5. ASSUME NEW g, NEW key
      PROVE  WakeBlockedThread(s, g, key, time).state[h] = "absent"
  BY <1>2 DEF WakeBlockedThread, MakeReady, BlockedOn
<1> QED BY <1>3, <1>4, <1>5

\* The same for the operations of the running thread and for Discard.
LEMMA AbsentStaysRunning ==
  ASSUME NEW K, NEW s, SchedulerOK(s, K), NEW h \in Handles,
         s.state[h] = "absent"
  PROVE  /\ YieldCurrent(s).state[h] = "absent"
         /\ \A k, d : BlockCurrentUntil(s, k, d).state[h] = "absent"
         /\ \A g : JoinThread(s, g).state[h] = "absent"
         /\ ExitCurrent(s).state[h] = "absent"
         /\ \A k : ConsumeCurrentThreadTimeout(s, k).state[h] = "absent"
         /\ \A g \in Handles : DiscardReadyThread(s, g).state[h] = "absent"
<1>1. s \in SchedulerType(K) /\ s.state \in [Handles -> ThreadStates]
  BY DEF SchedulerOK, SchedulerType
<1>2. CanLeave(s) => s.current # h /\ s.state[s.current] = "running"
  BY DEF CanLeave
<1>3. YieldCurrent(s).state[h] = "absent"
  BY <1>1, <1>2 DEF YieldCurrent, SchedulerType
<1>4. \A k, d : BlockCurrentUntil(s, k, d).state[h] = "absent"
  BY <1>1, <1>2 DEF BlockCurrentUntil, SchedulerType
<1>5. \A g : JoinThread(s, g).state[h] = "absent"
  BY <1>4 DEF JoinThread, BlockCurrent
<1>6. ExitCurrent(s).state[h] = "absent"
  BY <1>1, <1>2 DEF ExitCurrent, MakeReady, BlockedOn, SchedulerType
<1>7. \A k : ConsumeCurrentThreadTimeout(s, k).state[h] = "absent"
  BY <1>1 DEF ConsumeCurrentThreadTimeout, SchedulerType
<1>8. \A g \in Handles : DiscardReadyThread(s, g).state[h] = "absent"
  BY <1>1 DEF DiscardReadyThread, SchedulerType
<1> QED BY <1>3, <1>4, <1>5, <1>6, <1>7, <1>8

-----------------------------------------------------------------------------
(* How waits end.                                                           *)

\* From s to t waits only end, and each one that ends in a wake-up ends as timed
\* out exactly when its deadline has come.
WaitsEndInTime(s, t, time) ==
  \A h \in Handles :
    /\ \/ t.wait_key[h] = NoKey
       \/ t.wait_key[h] = s.wait_key[h] /\ t.deadline[h] = s.deadline[h]
    /\ s.state[h] = "blocked" /\ t.state[h] # "blocked" =>
         t.timed_out[h] = IF h \in Expired(s, time) THEN s.wait_key[h] ELSE NoKey

\* A step under which waits only end keeps the joins untimed.
LEMMA UntimedJoinsKept ==
  ASSUME NEW s, NEW t, NEW time, WaitsEndInTime(s, t, time), UntimedJoins(s)
  PROVE  UntimedJoins(t)
BY ThreadExitKeyFacts DEF WaitsEndInTime, UntimedJoins

\* WakeExpiredThreads: every thread it wakes is timed out, every thread that it
\* leaves asleep is not due.
LEMMA ExpiryInTime ==
  ASSUME NEW K, NEW s, SchedulerOK(s, K), NEW time, NEW w,
         w = WakeExpiredThreads(s, time)
  PROVE  /\ WaitsEndInTime(s, w, time)
         /\ \A h \in Handles :
              w.state[h] = "blocked" => /\ s.state[h] = "blocked"
                                        /\ h \notin Expired(s, time)
BY DEF WaitsEndInTime, WakeExpiredThreads, MakeReady, Expired

\* A wake-up after the expired waits were retired.
LEMMA WakeInTime ==
  ASSUME NEW K, NEW s, SchedulerOK(s, K), NEW time, NEW w,
         w = WakeExpiredThreads(s, time), NEW W \in SUBSET InState(w, "blocked"),
         NEW t, t = MakeReady(w, W, NoTimeout)
  PROVE  WaitsEndInTime(s, t, time)
<1>1. /\ WaitsEndInTime(s, w, time)
      /\ \A h \in Handles :
           w.state[h] = "blocked" => s.state[h] = "blocked" /\ h \notin Expired(s, time)
  BY ExpiryInTime
<1>2. \A h \in Handles :
        /\ t.state[h] = IF h \in W THEN "ready" ELSE w.state[h]
        /\ t.wait_key[h] = IF h \in W THEN NoKey ELSE w.wait_key[h]
        /\ t.deadline[h] = IF h \in W THEN NoDeadline ELSE w.deadline[h]
        /\ t.timed_out[h] = IF h \in W THEN NoKey ELSE w.timed_out[h]
  BY DEF MakeReady, NoTimeout
<1>3. \A h \in W : h \in Handles /\ w.state[h] = "blocked"
  BY DEF InState
<1> QED BY <1>1, <1>2, <1>3 DEF WaitsEndInTime

\* SelectNext retires expired waits and wakes nobody else.
LEMMA SelectInTime ==
  ASSUME NEW K, NEW s, SchedulerOK(s, K), NEW time, s.current = NoThread
  PROVE  WaitsEndInTime(s, SelectNext(s, time), time)
<1> DEFINE w == WakeExpiredThreads(s, time)
           t == SelectNext(s, time)
           g == w.ready[1]
           q == SubSeq(w.ready, 2, Len(w.ready))
<1>1. WaitsEndInTime(s, w, time)
  BY ExpiryInTime
<1> HIDE DEF w, t
<1>2. /\ SchedulerOK(w, K)
      /\ t = w \/ (g \in InState(w, "ready") /\ t = Dispatched(w, g, q))
  BY SelectNextEffect DEF w, t
<1>3. w \in SchedulerType(K) /\ q \in Seq(Handles)
  BY <1>2 DEF SchedulerOK, SchedulerType
<1>4. CASE t = w
  BY <1>1, <1>4 DEF t
<1>5. CASE t # w
  <2>1. g \in Handles /\ w.state[g] = "ready" /\ t = Dispatched(w, g, q)
    BY <1>2, <1>5 DEF InState
  <2> HIDE DEF g, q
  <2>2. /\ \A h \in Handles : t.state[h] = IF h = g THEN "running" ELSE w.state[h]
        /\ t.wait_key = w.wait_key /\ t.deadline = w.deadline /\ t.timed_out = w.timed_out
    BY <1>3, <2>1, DispatchedFields
  <2>3. WaitsEndInTime(s, t, time)
    BY <1>1, <2>1, <2>2 DEF WaitsEndInTime
  <2> QED BY <2>3 DEF t
<1> QED BY <1>4, <1>5

\* WakeBlockedThreads and WakeBlockedThread retire expired waits first: a wake
\* that comes with the deadline comes too late.
LEMMA WakesInTime ==
  ASSUME NEW K, NEW s, SchedulerOK(s, K), NEW time
  PROVE  /\ \A key, n : WaitsEndInTime(s, WakeBlockedThreads(s, key, n, time), time)
         /\ \A h, key : WaitsEndInTime(s, WakeBlockedThread(s, h, key, time), time)
<1>1. WaitsEndInTime(s, s, time)
  BY DEF WaitsEndInTime
<1> DEFINE w == WakeExpiredThreads(s, time)
<1>2. ASSUME NEW key, NEW n
      PROVE  WaitsEndInTime(s, WakeBlockedThreads(s, key, n, time), time)
  <2> DEFINE B == BlockedOn(w, key)
             W == {h \in B : Cardinality({g \in B : g < h}) < n}
  <2>1. W \in SUBSET InState(w, "blocked")
    BY DEF BlockedOn, InState
  <2>2. WaitsEndInTime(s, MakeReady(w, W, NoTimeout), time)
    <3> HIDE DEF W
    <3> QED BY <2>1, WakeInTime
  <2> QED BY <1>1, <2>2 DEF WakeBlockedThreads
<1>3. ASSUME NEW h, NEW key
      PROVE  WaitsEndInTime(s, WakeBlockedThread(s, h, key, time), time)
  <2> DEFINE W == BlockedOn(w, key) \cap {h}
  <2>1. W \in SUBSET InState(w, "blocked")
    BY DEF BlockedOn, InState
  <2>2. WaitsEndInTime(s, MakeReady(w, W, NoTimeout), time)
    <3> HIDE DEF W
    <3> QED BY <2>1, WakeInTime
  <2> QED BY <1>1, <2>2 DEF WakeBlockedThread
<1> QED BY <1>2, <1>3

\* The operations of the running thread, CreateThread and DiscardReadyThread end
\* no wait; ExitCurrent ends the joiners', who have no deadline.
LEMMA OthersInTime ==
  ASSUME NEW K, NEW s, SchedulerOK(s, K), UntimedJoins(s), NEW time
  PROVE  /\ WaitsEndInTime(s, YieldCurrent(s), time)
         /\ WaitsEndInTime(s, ExitCurrent(s), time)
         /\ \A key : WaitsEndInTime(s, ConsumeCurrentThreadTimeout(s, key), time)
         /\ \A h \in Handles : WaitsEndInTime(s, DiscardReadyThread(s, h), time)
         /\ \A h \in Handles : s.state[h] = "absent" =>
              WaitsEndInTime(s, CreateThread(s, h), time)
<1> USE DEF WaitsEndInTime
<1>1. s \in SchedulerType(K) /\ WaitsOK(s)
  BY DEF SchedulerOK
<1>2. WaitsEndInTime(s, YieldCurrent(s), time)
  BY <1>1 DEF YieldCurrent, CanLeave, SchedulerType
<1>3. \A key : WaitsEndInTime(s, ConsumeCurrentThreadTimeout(s, key), time)
  BY <1>1 DEF ConsumeCurrentThreadTimeout, SchedulerType
<1>4. \A h \in Handles : WaitsEndInTime(s, DiscardReadyThread(s, h), time)
  BY <1>1 DEF DiscardReadyThread, SchedulerType
<1>5. \A h \in Handles : s.state[h] = "absent" => WaitsEndInTime(s, CreateThread(s, h), time)
  BY <1>1 DEF CreateThread, SchedulerType
<1>6. WaitsEndInTime(s, ExitCurrent(s), time)
  <2>1. CASE ~CanLeave(s)
    BY <2>1 DEF ExitCurrent
  <2>2. CASE CanLeave(s)
    <3> DEFINE c == s.current
               t == ExitCurrent(s)
               J == BlockedOn(s, ThreadExitWaitKey(c))
    <3>1. c \in Handles /\ s.state[c] = "running"
      BY <1>1, <2>2 DEF CanLeave, SchedulerType
    <3>2. \A h \in Handles :
            /\ t.state[h] = IF h \in J THEN "ready" ELSE IF h = c THEN "exited" ELSE s.state[h]
            /\ t.wait_key[h] = IF h \in J \/ h = c THEN NoKey ELSE s.wait_key[h]
            /\ t.deadline[h] = IF h \in J \/ h = c THEN NoDeadline ELSE s.deadline[h]
      BY <2>2, ExitCurrentStates
    <3>3. \A h \in J : t.timed_out[h] = NoKey
      BY <1>1, <2>2 DEF ExitCurrent, MakeReady, NoTimeout, BlockedOn
    <3>4. \A h \in J : h \in Handles /\ h \notin Expired(s, time)
      BY <3>1 DEF UntimedJoins, BlockedOn, Expired
    <3> HIDE DEF t, J, c
    <3>5. WaitsEndInTime(s, t, time)
      BY <3>1, <3>2, <3>3, <3>4
    <3> QED BY <3>5 DEF t
  <2> QED BY <2>1, <2>2
<1> QED BY <1>2, <1>3, <1>4, <1>5, <1>6

\* A service blocks under its own key; a join without a deadline.
LEMMA BlocksInTime ==
  ASSUME NEW K, NEW s, SchedulerOK(s, K), UntimedJoins(s), NEW key, NEW d,
         d = NoDeadline \/ \A h \in Handles : key # ThreadExitWaitKey(h), NEW time,
         NEW t, t = BlockCurrentUntil(s, key, d)
  PROVE  /\ UntimedJoins(t)
         /\ \A h \in Handles : ~(s.state[h] = "blocked" /\ t.state[h] # "blocked")
<1>1. CASE t = s
  BY <1>1
<1>2. CASE t # s
  <2>1. key # NoKey /\ CanLeave(s)
    BY <1>2 DEF BlockCurrentUntil
  <2>2. \A h \in Handles :
          /\ t.state[h] = IF h = s.current THEN "blocked" ELSE s.state[h]
          /\ t.wait_key[h] = IF h = s.current THEN key ELSE s.wait_key[h]
          /\ t.deadline[h] = IF h = s.current THEN d ELSE s.deadline[h]
    BY <2>1, BlockCurrentStates
  <2> QED BY <2>2 DEF UntimedJoins
<1> QED BY <1>1, <1>2

\* A scheduler that has just been built satisfies the inductive invariant.
LEMMA InitIInv == Init => IInv
<1> SUFFICES ASSUME Init PROVE IInv
  OBVIOUS
<1>1. /\ sched = EmptyScheduler /\ now = 0 /\ allocated = 0
      /\ MaxHandle \in Nat /\ MaxTime \in Nat
  BY MaxHandleAssumption, MaxTimeAssumption DEF Init
<1>2. sched \in SchedulerType(WaitKeys)
  BY <1>1 DEF EmptyScheduler, SchedulerType, ThreadStates
<1>3. QueueExact(sched) /\ WaitsOK(sched)
  BY <1>1 DEF EmptyScheduler, QueueExact, WaitsOK
<1>4. OneRunning(sched)
  BY <1>1 DEF EmptyScheduler, OneRunning, Handles, NoThread
<1>5. NoJoinerMissed(sched)
  BY <1>1 DEF EmptyScheduler, NoJoinerMissed
<1>6. UnallocatedAbsent
  BY <1>1 DEF EmptyScheduler, UnallocatedAbsent
<1>7. UntimedJoins(sched)
  BY <1>1 DEF EmptyScheduler, UntimedJoins
<1> QED BY <1>1, <1>2, <1>3, <1>4, <1>5, <1>6, <1>7 DEF IInv, Books, SchedulerOK

\* Every call of the scheduler keeps the books: one case per call,
\* each from the lemma about its operation.
LEMMA NextBooks == Books /\ [Next]_vars => Books'
<1> SUFFICES ASSUME Books, [Next]_vars PROVE Books'
  OBVIOUS
<1> USE DEF Books
<1>1. /\ SchedulerOK(sched, WaitKeys)
      /\ \A h \in Handles : h > allocated => sched.state[h] = "absent"
  BY DEF UnallocatedAbsent
<1>2. MaxHandle \in Nat /\ MaxTime \in Nat
  BY MaxHandleAssumption, MaxTimeAssumption
<1>3. CASE Create
  <2>1. allocated + 1 \in Handles /\ sched.state[allocated + 1] = "absent"
    BY <1>1, <1>2, <1>3 DEF Create, Handles
  <2>2. SchedulerOK(sched', WaitKeys)
    BY <1>1, <1>3, <2>1, CreateThreadOK DEF Create
  <2>3. \A h \in Handles : h > allocated' => sched'.state[h] = "absent"
    BY <1>1, <1>2, <1>3, <2>1 DEF Create, CreateThread, SchedulerOK,
       SchedulerType, Handles
  <2> QED BY <1>2, <1>3, <2>2, <2>3 DEF Create, UnallocatedAbsent
<1>4. ASSUME NEW h \in Handles, Discard(h) PROVE Books'
  BY <1>1, <1>4, DiscardReadyThreadOK, AbsentStaysRunning
     DEF Discard, UnallocatedAbsent
<1>5. CASE Select
  BY <1>1, <1>5, SelectNextOK, AbsentStays DEF Select, UnallocatedAbsent
<1>6. CASE Yield
  BY <1>1, <1>6, YieldCurrentOK, AbsentStaysRunning
     DEF Yield, UnallocatedAbsent
<1>7. ASSUME NEW key \in ServiceKeys, NEW d \in Deadlines, Block(key, d)
      PROVE  Books'
  <2>1. key \in WaitKeys /\ \A h \in Handles : key # ThreadExitWaitKey(h)
    BY ServiceKeysAssumption DEF WaitKeys
  <2>2. d \in Nat \cup {NoDeadline}
    BY <1>2 DEF Deadlines
  <2>3. SchedulerOK(sched', WaitKeys)
    BY <1>1, <1>7, <2>1, <2>2, BlockCurrentUntilOK DEF Block
  <2> QED BY <1>1, <1>7, <2>3, AbsentStaysRunning DEF Block, UnallocatedAbsent
<1>8. ASSUME NEW key \in ServiceKeys, NEW n \in Handles, Wake(key, n)
      PROVE  Books'
  BY <1>1, <1>8, WakeBlockedThreadsOK, AbsentStays DEF Wake, UnallocatedAbsent
<1>9. ASSUME NEW h \in Handles, NEW key \in ServiceKeys, WakeOne(h, key)
      PROVE  Books'
  BY <1>1, <1>9, WakeBlockedThreadOK, AbsentStays
     DEF WakeOne, UnallocatedAbsent
<1>10. ASSUME NEW h \in Handles, Join(h) PROVE Books'
  <2>1. ThreadExitWaitKey(h) \in WaitKeys
    BY DEF WaitKeys
  <2> QED BY <1>1, <1>10, <2>1, JoinThreadOK, AbsentStaysRunning
         DEF Join, UnallocatedAbsent
<1>11. CASE Exit
  BY <1>1, <1>11, ExitCurrentOK, AbsentStaysRunning DEF Exit, UnallocatedAbsent
<1>12. ASSUME NEW key \in ServiceKeys, ConsumeTimeout(key) PROVE Books'
  BY <1>1, <1>12, ConsumeTimeoutOK, AbsentStaysRunning
     DEF ConsumeTimeout, UnallocatedAbsent
<1>13. CASE Tick
  BY <1>1, <1>2, <1>13 DEF Tick, UnallocatedAbsent
<1>14. CASE UNCHANGED vars
  BY <1>1, <1>14 DEF vars, UnallocatedAbsent
<1> QED BY <1>3, <1>4, <1>5, <1>6, <1>7, <1>8, <1>9, <1>10, <1>11, <1>12,
           <1>13, <1>14 DEF Next

\* What TimeoutWins asks of a step, and what it rests on.
EndsInTime ==
  /\ UntimedJoins(sched')
  /\ \A h \in Handles :
       (sched.state[h] = "blocked" /\ sched'.state[h] # "blocked") =>
          sched'.timed_out[h] =
            IF h \in Expired(sched, now) THEN sched.wait_key[h] ELSE NoKey

\* Every call of the scheduler ends waits only in time, and starts none under a
\* join's key with a deadline.
LEMMA NextInTime ==
  ASSUME IInv, [Next]_vars
  PROVE  EndsInTime
<1>1. SchedulerOK(sched, WaitKeys) /\ UntimedJoins(sched)
  BY DEF IInv, Books
<1>2. ASSUME WaitsEndInTime(sched, sched', now) PROVE EndsInTime
  BY <1>1, <1>2, UntimedJoinsKept DEF WaitsEndInTime, EndsInTime
<1>3. ASSUME NEW key, NEW d, d = NoDeadline \/ \A h \in Handles : key # ThreadExitWaitKey(h),
             sched' = BlockCurrentUntil(sched, key, d)
      PROVE  EndsInTime
  BY <1>1, <1>3, BlocksInTime DEF EndsInTime
<1>4. ASSUME sched' = sched PROVE EndsInTime
  BY <1>1, <1>4 DEF EndsInTime
<1>5. CASE Create
  <2>1. allocated + 1 \in Handles /\ sched.state[allocated + 1] = "absent"
    BY <1>5, MaxHandleAssumption DEF IInv, Books, Create, Handles, UnallocatedAbsent
  <2>2. WaitsEndInTime(sched, sched', now)
    BY <1>1, <1>5, <2>1, OthersInTime DEF Create
  <2> QED BY <1>2, <2>2
<1>6. ASSUME NEW h \in Handles, Discard(h) PROVE EndsInTime
  <2>1. WaitsEndInTime(sched, sched', now)
    BY <1>1, <1>6, OthersInTime DEF Discard
  <2> QED BY <1>2, <2>1
<1>7. CASE Select
  <2>1. WaitsEndInTime(sched, sched', now)
    BY <1>1, <1>7, SelectInTime DEF Select
  <2> QED BY <1>2, <2>1
<1>8. CASE Yield
  <2>1. WaitsEndInTime(sched, sched', now)
    BY <1>1, <1>8, OthersInTime DEF Yield
  <2> QED BY <1>2, <2>1
<1>9. ASSUME NEW key \in ServiceKeys, NEW d \in Deadlines, Block(key, d) PROVE EndsInTime
  <2>1. \A h \in Handles : key # ThreadExitWaitKey(h)
    BY ServiceKeysAssumption
  <2> QED BY <1>3, <1>9, <2>1 DEF Block
<1>10. ASSUME NEW key \in ServiceKeys, NEW n \in Handles, Wake(key, n) PROVE EndsInTime
  <2>1. WaitsEndInTime(sched, sched', now)
    BY <1>1, <1>10, WakesInTime DEF Wake
  <2> QED BY <1>2, <2>1
<1>11. ASSUME NEW h \in Handles, NEW key \in ServiceKeys, WakeOne(h, key) PROVE EndsInTime
  <2>1. WaitsEndInTime(sched, sched', now)
    BY <1>1, <1>11, WakesInTime DEF WakeOne
  <2> QED BY <1>2, <2>1
<1>12. ASSUME NEW h \in Handles, Join(h) PROVE EndsInTime
  BY <1>3, <1>12 DEF Join, JoinThread, BlockCurrent
<1>13. CASE Exit
  <2>1. WaitsEndInTime(sched, sched', now)
    BY <1>1, <1>13, OthersInTime DEF Exit
  <2> QED BY <1>2, <2>1
<1>14. ASSUME NEW key \in ServiceKeys, ConsumeTimeout(key) PROVE EndsInTime
  <2>1. WaitsEndInTime(sched, sched', now)
    BY <1>1, <1>14, OthersInTime DEF ConsumeTimeout
  <2> QED BY <1>2, <2>1
<1>15. CASE Tick \/ UNCHANGED vars
  BY <1>4, <1>15 DEF Tick, vars
<1> QED BY <1>5, <1>6, <1>7, <1>8, <1>9, <1>10, <1>11, <1>12, <1>13, <1>14, <1>15 DEF Next

\* The inductive invariant holds in every reachable state of the scheduler, for
\* any number of threads, any wait keys and any clock bound.
THEOREM Invariance == Spec => []IInv
<1>1. Init => IInv
  BY InitIInv
<1>2. IInv /\ [Next]_vars => IInv'
  BY NextBooks, NextInTime DEF IInv, EndsInTime
<1> QED BY <1>1, <1>2, PTL DEF Spec

\* Every field of the scheduler keeps its type.
THEOREM TypeCorrect == Spec => []TypeOK
<1>1. IInv => TypeOK
  BY DEF IInv, Books, TypeOK, SchedulerOK
<1> QED BY <1>1, Invariance, PTL

\* The ready queue holds each ready thread exactly once, whatever the calls:
\* no thread is lost and none is scheduled twice.
THEOREM ReadyQueueCorrect == Spec => []ReadyQueueExact
<1>1. IInv => ReadyQueueExact
  BY DEF IInv, Books, ReadyQueueExact, SchedulerOK
<1> QED BY <1>1, Invariance, PTL

\* At most one guest thread executes, and it is current_thread_.
THEOREM OneThreadRuns == Spec => []CurrentIsRunning
<1>1. IInv => CurrentIsRunning
  BY DEF IInv, Books, CurrentIsRunning, SchedulerOK
<1> QED BY <1>1, Invariance, PTL

\* Wait key, deadline and pending timeout agree with the thread's state.
THEOREM WaitBookkeepingCorrect == Spec => []WaitBookkeeping
<1>1. IInv => WaitBookkeeping
  BY DEF IInv, Books, WaitBookkeeping, SchedulerOK
<1> QED BY <1>1, Invariance, PTL

\* No thread waits for the exit of a thread that has already exited.
THEOREM NoJoinerLeftBehind == Spec => []JoinersWoken
<1>1. IInv => JoinersWoken
  BY DEF IInv, Books, JoinersWoken, SchedulerOK
<1> QED BY <1>1, Invariance, PTL

\* A wait whose deadline has come ends as timed out, also when a wake for its key
\* arrives at the same instant, and no other wait does.
THEOREM TimeoutsAreExact == Spec => TimeoutWins
<1>1. IInv /\ [Next]_vars =>
        [\A h \in Handles :
           (sched.state[h] = "blocked" /\ sched'.state[h] # "blocked") =>
              sched'.timed_out[h] =
                IF h \in Expired(sched, now) THEN sched.wait_key[h] ELSE NoKey]_vars
  BY NextInTime DEF EndsInTime
<1> QED BY <1>1, Invariance, PTL DEF Spec, TimeoutWins
=============================================================================

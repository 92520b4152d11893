------------------------- MODULE KernelWaitsProofs --------------------------
(***************************************************************************)
(* No wake-up of a semaphore, an event flag or a C++ guard is lost, for any *)
(* number of threads, semaphores, flags and guards, any counts and any      *)
(* patterns.                                                                *)
(*                                                                         *)
(* The argument is the same for the three services.  A thread is put to     *)
(* sleep under a key only by its own call, in the step that found the       *)
(* object unable to serve it.  A later step either leaves the sleepers of   *)
(* the key and what they wait for as they are, or makes the object less     *)
(* able to serve them, or wakes every sleeper of the key.                   *)
(***************************************************************************)
EXTENDS KernelWaits, SchedulerLemmas

\* The inductive invariant.
IInv == TypeOK /\ NoLostWakeup /\ WordAgreesWithOwner

\* Whoever sleeps under k after the step slept under it before, in the same call.
SleepersKept(k) ==
  \A h \in Handles : sched'.wait_key[h] = k =>
                       sched.wait_key[h] = k /\ call'[h] = call[h]

\* A step of another service, or of none, that keeps the sleepers.
SleepersKeptBut(key) == \A k \in WaitKeys : k # key => SleepersKept(k)

-----------------------------------------------------------------------------
(* Wait keys and calls.                                                      *)

\* The keys of different objects differ, and none is empty: a wake of one
\* service never takes the sleepers of another.
LEMMA KeyFacts ==
  /\ \A s : SemaphoreWaitKey(s) # NoKey
  /\ \A f : EventFlagWaitKey(f) # NoKey
  /\ \A a : GuardWaitKey(a) # NoKey
  /\ \A s, x : SemaphoreWaitKey(s) = SemaphoreWaitKey(x) => s = x
  /\ \A f, x : EventFlagWaitKey(f) = EventFlagWaitKey(x) => f = x
  /\ \A a, x : GuardWaitKey(a) = GuardWaitKey(x) => a = x
  /\ \A s, f : SemaphoreWaitKey(s) # EventFlagWaitKey(f)
  /\ \A s, a : SemaphoreWaitKey(s) # GuardWaitKey(a)
  /\ \A f, a : EventFlagWaitKey(f) # GuardWaitKey(a)
  /\ \A s, h : SemaphoreWaitKey(s) # ThreadExitWaitKey(h)
  /\ \A f, h : EventFlagWaitKey(f) # ThreadExitWaitKey(h)
  /\ \A a, h : GuardWaitKey(a) # ThreadExitWaitKey(h)
BY DEF SemaphoreWaitKey, EventFlagWaitKey, GuardWaitKey, ThreadExitWaitKey, NoKey

\* Every object's key is a wait key.
LEMMA KeyTypes ==
  /\ \A s \in Semaphores : SemaphoreWaitKey(s) \in WaitKeys
  /\ \A f \in Flags : EventFlagWaitKey(f) \in WaitKeys
  /\ \A a \in Guards : GuardWaitKey(a) \in WaitKeys
  /\ NoKey \notin WaitKeys
BY KeyFacts, ThreadExitKeyFacts DEF WaitKeys

\* A step that only ends waits, and changes at most the call of the thread that
\* runs, keeps every sleeper's reason to be asleep.
LEMMA LeavingKeeps ==
  ASSUME TypeOK, KeysLeave(sched, sched'), NEW h,
         \/ call' = call
         \/ /\ sched.current = h /\ sched.state[h] = "running"
            /\ \E x : call' = [call EXCEPT ![h] = x]
  PROVE  \A k \in WaitKeys : SleepersKept(k)
<1> SUFFICES ASSUME NEW k \in WaitKeys, NEW g \in Handles,
                    sched'.wait_key[g] = k
             PROVE  sched.wait_key[g] = k /\ call'[g] = call[g]
  BY DEF SleepersKept
<1>1. k # NoKey
  BY KeyTypes
<1>2. sched.wait_key[g] = k
  BY <1>1 DEF KeysLeave
<1>3. SchedulerOK(sched, WaitKeys) /\ call \in [Handles -> Calls]
  BY DEF TypeOK
<1>4. sched.current = h /\ sched.state[h] = "running" => g # h
  BY <1>1, <1>2, <1>3 DEF SchedulerOK, WaitsOK
<1> QED BY <1>2, <1>3, <1>4

\* A call that blocks keeps the sleepers of every other key, and adds its caller
\* to the sleepers of its own.
LEMMA BlockingKeeps ==
  ASSUME TypeOK, NEW key \in WaitKeys, NEW h \in Handles,
         sched.current = h, sched.state[h] = "running",
         sched' = BlockCurrent(sched, key),
         \A g \in Handles : g # h => call'[g] = call[g]
  PROVE  /\ SleepersKeptBut(key)
         /\ \A g \in Handles : g # h /\ sched'.wait_key[g] = key =>
                                 sched.wait_key[g] = key /\ call'[g] = call[g]
<1>1. key # NoKey /\ NoKey \notin WaitKeys
  BY KeyTypes
<1>2. SchedulerOK(sched, WaitKeys)
  BY DEF TypeOK
<1>3. CanLeave(sched)
  <2>1. h # NoThread
    BY MaxHandleAssumption DEF Handles, NoThread
  <2> QED BY <2>1 DEF CanLeave
<1>4. \A g \in Handles :
         sched'.wait_key[g] = IF g = h THEN key ELSE sched.wait_key[g]
  BY <1>1, <1>2, <1>3, BlockCurrentKeys DEF BlockCurrent
<1> QED BY <1>1, <1>4 DEF SleepersKeptBut, SleepersKept

\* Blocking under a key of the three services keeps the scheduler consistent.
LEMMA BlockingOK ==
  ASSUME TypeOK, NEW key \in WaitKeys, \A h : key # ThreadExitWaitKey(h)
  PROVE  SchedulerOK(BlockCurrent(sched, key), WaitKeys)
<1>1. NoDeadline \in Nat \cup {NoDeadline}
  OBVIOUS
<1> QED BY <1>1, BlockCurrentUntilOK DEF TypeOK, BlockCurrent

-----------------------------------------------------------------------------
(* Steps of one service as the others see them.                              *)

\* Nobody's sleep on a semaphore loses its reason while semaphores and their
\* sleepers stay as they are.
LEMMA SemaphoresUndisturbed ==
  ASSUME NoSleeperBesideCount, semaphores' = semaphores,
         \A s \in Semaphores : SleepersKept(SemaphoreWaitKey(s))
  PROVE  NoSleeperBesideCount'
BY DEF NoSleeperBesideCount, SleepersKept, SemaphoreLive

\* The same for event flags.
LEMMA FlagsUndisturbed ==
  ASSUME NoSleeperBesideBits, flags' = flags,
         \A f \in Flags : SleepersKept(EventFlagWaitKey(f))
  PROVE  NoSleeperBesideBits'
BY DEF NoSleeperBesideBits, SleepersKept, EventFlagLive

\* The same for guards.
LEMMA GuardsUndisturbed ==
  ASSUME SleeperHasOwner, owners' = owners,
         \A a \in Guards : SleepersKept(GuardWaitKey(a))
  PROVE  SleeperHasOwner'
BY DEF SleeperHasOwner, SleepersKept
-----------------------------------------------------------------------------
(* Semaphores.                                                               *)

\* Thread h has reason to sleep on s.
AwaitsCount(h, s) ==
  /\ SemaphoreLive(s)
  /\ \E n \in Needs : call[h] = SemaphoreCall(s, n) /\ semaphores[s].count < n

\* A step on one semaphore that gives all of its sleepers a reason, and keeps the
\* sleepers of every other key, keeps the property.
LEMMA SemaphoreSleepers ==
  ASSUME NoSleeperBesideCount, NEW s \in Semaphores,
         \A x \in Semaphores : x # s => semaphores'[x] = semaphores[x],
         SleepersKeptBut(SemaphoreWaitKey(s)),
         \A h \in Handles : sched'.wait_key[h] = SemaphoreWaitKey(s) =>
                              AwaitsCount(h, s)'
  PROVE  NoSleeperBesideCount'
<1> SUFFICES ASSUME NEW h \in Handles, NEW x \in Semaphores,
                    sched'.wait_key[h] = SemaphoreWaitKey(x)
             PROVE  AwaitsCount(h, x)'
  BY DEF NoSleeperBesideCount, AwaitsCount
<1>1. CASE x = s
  BY <1>1
<1>2. CASE x # s
  <2>1. SleepersKept(SemaphoreWaitKey(x))
    BY <1>2, KeyFacts, KeyTypes DEF SleepersKeptBut
  <2>2. sched.wait_key[h] = SemaphoreWaitKey(x) /\ call'[h] = call[h]
    BY <2>1 DEF SleepersKept
  <2>3. AwaitsCount(h, x)
    BY <2>2 DEF NoSleeperBesideCount, AwaitsCount
  <2> QED BY <1>2, <2>2, <2>3 DEF AwaitsCount, SemaphoreLive
<1> QED BY <1>1, <1>2

\* What any operation of the semaphore service does to the scheduler, the calls
\* and the semaphores.
SemaphoreStep(s) ==
  /\ SchedulerOK(sched', WaitKeys)
  /\ now' = now
  /\ call' \in [Handles -> Calls]
  /\ SleepersKeptBut(SemaphoreWaitKey(s))
  /\ SemaphoreTypeOK'
  /\ NoSleeperBesideCount'

\* sceKernelCreateSema: nobody sleeps on a semaphore that did not exist.
LEMMA CreateSemaphoreStep ==
  ASSUME IInv, NEW h \in Handles, NEW s \in Semaphores,
         NEW i \in 0 .. MaxCount, NEW m \in Needs, CreateSemaphore(h, s, i, m)
  PROVE  SemaphoreStep(s)
<1> USE SemaphoreAssumption DEF IInv
<1> DEFINE r == [state |-> "live", count |-> i, maximum_count |-> m]
<1>1. /\ sched' = sched /\ now' = now /\ call' = call
      /\ semaphores' = [semaphores EXCEPT ![s] = r]
      /\ semaphores[s].state = "new" /\ i <= m
      /\ semaphores \in [Semaphores -> SemaphoreRecords]
      /\ SchedulerOK(sched, WaitKeys) /\ call \in [Handles -> Calls]
  BY DEF CreateSemaphore, TypeOK, SemaphoreTypeOK
<1>2. \A k \in WaitKeys : SleepersKept(k)
  BY <1>1 DEF SleepersKept
<1>3. r \in SemaphoreRecords
  BY DEF SemaphoreRecords, Needs
<1>4. SemaphoreTypeOK'
  BY <1>1, <1>3 DEF TypeOK, SemaphoreTypeOK
<1>5. NoSleeperBesideCount'
  <2>1. \A g \in Handles : sched.wait_key[g] # SemaphoreWaitKey(s)
    BY <1>1 DEF NoLostWakeup, NoSleeperBesideCount, SemaphoreLive
  <2> QED BY <1>1, <1>2, <2>1, SemaphoreSleepers DEF NoLostWakeup, SleepersKeptBut
<1> QED BY <1>1, <1>2, <1>4, <1>5 DEF SemaphoreStep, SleepersKeptBut

\* A step that wakes every sleeper of the semaphore, whatever it makes of it.
LEMMA SemaphoreWakeStep ==
  ASSUME IInv, NEW h, NEW s \in Semaphores, NEW r \in SemaphoreRecords,
         r.count <= r.maximum_count,
         semaphores' = [semaphores EXCEPT ![s] = r],
         sched' = WakeAll(sched, SemaphoreWaitKey(s), now),
         now' = now, call' = call
  PROVE  SemaphoreStep(s)
<1> USE DEF IInv
<1>1. /\ semaphores \in [Semaphores -> SemaphoreRecords]
      /\ SchedulerOK(sched, WaitKeys) /\ call \in [Handles -> Calls]
  BY DEF TypeOK, SemaphoreTypeOK
<1>2. /\ KeysLeave(sched, sched')
      /\ \A g \in Handles : sched'.wait_key[g] # SemaphoreWaitKey(s)
  BY <1>1, KeyFacts, WakeAllKeys
<1>3. SchedulerOK(sched', WaitKeys)
  BY <1>1, WakeBlockedThreadsOK DEF WakeAll
<1>4. \A k \in WaitKeys : SleepersKept(k)
  BY <1>2, LeavingKeeps
<1>5. SemaphoreTypeOK'
  BY <1>1 DEF TypeOK, SemaphoreTypeOK
<1>6. NoSleeperBesideCount'
  BY <1>1, <1>2, <1>4, SemaphoreSleepers DEF NoLostWakeup, SleepersKeptBut
<1> QED BY <1>1, <1>3, <1>4, <1>5, <1>6 DEF SemaphoreStep, SleepersKeptBut

\* A step that takes n from the count: what the sleepers lacked they lack still.
LEMMA SemaphoreTakeStep ==
  ASSUME IInv, NEW h \in Handles, NEW s \in Semaphores, NEW n \in Needs,
         sched.current = h, sched.state[h] = "running",
         TryAcquire(s, n) = "kOk", semaphores' = AfterTryAcquire(s, n),
         sched' = sched, now' = now,
         call' = call \/ call' = [call EXCEPT ![h] = NoCall]
  PROVE  SemaphoreStep(s)
<1> USE SemaphoreAssumption DEF IInv
<1> DEFINE c == semaphores[s].count
           r == [semaphores[s] EXCEPT !.count = c - n]
<1>1. /\ semaphores \in [Semaphores -> SemaphoreRecords]
      /\ semaphores[s] \in SemaphoreRecords
      /\ c <= semaphores[s].maximum_count
      /\ SchedulerOK(sched, WaitKeys) /\ call \in [Handles -> Calls]
  BY DEF TypeOK, SemaphoreTypeOK
<1>2. SemaphoreLive(s) /\ ~(c < n)
  BY DEF TryAcquire
<1>3. semaphores' = [semaphores EXCEPT ![s] = r]
  BY DEF AfterTryAcquire
<1>4. c \in Nat /\ n \in Nat /\ c - n \in Nat /\ c - n <= c
      /\ semaphores[s].maximum_count \in Nat
  BY <1>1, <1>2 DEF SemaphoreRecords, Needs
<1>5. /\ r \in SemaphoreRecords /\ r.count = c - n
      /\ r.maximum_count = semaphores[s].maximum_count
      /\ r.state = semaphores[s].state
  BY <1>1, <1>4 DEF SemaphoreRecords
<1> HIDE DEF r
<1>6. SemaphoreTypeOK'
  BY <1>1, <1>3, <1>4, <1>5 DEF TypeOK, SemaphoreTypeOK
<1>7. NoCall \in Calls /\ call' \in [Handles -> Calls]
  BY <1>1 DEF Calls
<1>8. \A k \in WaitKeys : SleepersKept(k)
  <2>1. KeysLeave(sched, sched')
    BY DEF KeysLeave
  <2> QED BY <2>1, LeavingKeeps
<1>9. ASSUME NEW g \in Handles, sched'.wait_key[g] = SemaphoreWaitKey(s)
      PROVE  AwaitsCount(g, s)'
  <2>1. sched.wait_key[g] = SemaphoreWaitKey(s) /\ call'[g] = call[g]
    BY <1>8, <1>9, KeyTypes DEF SleepersKept
  <2>2. PICK m \in Needs : call[g] = SemaphoreCall(s, m) /\ c < m
    BY <2>1 DEF NoLostWakeup, NoSleeperBesideCount
  <2>3. semaphores'[s].count < m
    BY <1>1, <1>3, <1>4, <1>5, <2>2 DEF Needs
  <2>4. SemaphoreLive(s)'
    BY <1>1, <1>2, <1>3, <1>5 DEF SemaphoreLive
  <2> QED BY <2>1, <2>2, <2>3, <2>4 DEF AwaitsCount
<1>10. NoSleeperBesideCount'
  BY <1>1, <1>3, <1>8, <1>9, SemaphoreSleepers DEF NoLostWakeup, SleepersKeptBut
<1> QED BY <1>1, <1>6, <1>7, <1>8, <1>10 DEF SemaphoreStep, SleepersKeptBut

\* A wait that must block: its caller goes to sleep with the count below its need.
LEMMA SemaphoreBlockStep ==
  ASSUME IInv, NEW h \in Handles, NEW s \in Semaphores, NEW n \in Needs,
         sched.current = h, sched.state[h] = "running",
         SemaphoreLive(s), semaphores[s].count < n, semaphores' = semaphores,
         sched' = BlockCurrent(sched, SemaphoreWaitKey(s)), now' = now,
         call' = [call EXCEPT ![h] = SemaphoreCall(s, n)]
  PROVE  SemaphoreStep(s)
<1> USE DEF IInv
<1> DEFINE key == SemaphoreWaitKey(s)
<1>1. SchedulerOK(sched', WaitKeys)
  BY KeyFacts, KeyTypes, BlockingOK
<1>2. call' \in [Handles -> Calls]
  <2>1. SemaphoreCall(s, n) \in Calls
    BY DEF Calls
  <2> QED BY <2>1 DEF TypeOK
<1>3. /\ SleepersKeptBut(key)
      /\ \A g \in Handles : g # h /\ sched'.wait_key[g] = key =>
                              sched.wait_key[g] = key /\ call'[g] = call[g]
      /\ call'[h] = SemaphoreCall(s, n)
  <2>1. /\ call'[h] = SemaphoreCall(s, n)
        /\ \A g \in Handles : g # h => call'[g] = call[g]
    BY DEF TypeOK
  <2> QED BY <2>1, KeyTypes, BlockingKeeps
<1>4. \A g \in Handles : sched'.wait_key[g] = key => AwaitsCount(g, s)'
  <2> SUFFICES ASSUME NEW g \in Handles, sched'.wait_key[g] = key
               PROVE  AwaitsCount(g, s)'
    OBVIOUS
  <2>1. CASE g = h
    BY <2>1, <1>3 DEF AwaitsCount, SemaphoreLive
  <2>2. CASE g # h
    BY <2>2, <1>3 DEF NoLostWakeup, NoSleeperBesideCount, AwaitsCount, SemaphoreLive
  <2> QED BY <2>1, <2>2
<1>5. NoSleeperBesideCount'
  BY <1>3, <1>4, SemaphoreSleepers DEF NoLostWakeup
<1>6. SemaphoreTypeOK'
  BY DEF TypeOK, SemaphoreTypeOK
<1> QED BY <1>1, <1>2, <1>3, <1>5, <1>6 DEF SemaphoreStep

\* Every operation of the semaphore service, one case per operation.
LEMMA SemaphoreOperationStep ==
  ASSUME IInv, NEW h \in Handles, NEW s \in Semaphores, SemaphoreOperation(h, s)
  PROVE  SemaphoreStep(s)
<1> USE SemaphoreAssumption DEF IInv
<1>1. /\ semaphores \in [Semaphores -> SemaphoreRecords]
      /\ semaphores[s] \in SemaphoreRecords
      /\ semaphores[s].count <= semaphores[s].maximum_count
      /\ SchedulerOK(sched, WaitKeys) /\ call \in [Handles -> Calls]
  BY DEF TypeOK, SemaphoreTypeOK
<1>2. ASSUME NEW i \in 0 .. MaxCount, NEW m \in Needs, CreateSemaphore(h, s, i, m)
      PROVE  SemaphoreStep(s)
  BY <1>2, CreateSemaphoreStep
<1>3. CASE DeleteSemaphore(h, s)
  <2> DEFINE r == [NewSemaphore EXCEPT !.state = "deleted"]
  <2>1. r \in SemaphoreRecords /\ r.count <= r.maximum_count
    BY DEF SemaphoreRecords, NewSemaphore
  <2> QED BY <1>3, <2>1, SemaphoreWakeStep DEF DeleteSemaphore
<1>4. ASSUME NEW n \in Needs, SignalSemaphore(h, s, n) PROVE SemaphoreStep(s)
  <2> DEFINE c == semaphores[s].count
             r == [semaphores[s] EXCEPT !.count = c + n]
  <2>1. /\ n <= semaphores[s].maximum_count - c
        /\ semaphores' = [semaphores EXCEPT ![s] = r]
        /\ sched' = WakeAll(sched, SemaphoreWaitKey(s), now)
        /\ now' = now /\ call' = call
    BY <1>1, <1>4 DEF SignalSemaphore
  <2>2. c \in Nat /\ n \in Nat /\ semaphores[s].maximum_count \in Nat
    BY <1>1 DEF SemaphoreRecords, Needs
  <2>3. c + n \in Nat /\ c + n <= semaphores[s].maximum_count
    BY <2>1, <2>2
  <2>4. /\ r \in SemaphoreRecords /\ r.count = c + n
        /\ r.maximum_count = semaphores[s].maximum_count
    BY <1>1, <2>3 DEF SemaphoreRecords
  <2> HIDE DEF r
  <2> QED BY <2>1, <2>3, <2>4, SemaphoreWakeStep
<1>5. ASSUME NEW n \in Needs, PollSemaphore(h, s, n) PROVE SemaphoreStep(s)
  BY <1>5, SemaphoreTakeStep DEF PollSemaphore, MayCall
<1>6. ASSUME NEW n \in Needs, WaitSemaphore(h, s, n) PROVE SemaphoreStep(s)
  <2>1. sched.current = h /\ sched.state[h] = "running" /\ now' = now
    BY <1>6 DEF WaitSemaphore, MayCall
  <2>2. CASE TryAcquire(s, n) = "kOk"
    BY <1>6, <2>1, <2>2, SemaphoreTakeStep DEF WaitSemaphore, CallAfter
  <2>3. CASE TryAcquire(s, n) = "kBusy"
    <3>1. SemaphoreLive(s) /\ semaphores[s].count < n
      BY <2>3 DEF TryAcquire
    <3>2. /\ semaphores' = semaphores
          /\ sched' = BlockCurrent(sched, SemaphoreWaitKey(s))
          /\ call' = [call EXCEPT ![h] = SemaphoreCall(s, n)]
      BY <1>6, <2>3 DEF WaitSemaphore, AfterTryAcquire, CallAfter
    <3> QED BY <2>1, <3>1, <3>2, SemaphoreBlockStep
  <2>4. CASE TryAcquire(s, n) \notin {"kOk", "kBusy"}
    <3>1. TryAcquire(s, n) # "kWouldBlock"
      BY DEF TryAcquire
    <3>2. /\ semaphores' = semaphores /\ sched' = sched
          /\ call' = [call EXCEPT ![h] = NoCall]
      BY <1>6, <2>4, <3>1 DEF WaitSemaphore, AfterTryAcquire, CallAfter
    <3>3. \A k \in WaitKeys : SleepersKept(k)
      BY <2>1, <3>2, LeavingKeeps DEF KeysLeave
    <3>4. NoSleeperBesideCount'
      BY <3>2, <3>3, KeyTypes, SemaphoresUndisturbed DEF NoLostWakeup
    <3>5. call' \in [Handles -> Calls]
      BY <1>1, <3>2 DEF Calls
    <3> QED BY <1>1, <2>1, <3>2, <3>3, <3>4, <3>5
            DEF SemaphoreStep, SleepersKeptBut, TypeOK, SemaphoreTypeOK
  <2> QED BY <2>2, <2>3, <2>4
<1> QED BY <1>2, <1>3, <1>4, <1>5, <1>6, SemaphoreOperation(h, s)
        DEF SemaphoreOperation
-----------------------------------------------------------------------------
(* Event flags.                                                              *)

FlagRecords == [state : {"new", "live", "deleted"}, bits : SUBSET Bits]

\* Thread h has reason to sleep on f.
AwaitsBits(h, f) ==
  /\ EventFlagLive(f)
  /\ \E p \in Patterns, mode \in Modes :
       call[h] = EventFlagCall(f, p, mode) /\ ~Satisfied(flags[f].bits, p, mode)

\* Fewer bits satisfy no wait that more bits did not: the clear of a successful
\* wait, and ClearEventFlag, never leave a sleeper behind.
LEMMA FewerBits ==
  ASSUME NEW b, NEW c, c \subseteq b, NEW p, NEW mode, ~Satisfied(b, p, mode)
  PROVE  ~Satisfied(c, p, mode)
BY DEF Satisfied

\* A step on one flag that gives all of its sleepers a reason, and keeps the
\* sleepers of every other key, keeps the property.
LEMMA FlagSleepers ==
  ASSUME NoSleeperBesideBits, NEW f \in Flags,
         \A x \in Flags : x # f => flags'[x] = flags[x],
         SleepersKeptBut(EventFlagWaitKey(f)),
         \A h \in Handles : sched'.wait_key[h] = EventFlagWaitKey(f) =>
                              AwaitsBits(h, f)'
  PROVE  NoSleeperBesideBits'
<1> SUFFICES ASSUME NEW h \in Handles, NEW x \in Flags,
                    sched'.wait_key[h] = EventFlagWaitKey(x)
             PROVE  AwaitsBits(h, x)'
  BY DEF NoSleeperBesideBits, AwaitsBits
<1>1. CASE x = f
  BY <1>1
<1>2. CASE x # f
  <2>1. SleepersKept(EventFlagWaitKey(x))
    BY <1>2, KeyFacts, KeyTypes DEF SleepersKeptBut
  <2>2. sched.wait_key[h] = EventFlagWaitKey(x) /\ call'[h] = call[h]
    BY <2>1 DEF SleepersKept
  <2>3. AwaitsBits(h, x)
    BY <2>2 DEF NoSleeperBesideBits, AwaitsBits
  <2> QED BY <1>2, <2>2, <2>3 DEF AwaitsBits, EventFlagLive
<1> QED BY <1>1, <1>2

\* What any operation of the event flag service does to the scheduler, the calls
\* and the flags.
FlagStep(f) ==
  /\ SchedulerOK(sched', WaitKeys)
  /\ now' = now
  /\ call' \in [Handles -> Calls]
  /\ SleepersKeptBut(EventFlagWaitKey(f))
  /\ EventFlagTypeOK'
  /\ NoSleeperBesideBits'

\* A step that wakes every sleeper of the flag, whatever it makes of it.
LEMMA FlagWakeStep ==
  ASSUME IInv, NEW f \in Flags, NEW r \in FlagRecords,
         flags' = [flags EXCEPT ![f] = r],
         sched' = WakeAll(sched, EventFlagWaitKey(f), now),
         now' = now, call' = call
  PROVE  FlagStep(f)
<1> USE DEF IInv
<1>1. /\ flags \in [Flags -> FlagRecords]
      /\ SchedulerOK(sched, WaitKeys) /\ call \in [Handles -> Calls]
  BY DEF TypeOK, EventFlagTypeOK, FlagRecords
<1>2. /\ KeysLeave(sched, sched')
      /\ \A g \in Handles : sched'.wait_key[g] # EventFlagWaitKey(f)
  BY <1>1, KeyFacts, WakeAllKeys
<1>3. SchedulerOK(sched', WaitKeys)
  BY <1>1, WakeBlockedThreadsOK DEF WakeAll
<1>4. \A k \in WaitKeys : SleepersKept(k)
  BY <1>2, LeavingKeeps
<1>5. flags' \in [Flags -> FlagRecords]
  BY <1>1
<1>6. NoSleeperBesideBits'
  BY <1>1, <1>2, <1>4, FlagSleepers DEF NoLostWakeup, SleepersKeptBut
<1> QED BY <1>1, <1>3, <1>4, <1>5, <1>6
        DEF FlagStep, SleepersKeptBut, EventFlagTypeOK, FlagRecords

\* A step that takes bits away from a live flag, or leaves all flags alone.
LEMMA FlagTakeStep ==
  ASSUME IInv, NEW h \in Handles, NEW f \in Flags,
         sched.current = h, sched.state[h] = "running",
         NEW b \in SUBSET Bits, b \subseteq flags[f].bits,
         flags' = [flags EXCEPT ![f].bits = b],
         sched' = sched, now' = now,
         call' = call \/ call' = [call EXCEPT ![h] = NoCall]
  PROVE  FlagStep(f)
<1> USE DEF IInv
<1> DEFINE r == [flags[f] EXCEPT !.bits = b]
<1>1. /\ flags \in [Flags -> FlagRecords] /\ flags[f] \in FlagRecords
      /\ SchedulerOK(sched, WaitKeys) /\ call \in [Handles -> Calls]
  BY DEF TypeOK, EventFlagTypeOK, FlagRecords
<1>2. /\ flags' = [flags EXCEPT ![f] = r] /\ r \in FlagRecords
      /\ r.state = flags[f].state /\ r.bits = b
  BY <1>1 DEF FlagRecords
<1> HIDE DEF r
<1>3. flags' \in [Flags -> FlagRecords]
  BY <1>1, <1>2
<1>4. NoCall \in Calls /\ call' \in [Handles -> Calls]
  BY <1>1 DEF Calls
<1>5. \A k \in WaitKeys : SleepersKept(k)
  <2>1. KeysLeave(sched, sched')
    BY DEF KeysLeave
  <2> QED BY <2>1, LeavingKeeps
<1>6. ASSUME NEW g \in Handles, sched'.wait_key[g] = EventFlagWaitKey(f)
      PROVE  AwaitsBits(g, f)'
  <2>1. sched.wait_key[g] = EventFlagWaitKey(f) /\ call'[g] = call[g]
    BY <1>5, <1>6, KeyTypes DEF SleepersKept
  <2>2. AwaitsBits(g, f)
    BY <2>1 DEF NoLostWakeup, NoSleeperBesideBits, AwaitsBits
  <2>3. PICK p \in Patterns, mode \in Modes :
           call[g] = EventFlagCall(f, p, mode) /\ ~Satisfied(flags[f].bits, p, mode)
    BY <2>2 DEF AwaitsBits
  <2>4. ~Satisfied(b, p, mode)
    BY <2>3, FewerBits
  <2>5. EventFlagLive(f)' /\ flags'[f].bits = b
    BY <1>1, <1>2, <2>2 DEF AwaitsBits, EventFlagLive
  <2> QED BY <2>1, <2>3, <2>4, <2>5 DEF AwaitsBits
<1>7. NoSleeperBesideBits'
  BY <1>1, <1>2, <1>5, <1>6, FlagSleepers DEF NoLostWakeup, SleepersKeptBut
<1> QED BY <1>1, <1>3, <1>4, <1>5, <1>7
        DEF FlagStep, SleepersKeptBut, EventFlagTypeOK, FlagRecords

\* A wait that must block: its caller goes to sleep with its wait unsatisfied.
LEMMA FlagBlockStep ==
  ASSUME IInv, NEW h \in Handles, NEW f \in Flags,
         NEW p \in Patterns, NEW mode \in Modes,
         sched.current = h, sched.state[h] = "running",
         EventFlagLive(f), ~Satisfied(flags[f].bits, p, mode), flags' = flags,
         sched' = BlockCurrent(sched, EventFlagWaitKey(f)), now' = now,
         call' = [call EXCEPT ![h] = EventFlagCall(f, p, mode)]
  PROVE  FlagStep(f)
<1> USE DEF IInv
<1> DEFINE key == EventFlagWaitKey(f)
<1>1. SchedulerOK(sched', WaitKeys)
  BY KeyFacts, KeyTypes, BlockingOK
<1>2. call' \in [Handles -> Calls]
  <2>1. EventFlagCall(f, p, mode) \in Calls
    BY DEF Calls
  <2> QED BY <2>1 DEF TypeOK
<1>3. /\ SleepersKeptBut(key)
      /\ \A g \in Handles : g # h /\ sched'.wait_key[g] = key =>
                              sched.wait_key[g] = key /\ call'[g] = call[g]
      /\ call'[h] = EventFlagCall(f, p, mode)
  <2>1. /\ call'[h] = EventFlagCall(f, p, mode)
        /\ \A g \in Handles : g # h => call'[g] = call[g]
    BY DEF TypeOK
  <2> QED BY <2>1, KeyTypes, BlockingKeeps
<1>4. ASSUME NEW g \in Handles, sched'.wait_key[g] = key PROVE AwaitsBits(g, f)'
  <2>1. CASE g = h
    BY <2>1, <1>3 DEF AwaitsBits, EventFlagLive
  <2>2. CASE g # h
    BY <2>2, <1>3, <1>4 DEF NoLostWakeup, NoSleeperBesideBits, AwaitsBits, EventFlagLive
  <2> QED BY <2>1, <2>2
<1>5. NoSleeperBesideBits'
  BY <1>3, <1>4, FlagSleepers DEF NoLostWakeup
<1> QED BY <1>1, <1>2, <1>3, <1>5 DEF FlagStep, TypeOK, EventFlagTypeOK

\* Every operation of the event flag service, one case per operation.
LEMMA FlagOperationStep ==
  ASSUME IInv, NEW h \in Handles, NEW f \in Flags, EventFlagOperation(h, f)
  PROVE  FlagStep(f)
<1> USE DEF IInv
<1>1. /\ flags \in [Flags -> FlagRecords] /\ flags[f] \in FlagRecords
      /\ SchedulerOK(sched, WaitKeys) /\ call \in [Handles -> Calls]
      /\ flags[f].bits \in SUBSET Bits
  BY DEF TypeOK, EventFlagTypeOK, FlagRecords
<1>2. ASSUME NEW p \in SUBSET Bits, CreateEventFlag(h, f, p) PROVE FlagStep(f)
  <2> DEFINE r == [state |-> "live", bits |-> p]
  <2>1. /\ sched' = sched /\ now' = now /\ call' = call
        /\ flags' = [flags EXCEPT ![f] = r] /\ flags[f].state = "new"
    BY <1>2 DEF CreateEventFlag
  <2>2. \A k \in WaitKeys : SleepersKept(k)
    BY <2>1 DEF SleepersKept
  <2>3. r \in FlagRecords
    BY DEF FlagRecords
  <2>4. \A g \in Handles : sched.wait_key[g] # EventFlagWaitKey(f)
    BY <2>1 DEF NoLostWakeup, NoSleeperBesideBits, EventFlagLive
  <2>5. NoSleeperBesideBits'
    BY <1>1, <2>1, <2>2, <2>4, FlagSleepers DEF NoLostWakeup, SleepersKeptBut
  <2>6. flags' \in [Flags -> FlagRecords]
    BY <1>1, <2>1, <2>3
  <2> QED BY <1>1, <2>1, <2>2, <2>5, <2>6
          DEF FlagStep, SleepersKeptBut, EventFlagTypeOK, FlagRecords
<1>3. CASE DeleteEventFlag(h, f)
  <2> DEFINE r == [state |-> "deleted", bits |-> {}]
  <2>1. r \in FlagRecords
    BY DEF FlagRecords
  <2> QED BY <1>3, <2>1, FlagWakeStep DEF DeleteEventFlag
<1>4. ASSUME NEW p \in SUBSET Bits, SetEventFlag(h, f, p) PROVE FlagStep(f)
  <2> DEFINE r == [flags[f] EXCEPT !.bits = flags[f].bits \cup p]
  <2>1. flags' = [flags EXCEPT ![f] = r]
    BY <1>1, <1>4 DEF SetEventFlag
  <2>2. r \in FlagRecords
    <3>1. flags[f].bits \cup p \in SUBSET Bits
      BY <1>1
    <3> QED BY <1>1, <3>1 DEF FlagRecords
  <2> HIDE DEF r
  <2> QED BY <1>4, <2>1, <2>2, FlagWakeStep DEF SetEventFlag
<1>5. ASSUME NEW m \in SUBSET Bits, ClearEventFlag(h, f, m) PROVE FlagStep(f)
  <2> DEFINE b == flags[f].bits \cap m
  <2>1. b \in SUBSET Bits /\ b \subseteq flags[f].bits
    BY <1>1
  <2>2. /\ flags' = [flags EXCEPT ![f].bits = b]
        /\ sched' = sched /\ now' = now /\ call' = call
        /\ sched.current = h /\ sched.state[h] = "running"
    BY <1>5 DEF ClearEventFlag, MayCall
  <2> HIDE DEF b
  <2> QED BY <2>1, <2>2, FlagTakeStep
<1>6. ASSUME NEW p \in Patterns, NEW mode \in Modes
      PROVE  /\ Cleared(flags[f].bits, p, mode) \in SUBSET Bits
             /\ Cleared(flags[f].bits, p, mode) \subseteq flags[f].bits
             /\ ~Satisfied(flags[f].bits, p, mode) => AfterFlagPoll(f, p, mode) = flags
  <2>1. /\ Cleared(flags[f].bits, p, mode) \subseteq flags[f].bits
        /\ ~Satisfied(flags[f].bits, p, mode) =>
             Cleared(flags[f].bits, p, mode) = flags[f].bits
    BY DEF Cleared
  <2>2. [flags EXCEPT ![f].bits = flags[f].bits] = flags
    BY <1>1 DEF FlagRecords
  <2> QED BY <1>1, <2>1, <2>2 DEF AfterFlagPoll
<1>7. ASSUME NEW p \in Patterns, NEW mode \in Modes, PollEventFlag(h, f, p, mode)
      PROVE  FlagStep(f)
  <2> DEFINE b == Cleared(flags[f].bits, p, mode)
  <2>1. b \in SUBSET Bits /\ b \subseteq flags[f].bits
    BY <1>6
  <2>2. /\ flags' = [flags EXCEPT ![f].bits = b]
        /\ sched' = sched /\ now' = now /\ call' = call
        /\ sched.current = h /\ sched.state[h] = "running"
    BY <1>7 DEF PollEventFlag, MayCall, AfterFlagPoll
  <2> HIDE DEF b
  <2> QED BY <2>1, <2>2, FlagTakeStep
<1>8. ASSUME NEW p \in Patterns, NEW mode \in Modes, WaitEventFlag(h, f, p, mode)
      PROVE  FlagStep(f)
  <2> DEFINE b == Cleared(flags[f].bits, p, mode)
  <2>1. b \in SUBSET Bits /\ b \subseteq flags[f].bits
    BY <1>6
  <2>2. /\ flags' = [flags EXCEPT ![f].bits = b] /\ now' = now
        /\ sched.current = h /\ sched.state[h] = "running"
    BY <1>8 DEF WaitEventFlag, MayCall, AfterFlagPoll
  <2>3. CASE FlagPollStatus(f, p, mode) = "kBusy"
    <3>1. EventFlagLive(f) /\ ~Satisfied(flags[f].bits, p, mode)
      BY <2>3 DEF FlagPollStatus
    <3>2. /\ flags' = flags
          /\ sched' = BlockCurrent(sched, EventFlagWaitKey(f))
          /\ call' = [call EXCEPT ![h] = EventFlagCall(f, p, mode)]
      BY <1>6, <1>8, <2>3, <3>1 DEF WaitEventFlag, CallAfter
    <3> QED BY <2>2, <3>1, <3>2, FlagBlockStep
  <2>4. CASE FlagPollStatus(f, p, mode) # "kBusy"
    <3>1. FlagPollStatus(f, p, mode) # "kWouldBlock"
      BY DEF FlagPollStatus
    <3>2. sched' = sched /\ call' = [call EXCEPT ![h] = NoCall]
      BY <1>8, <2>4, <3>1 DEF WaitEventFlag, CallAfter
    <3> HIDE DEF b
    <3> QED BY <2>1, <2>2, <3>2, FlagTakeStep
  <2> QED BY <2>3, <2>4
<1> QED BY <1>2, <1>3, <1>4, <1>5, <1>7, <1>8, EventFlagOperation(h, f)
        DEF EventFlagOperation
-----------------------------------------------------------------------------
(* Guards.                                                                   *)

\* Thread h has reason to sleep on a.
AwaitsOwner(h, a) == call[h] = AcquireCall(a) /\ owners[a] \notin {NoThread, h}

\* A step on one guard that gives all of its sleepers a reason, and keeps the
\* sleepers of every other key, keeps the property.
LEMMA GuardSleepers ==
  ASSUME SleeperHasOwner, NEW a \in Guards,
         \A x \in Guards : x # a => owners'[x] = owners[x],
         SleepersKeptBut(GuardWaitKey(a)),
         \A h \in Handles : sched'.wait_key[h] = GuardWaitKey(a) =>
                              AwaitsOwner(h, a)'
  PROVE  SleeperHasOwner'
<1> SUFFICES ASSUME NEW h \in Handles, NEW x \in Guards,
                    sched'.wait_key[h] = GuardWaitKey(x)
             PROVE  AwaitsOwner(h, x)'
  BY DEF SleeperHasOwner, AwaitsOwner
<1>1. CASE x = a
  BY <1>1
<1>2. CASE x # a
  <2>1. SleepersKept(GuardWaitKey(x))
    BY <1>2, KeyFacts, KeyTypes DEF SleepersKeptBut
  <2>2. sched.wait_key[h] = GuardWaitKey(x) /\ call'[h] = call[h]
    BY <2>1 DEF SleepersKept
  <2> QED BY <1>2, <2>2 DEF AwaitsOwner, SleeperHasOwner
<1> QED BY <1>1, <1>2

\* What any guard export does to the scheduler, the calls, the words and owners_.
GuardStep(a) ==
  /\ SchedulerOK(sched', WaitKeys)
  /\ now' = now
  /\ call' \in [Handles -> Calls]
  /\ SleepersKeptBut(GuardWaitKey(a))
  /\ GuardTypeOK'
  /\ WordAgreesWithOwner'
  /\ SleeperHasOwner'

\* A step that leaves the guard without an owner and wakes all of its sleepers.
LEMMA GuardWakeStep ==
  ASSUME IInv, NEW h \in Handles, NEW a \in Guards,
         sched.current = h, sched.state[h] = "running",
         NEW word \in {"clear", "complete"},
         owners' = [owners EXCEPT ![a] = NoThread],
         words' = [words EXCEPT ![a] = word],
         sched' = WakeAll(sched, GuardWaitKey(a), now), now' = now,
         call' = call \/ call' = [call EXCEPT ![h] = NoCall]
  PROVE  GuardStep(a)
<1> USE DEF IInv
<1>1. /\ words \in [Guards -> {"clear", "pending", "complete"}]
      /\ owners \in [Guards -> Handles \cup {NoThread}]
      /\ SchedulerOK(sched, WaitKeys) /\ call \in [Handles -> Calls]
  BY DEF TypeOK, GuardTypeOK
<1>2. /\ KeysLeave(sched, sched')
      /\ \A g \in Handles : sched'.wait_key[g] # GuardWaitKey(a)
  BY <1>1, KeyFacts, WakeAllKeys
<1>3. SchedulerOK(sched', WaitKeys)
  BY <1>1, WakeBlockedThreadsOK DEF WakeAll
<1>4. \A k \in WaitKeys : SleepersKept(k)
  BY <1>2, LeavingKeeps
<1>5. GuardTypeOK' /\ WordAgreesWithOwner'
  BY <1>1 DEF GuardTypeOK, WordAgreesWithOwner
<1>6. NoCall \in Calls /\ call' \in [Handles -> Calls]
  BY <1>1 DEF Calls
<1>7. SleeperHasOwner'
  BY <1>1, <1>2, <1>4, GuardSleepers DEF NoLostWakeup, SleepersKeptBut
<1> QED BY <1>3, <1>4, <1>5, <1>6, <1>7 DEF GuardStep, SleepersKeptBut

\* Acquire blocks only behind another thread's initialization.
LEMMA GuardBlockStep ==
  ASSUME IInv, NEW h \in Handles, NEW a \in Guards,
         sched.current = h, sched.state[h] = "running",
         owners[a] \notin {NoThread, h}, words' = words, owners' = owners,
         sched' = BlockCurrent(sched, GuardWaitKey(a)), now' = now,
         call' = [call EXCEPT ![h] = AcquireCall(a)]
  PROVE  GuardStep(a)
<1> USE DEF IInv
<1> DEFINE key == GuardWaitKey(a)
<1>1. SchedulerOK(sched', WaitKeys)
  BY KeyFacts, KeyTypes, BlockingOK
<1>2. call' \in [Handles -> Calls]
  <2>1. AcquireCall(a) \in Calls
    BY DEF Calls
  <2> QED BY <2>1 DEF TypeOK
<1>3. /\ SleepersKeptBut(key)
      /\ \A g \in Handles : g # h /\ sched'.wait_key[g] = key =>
                              sched.wait_key[g] = key /\ call'[g] = call[g]
      /\ call'[h] = AcquireCall(a)
  <2>1. /\ call'[h] = AcquireCall(a)
        /\ \A g \in Handles : g # h => call'[g] = call[g]
    BY DEF TypeOK
  <2> QED BY <2>1, KeyTypes, BlockingKeeps
<1>4. ASSUME NEW g \in Handles, sched'.wait_key[g] = key PROVE AwaitsOwner(g, a)'
  <2>1. CASE g = h
    BY <2>1, <1>3 DEF AwaitsOwner
  <2>2. CASE g # h
    BY <2>2, <1>3, <1>4 DEF NoLostWakeup, SleeperHasOwner, AwaitsOwner
  <2> QED BY <2>1, <2>2
<1>5. SleeperHasOwner'
  BY <1>3, <1>4, GuardSleepers DEF NoLostWakeup
<1> QED BY <1>1, <1>2, <1>3, <1>5 DEF GuardStep, TypeOK, GuardTypeOK, WordAgreesWithOwner

\* Every guard export, one case per export and outcome.
LEMMA GuardOperationStep ==
  ASSUME IInv, NEW h \in Handles, NEW a \in Guards, GuardOperation(h, a)
  PROVE  GuardStep(a)
<1> USE DEF IInv
<1>1. /\ words \in [Guards -> {"clear", "pending", "complete"}]
      /\ owners \in [Guards -> Handles \cup {NoThread}]
      /\ SchedulerOK(sched, WaitKeys) /\ call \in [Handles -> Calls]
      /\ NoCall \in Calls /\ h # NoThread
  BY MaxHandleAssumption DEF TypeOK, GuardTypeOK, Calls, Handles, NoThread
<1>2. AcquireStatus(h, a) = "initialize" => owners[a] = NoThread
  BY DEF AcquireStatus
<1>3. AcquireStatus(h, a) = "kWouldBlock" => owners[a] \notin {NoThread, h}
  BY DEF AcquireStatus
<1>4. CASE CxaGuardAcquire(h, a)
  <2>1. sched.current = h /\ sched.state[h] = "running" /\ now' = now
    BY <1>4 DEF CxaGuardAcquire, MayCall
  <2>2. CASE AcquireStatus(h, a) = "kWouldBlock"
    <3>1. /\ words' = words /\ owners' = owners
          /\ sched' = BlockCurrent(sched, GuardWaitKey(a))
          /\ call' = [call EXCEPT ![h] = AcquireCall(a)]
      BY <1>4, <2>2 DEF CxaGuardAcquire, CallAfter
    <3> QED BY <1>3, <2>1, <2>2, <3>1, GuardBlockStep
  <2>3. CASE AcquireStatus(h, a) # "kWouldBlock"
    <3>1. sched' = sched /\ call' = [call EXCEPT ![h] = NoCall]
      BY <1>4, <2>3 DEF CxaGuardAcquire, CallAfter
    <3>2. \A k \in WaitKeys : SleepersKept(k)
      BY <2>1, <3>1, LeavingKeeps DEF KeysLeave
    <3>3. call' \in [Handles -> Calls]
      BY <1>1, <3>1
    <3>4. CASE AcquireStatus(h, a) = "initialize"
      <4>1. /\ owners' = [owners EXCEPT ![a] = h]
            /\ words' = [words EXCEPT ![a] = "pending"]
        BY <1>4, <3>4 DEF CxaGuardAcquire
      <4>2. GuardTypeOK' /\ WordAgreesWithOwner'
        BY <1>1, <4>1 DEF GuardTypeOK, WordAgreesWithOwner
      <4>3. \A g \in Handles : sched'.wait_key[g] # GuardWaitKey(a)
        BY <1>2, <3>1, <3>4 DEF NoLostWakeup, SleeperHasOwner
      <4>4. SleeperHasOwner'
        BY <1>1, <3>2, <4>1, <4>3, GuardSleepers DEF NoLostWakeup, SleepersKeptBut
      <4> QED BY <1>1, <2>1, <3>1, <3>2, <3>3, <4>2, <4>4
              DEF GuardStep, SleepersKeptBut
    <3>5. CASE AcquireStatus(h, a) # "initialize"
      <4>1. words' = words /\ owners' = owners
        BY <1>4, <3>5 DEF CxaGuardAcquire
      <4>2. SleeperHasOwner'
        BY <3>2, <4>1, KeyTypes, GuardsUndisturbed DEF NoLostWakeup
      <4> QED BY <1>1, <2>1, <3>1, <3>2, <3>3, <4>1, <4>2
              DEF GuardStep, SleepersKeptBut, TypeOK, GuardTypeOK, WordAgreesWithOwner
    <3> QED BY <3>4, <3>5
  <2> QED BY <2>2, <2>3
<1>5. CASE AcquireFaults(h, a)
  <2>1. /\ sched.current = h /\ sched.state[h] = "running" /\ now' = now
        /\ words' = words /\ owners' = owners
        /\ sched' = WakeAll(sched, GuardWaitKey(a), now)
        /\ call' = [call EXCEPT ![h] = NoCall]
        /\ owners[a] = NoThread
    BY <1>2, <1>5 DEF AcquireFaults, MayCall, CallAfter
  <2>2. words[a] \in {"clear", "complete"}
    BY <1>1, <2>1 DEF WordAgreesWithOwner
  <2>3. /\ owners' = [owners EXCEPT ![a] = NoThread]
        /\ words' = [words EXCEPT ![a] = words[a]]
    BY <1>1, <2>1
  <2> DEFINE word == words[a]
  <2> HIDE DEF word
  <2>4. word \in {"clear", "complete"} /\ words' = [words EXCEPT ![a] = word]
    BY <2>2, <2>3 DEF word
  <2> QED BY <2>1, <2>3, <2>4, GuardWakeStep
<1>6. ASSUME NEW state \in {"complete", "clear"}, CompleteGuard(h, a, state)
      PROVE  GuardStep(a)
  BY <1>6, GuardWakeStep DEF CompleteGuard, CompletedBy, MayCall
<1> QED BY <1>4, <1>5, <1>6, GuardOperation(h, a) DEF GuardOperation

-----------------------------------------------------------------------------
(* The composition.                                                          *)

\* The services before the first call satisfy the inductive invariant.
LEMMA InitIInv == Init => IInv
<1> SUFFICES ASSUME Init PROVE IInv
  OBVIOUS
<1>1. MaxHandle \in Nat /\ MaxHandle # 0 /\ MaxTime \in Nat /\ MaxCount \in Nat
  BY MaxHandleAssumption, MaxTimeAssumption, SemaphoreAssumption
<1>3. SchedulerOK(sched, WaitKeys) /\ \A h \in Handles : sched.wait_key[h] = NoKey
  <2>1. sched = [state     |-> [h \in Handles |-> "ready"],
                 wait_key  |-> [h \in Handles |-> NoKey],
                 deadline  |-> [h \in Handles |-> NoDeadline],
                 timed_out |-> [h \in Handles |-> NoKey],
                 ready     |-> [i \in Handles |-> i],
                 current   |-> NoThread]
    BY DEF Init, Started, EmptyScheduler
  <2> QED BY <2>1, StartedOK
<1>4. now \in 0 .. MaxTime /\ call \in [Handles -> Calls]
  BY <1>1 DEF Init, Started, Calls
<1>5. SemaphoreTypeOK
  <2>1. NewSemaphore \in SemaphoreRecords /\ NewSemaphore.count <= NewSemaphore.maximum_count
    BY <1>1 DEF NewSemaphore, SemaphoreRecords
  <2> QED BY <2>1 DEF Init, SemaphoreInit, SemaphoreTypeOK
<1>6. EventFlagTypeOK
  BY DEF Init, EventFlagInit, NewFlag, EventFlagTypeOK
<1>7. GuardTypeOK /\ WordAgreesWithOwner
  BY DEF Init, GuardInit, GuardTypeOK, WordAgreesWithOwner
<1>8. NoLostWakeup
  BY <1>3, KeyFacts DEF NoLostWakeup, NoSleeperBesideCount, NoSleeperBesideBits,
     SleeperHasOwner
<1> QED BY <1>3, <1>4, <1>5, <1>6, <1>7, <1>8 DEF IInv, TypeOK

\* Every step of every service keeps the inductive invariant: what a service does
\* to its own sleepers is its own lemma, and it keeps the others' asleep.
LEMMA NextIInv == IInv /\ [Next]_vars => IInv'
<1> SUFFICES ASSUME IInv, [Next]_vars PROVE IInv'
  OBVIOUS
<1> USE DEF IInv, NoLostWakeup
<1>1. SchedulerOK(sched, WaitKeys) /\ call \in [Handles -> Calls]
  BY DEF TypeOK
<1>2. ASSUME KeysLeave(sched, sched'), SchedulerOK(sched', WaitKeys),
             UNCHANGED <<now, call>>, Objects
      PROVE  IInv'
  <2>1. \A k \in WaitKeys : SleepersKept(k)
    BY <1>2, LeavingKeeps
  <2>2. NoSleeperBesideCount' /\ NoSleeperBesideBits' /\ SleeperHasOwner'
    BY <1>2, <2>1, KeyTypes, SemaphoresUndisturbed, FlagsUndisturbed,
       GuardsUndisturbed DEF Objects
  <2> QED BY <1>2, <2>2 DEF Objects, TypeOK, SemaphoreTypeOK, EventFlagTypeOK,
             GuardTypeOK, WordAgreesWithOwner
<1>3. CASE Dispatch /\ Objects
  BY <1>1, <1>2, <1>3, SelectNextKeys, SelectNextOK DEF Dispatch
<1>4. ASSUME NEW h \in Handles, Relinquish(h), Objects PROVE IInv'
  BY <1>1, <1>2, <1>4, YieldCurrentKeys, YieldCurrentOK DEF Relinquish
<1>5. ASSUME NEW h \in Handles, NEW s \in Semaphores, SemaphoreOperation(h, s),
             UNCHANGED <<flags, words, owners>>
      PROVE  IInv'
  <2>1. SemaphoreStep(s)
    BY <1>5, SemaphoreOperationStep
  <2>2. /\ \A f \in Flags : SleepersKept(EventFlagWaitKey(f))
        /\ \A a \in Guards : SleepersKept(GuardWaitKey(a))
    BY <2>1, KeyFacts, KeyTypes DEF SemaphoreStep, SleepersKeptBut
  <2>3. NoSleeperBesideBits' /\ SleeperHasOwner'
    BY <1>5, <2>2, FlagsUndisturbed, GuardsUndisturbed
  <2> QED BY <1>5, <2>1, <2>3 DEF SemaphoreStep, TypeOK, EventFlagTypeOK,
             GuardTypeOK, WordAgreesWithOwner
<1>6. ASSUME NEW h \in Handles, NEW f \in Flags, EventFlagOperation(h, f),
             UNCHANGED <<semaphores, words, owners>>
      PROVE  IInv'
  <2>1. FlagStep(f)
    BY <1>6, FlagOperationStep
  <2>2. /\ \A s \in Semaphores : SleepersKept(SemaphoreWaitKey(s))
        /\ \A a \in Guards : SleepersKept(GuardWaitKey(a))
    BY <2>1, KeyFacts, KeyTypes DEF FlagStep, SleepersKeptBut
  <2>3. NoSleeperBesideCount' /\ SleeperHasOwner'
    BY <1>6, <2>2, SemaphoresUndisturbed, GuardsUndisturbed
  <2> QED BY <1>6, <2>1, <2>3 DEF FlagStep, TypeOK, SemaphoreTypeOK,
             GuardTypeOK, WordAgreesWithOwner
<1>7. ASSUME NEW h \in Handles, NEW a \in Guards, GuardOperation(h, a),
             UNCHANGED <<semaphores, flags>>
      PROVE  IInv'
  <2>1. GuardStep(a)
    BY <1>7, GuardOperationStep
  <2>2. /\ \A s \in Semaphores : SleepersKept(SemaphoreWaitKey(s))
        /\ \A f \in Flags : SleepersKept(EventFlagWaitKey(f))
    BY <2>1, KeyFacts, KeyTypes DEF GuardStep, SleepersKeptBut
  <2>3. NoSleeperBesideCount' /\ NoSleeperBesideBits'
    BY <1>7, <2>2, SemaphoresUndisturbed, FlagsUndisturbed
  <2> QED BY <1>7, <2>1, <2>3 DEF GuardStep, TypeOK, SemaphoreTypeOK, EventFlagTypeOK
<1>8. CASE UNCHANGED vars
  <2>1. KeysLeave(sched, sched')
    BY <1>8 DEF vars, KeysLeave
  <2> QED BY <1>1, <1>2, <1>8, <2>1 DEF vars, Objects
<1> QED BY <1>3, <1>4, <1>5, <1>6, <1>7, <1>8 DEF Next

\* The inductive invariant holds in every reachable state of the three services.
THEOREM Invariance == Spec => []IInv
<1>1. Init => IInv
  BY InitIInv
<1>2. IInv /\ [Next]_vars => IInv'
  BY NextIInv
<1> QED BY <1>1, <1>2, PTL DEF Spec

\* Scheduler, calls, semaphores, flags and guards keep their types.
THEOREM TypeCorrect == Spec => []TypeOK
<1>1. IInv => TypeOK
  BY DEF IInv
<1> QED BY <1>1, Invariance, PTL

\* No wake-up is lost: SemaphoreService, EventFlagService and CxaGuardService
\* leave a thread asleep only while the object cannot serve the wait it repeats.
THEOREM WakeupsReachSleepers == Spec => []NoLostWakeup
<1>1. IInv => NoLostWakeup
  BY DEF IInv
<1> QED BY <1>1, Invariance, PTL

\* The guard word in guest memory says pending exactly while owners_ has an entry.
THEOREM GuardWordCorrect == Spec => []WordAgreesWithOwner
<1>1. IInv => WordAgreesWithOwner
  BY DEF IInv
<1> QED BY <1>1, Invariance, PTL
=============================================================================

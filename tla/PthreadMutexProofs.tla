------------------------- MODULE PthreadMutexProofs -------------------------
(***************************************************************************)
(* The mutexes and condition variables are correct for any number of       *)
(* threads, mutexes, conditions and any recursion and clock bound: a mutex  *)
(* is handed over whole, exactly the queued threads sleep, the counts that  *)
(* keep the objects alive are exact, a woken waiter finds its reason, and a *)
(* wait returns with its mutex.                                             *)
(*                                                                         *)
(* The invariant has a part for each mutex (MutexOK), one for the queues of *)
(* the conditions (QueuesOK), one for each thread (WaitOK) and the counts   *)
(* (CountsOK).  A step touches one mutex, or those of an exiting thread;    *)
(* what every other mutex and thread may notice of it is Stays and Drifts.  *)
(***************************************************************************)
EXTENDS PthreadMutex, SchedulerLemmas, FiniteSetTheorems, FunctionTheorems

-----------------------------------------------------------------------------
(* The inductive invariant.                                                 *)

\* By the calls c, thread h is on its way to mutex m.
Asks(c, m, h) == c[h] = LockCall(m) \/ \E k \in Conditions : c[h] = WaitCall(k, m)

\* The threads that sleep on mutex m.
Sleepers(m, s) == {h \in Handles : s.wait_key[h] = MutexWaitKey(m, h)}

\* Mutex m, in state x, under the scheduler s and the calls c.
MutexOK(m, x, s, c) ==
  /\ x \in MutexRecords
  /\ x.owner = NoThread <=> x.recursion_count = 0
  /\ x.waiters # <<>> => x.owner # NoThread
  /\ x.owner # NoThread => Alive(s, x.owner)
  /\ x.owner # NoThread /\ Asks(c, m, x.owner) => x.owner \in x.granted_waiters
  /\ x.granted_waiters # {} => x.recursion_count = 1
  /\ \A h \in x.granted_waiters : h = x.owner /\ Awake(s, h) /\ Asks(c, m, h)
  /\ Lists(x.waiters, Sleepers(m, s))
  /\ \A h \in Sleepers(m, s) : Asks(c, m, h) /\ s.deadline[h] = NoDeadline
  /\ x.type = "none" => x = NoMutex

\* A thread is queued on one condition at most, once, and not with a wait that
\* is completed already.
QueuesOK(cs, done) ==
  /\ \A c \in Conditions : \A i, j \in DOMAIN cs[c].waiters :
       cs[c].waiters[i].thread = cs[c].waiters[j].thread => i = j
  /\ \A c, d \in Conditions : \A v \in Elements(cs[c].waiters), w \in Elements(cs[d].waiters) :
       v.thread = w.thread => c = d
  /\ \A c \in Conditions : \A w \in Elements(cs[c].waiters) :
       done[w.thread] = NoCompletion
  /\ \A c \in Conditions : ~cs[c].live => cs[c] = NoCondition

\* The wait w of thread h on condition c is asleep, or its time has come.
Pending(s, h, c, w, time) ==
  \/ s.wait_key[h] = ConditionWaitKey(c, h) /\ s.deadline[h] = w.deadline
  \/ /\ Awake(s, h) /\ s.timed_out[h] = ConditionWaitKey(c, h)
     /\ w.deadline # NoDeadline /\ w.deadline <= time

Queued(cs, h) == \E c \in Conditions : \E w \in Elements(cs[c].waiters) : w.thread = h

\* A thread in a condition wait has it completed and is on its way to the mutex,
\* or is queued; a thread in no wait is neither, unless it exited from one.
WaitOK(h, s, cs, done, c, time) ==
  /\ \A k \in Conditions, m \in Mutexes : c[h] = WaitCall(k, m) =>
       \/ /\ done[h].condition = k /\ done[h].mutex = m
          /\ s.wait_key[h] \in {NoKey, MutexWaitKey(m, h)}
       \/ /\ done[h] = NoCompletion
          /\ \E w \in Elements(cs[k].waiters) :
               w.thread = h /\ w.mutex = m /\ Pending(s, h, k, w, time)
  /\ Alive(s, h) /\ (\A k \in Conditions, m \in Mutexes : c[h] # WaitCall(k, m)) =>
       done[h] = NoCompletion /\ ~Queued(cs, h)

\* Thread h is in a wait on condition c with mutex m, signalled or not.
InWait(cs, done, h, c, m) ==
  \/ done[h].condition = c /\ done[h].mutex = m
  \/ \E w \in Elements(cs[c].waiters) : w.thread = h /\ w.mutex = m

WaitersOn(cs, done, c) == {h \in Handles : \E m \in Mutexes : InWait(cs, done, h, c, m)}
WaitersWith(cs, done, m) == {h \in Handles : \E c \in Conditions : InWait(cs, done, h, c, m)}

CountsOK(ms, cs, done) ==
  /\ \A c \in Conditions :
       cs[c].active_waiter_count = Cardinality(WaitersOn(cs, done, c))
  /\ \A m \in Mutexes :
       ms[m].condition_waiter_count = Cardinality(WaitersWith(cs, done, m))

IInv ==
  /\ TypeOK
  /\ \A m \in Mutexes : MutexOK(m, mutexes[m], sched, call)
  /\ QueuesOK(conditions, completed)
  /\ \A h \in Handles : WaitOK(h, sched, conditions, completed, call, now)
  /\ CountsOK(mutexes, conditions, completed)

-----------------------------------------------------------------------------
(* Wait keys and calls.                                                     *)

\* The wait key of a thread on a mutex or a condition ends in the thread and
\* differs from every other key.
LEMMA KeyFacts ==
  /\ \A m, h : MutexWaitKey(m, h) # NoKey /\ KeyThread(MutexWaitKey(m, h)) = h
  /\ \A c, h : ConditionWaitKey(c, h) # NoKey /\ KeyThread(ConditionWaitKey(c, h)) = h
  /\ \A m, h, n, g : MutexWaitKey(m, h) = MutexWaitKey(n, g) => m = n /\ h = g
  /\ \A c, h, d, g : ConditionWaitKey(c, h) = ConditionWaitKey(d, g) => c = d /\ h = g
  /\ \A m, h, c, g : MutexWaitKey(m, h) # ConditionWaitKey(c, g)
  /\ \A m, h, g : MutexWaitKey(m, h) # ThreadExitWaitKey(g)
  /\ \A c, h, g : ConditionWaitKey(c, h) # ThreadExitWaitKey(g)
<1>1. \A m, h : MutexWaitKey(m, h) # NoKey /\ KeyThread(MutexWaitKey(m, h)) = h
  BY DEF MutexWaitKey, KeyThread, NoKey
<1>2. \A c, h : ConditionWaitKey(c, h) # NoKey /\ KeyThread(ConditionWaitKey(c, h)) = h
  BY DEF ConditionWaitKey, KeyThread, NoKey
<1>3. \A m, h, n, g : MutexWaitKey(m, h) = MutexWaitKey(n, g) => m = n /\ h = g
  BY DEF MutexWaitKey
<1>4. \A c, h, d, g : ConditionWaitKey(c, h) = ConditionWaitKey(d, g) => c = d /\ h = g
  BY DEF ConditionWaitKey
<1>5. \A m, h, c, g : MutexWaitKey(m, h) # ConditionWaitKey(c, g)
  BY DEF MutexWaitKey, ConditionWaitKey
<1>6. /\ \A m, h, g : MutexWaitKey(m, h) # ThreadExitWaitKey(g)
      /\ \A c, h, g : ConditionWaitKey(c, h) # ThreadExitWaitKey(g)
  BY DEF MutexWaitKey, ConditionWaitKey, ThreadExitWaitKey
<1> QED BY <1>1, <1>2, <1>3, <1>4, <1>5, <1>6

\* Every object's keys are wait keys, and the empty key is none.
LEMMA KeyTypes ==
  /\ \A m \in Mutexes, h \in Handles : MutexWaitKey(m, h) \in WaitKeys
  /\ \A c \in Conditions, h \in Handles : ConditionWaitKey(c, h) \in WaitKeys
  /\ NoKey \notin WaitKeys
<1>1. \A m \in Mutexes, h \in Handles : MutexWaitKey(m, h) \in WaitKeys
  BY DEF WaitKeys
<1>2. \A c \in Conditions, h \in Handles : ConditionWaitKey(c, h) \in WaitKeys
  BY DEF WaitKeys
<1>3. NoKey \notin WaitKeys
  BY KeyFacts, ThreadExitKeyFacts DEF WaitKeys
<1> QED BY <1>1, <1>2, <1>3

\* Calls on different objects, or of different kinds, differ.
LEMMA CallFacts ==
  /\ \A m : LockCall(m) # NoCall
  /\ \A c, m : WaitCall(c, m) # NoCall
  /\ \A m, n : LockCall(m) = LockCall(n) => m = n
  /\ \A c, m, d, n : WaitCall(c, m) = WaitCall(d, n) => c = d /\ m = n
  /\ \A m, d, n : LockCall(m) # WaitCall(d, n)
BY DEF LockCall, WaitCall, NoCall

\* A thread asks for one mutex at most, and for none outside of a call.
LEMMA AskFacts ==
  /\ \A c, m, n, h : Asks(c, m, h) /\ Asks(c, n, h) => m = n
  /\ \A c, m, h : c[h] = NoCall => ~Asks(c, m, h)
  /\ \A c, m, n, h : c[h] = LockCall(n) => (Asks(c, m, h) <=> m = n)
  /\ \A c, m, n, h : \A k \in Conditions :
       c[h] = WaitCall(k, n) => (Asks(c, m, h) <=> m = n)
<1> USE DEF Asks
<1>1. \A c, m, n, h : Asks(c, m, h) /\ Asks(c, n, h) => m = n
  BY CallFacts
<1>2. \A c, m, h : c[h] = NoCall => ~Asks(c, m, h)
  BY CallFacts
<1>3. \A c, m, n, h : c[h] = LockCall(n) => (Asks(c, m, h) <=> m = n)
  BY CallFacts
<1>4. \A c, m, n, h : \A k \in Conditions :
        c[h] = WaitCall(k, n) => (Asks(c, m, h) <=> m = n)
  BY CallFacts
<1> QED BY <1>1, <1>2, <1>3, <1>4

\* Handles are not NoThread, and objects are not NoObject.
LEMMA HandleFacts ==
  NoThread \notin Handles /\ NoObject \notin Mutexes /\ NoObject \notin Conditions
BY MaxHandleAssumption, PthreadAssumption
   DEF NoThread, Handles, NoObject, Mutexes, Conditions

-----------------------------------------------------------------------------
(* What an exit and a wake-up change.                                       *)

\* ExitCurrent ends the running thread and wakes its joiners.
LEMMA ExitDrifts ==
  ASSUME NEW K, NEW s, SchedulerOK(s, K), CanLeave(s)
  PROVE  LET t == ExitCurrent(s)
             c == s.current
         IN  /\ SchedulerOK(t, K)
             /\ \A h \in Handles : h # c =>
                  \/ Steady(s, t, h)
                  \/ Roused(t, h) /\ s.wait_key[h] = ThreadExitWaitKey(c)
             /\ c \in Handles => t.state[c] = "exited" /\ t.wait_key[c] = NoKey
<1> DEFINE c == s.current
           t == ExitCurrent(s)
           J == BlockedOn(s, ThreadExitWaitKey(c))
<1>1. SchedulerOK(t, K)
  BY ExitCurrentOK
<1>2. \A h \in Handles :
        /\ t.state[h] = IF h \in J THEN "ready"
                        ELSE IF h = c THEN "exited" ELSE s.state[h]
        /\ t.wait_key[h] = IF h \in J \/ h = c THEN NoKey ELSE s.wait_key[h]
        /\ t.deadline[h] = IF h \in J \/ h = c THEN NoDeadline
                           ELSE s.deadline[h]
        /\ h \notin J /\ h # c => t.timed_out[h] = s.timed_out[h]
  BY DEF SchedulerOK, SchedulerType, ExitCurrent, CanLeave, MakeReady
<1>3. c \notin J
  BY DEF BlockedOn, CanLeave
<1>4. \A h \in J : s.wait_key[h] = ThreadExitWaitKey(c)
  BY DEF BlockedOn
<1> HIDE DEF t, J
<1>5. ASSUME NEW h \in Handles, h # c
      PROVE  \/ Steady(s, t, h)
             \/ Roused(t, h) /\ s.wait_key[h] = ThreadExitWaitKey(c)
  <2>1. CASE h \in J
    BY <1>2, <1>4, <2>1 DEF Roused, Awake
  <2>2. CASE h \notin J
    BY <1>2, <1>5, <2>2 DEF Steady, Awake, Alive
  <2> QED BY <2>1, <2>2
<1> QED BY <1>1, <1>2, <1>3, <1>5 DEF t

\* A list of keys that may be woken in turn: wait keys, each once.
KeyList(keys) ==
  /\ keys \in Seq(WaitKeys)
  /\ \A i \in DOMAIN keys : KeyThread(keys[i]) \in Handles
  /\ \A i, j \in DOMAIN keys : keys[i] = keys[j] => i = j

\* Waking keys in turn rouses their sleepers; the others notice nothing but
\* their deadlines.
LEMMA WakeDrifts ==
  ASSUME NEW s, SchedulerOK(s, WaitKeys), NEW keys, KeyList(keys), NEW time
  PROVE  LET t == WakeInTurn(s, keys, time)
         IN  /\ SchedulerOK(t, WaitKeys) /\ t.current = s.current
             /\ \A h \in Handles : IF h \in SleepersOf(s, keys) THEN Roused(t, h)
                                   ELSE Drifts(s, t, h, time)
             /\ \A h \in Handles : s.state[h] # "blocked" => t.state[h] = s.state[h]
<1> DEFINE t == WakeInTurn(s, keys, time)
           w == WakeExpiredThreads(s, time)
           W == SleepersOf(w, keys)
<1>1. CASE keys = <<>>
  <2>1. t = s /\ SleepersOf(s, keys) = {}
    BY <1>1 DEF WakeInTurn, SleepersOf
  <2> QED BY <2>1 DEF Drifts, Steady
<1>2. CASE keys # <<>>
  <2>1. SchedulerOK(t, WaitKeys) /\ Woken(w, W, t)
    BY <1>2, KeyTypes, WakeInTurnEffect DEF KeyList
  <2>2. /\ SchedulerOK(w, WaitKeys) /\ w.current = s.current
        /\ \A h \in Handles : Drifts(s, w, h, time)
        /\ \A h \in Handles : s.state[h] # "blocked" => w.state[h] = s.state[h]
    BY ExpiryDrifts
  <2> HIDE DEF t, w
  <2>3. /\ t.current = w.current
        /\ \A h \in W : Roused(t, h)
        /\ \A h \in Handles : h \notin W => Steady(w, t, h)
    BY <2>1 DEF Woken, Roused, Steady, Awake, Alive, SleepersOf
  <2>4. \A i \in DOMAIN keys : keys[i] # NoKey
    BY KeyTypes DEF KeyList
  <2>5. ASSUME NEW h \in Handles, h \in SleepersOf(s, keys) PROVE Roused(t, h)
    <3>1. PICK i \in DOMAIN keys : KeyThread(keys[i]) = h /\ s.wait_key[h] = keys[i]
      BY <2>5 DEF SleepersOf
    <3>2. w.wait_key[h] = keys[i] \/ Roused(w, h)
      BY <2>2, <3>1 DEF Drifts, Steady
    <3>3. CASE w.wait_key[h] = keys[i]
      BY <2>3, <3>1, <3>3 DEF SleepersOf
    <3>4. CASE Roused(w, h)
      <4>1. h \notin W
        BY <2>4, <3>4 DEF SleepersOf, Roused
      <4> QED BY <2>3, <3>4, <4>1 DEF Roused, Steady
    <3> QED BY <3>2, <3>3, <3>4
  <2>6. ASSUME NEW h \in Handles, h \notin SleepersOf(s, keys)
        PROVE  Drifts(s, t, h, time)
    <3>1. h \notin W
      <4>1. w.wait_key[h] = s.wait_key[h] \/ w.wait_key[h] = NoKey
        BY <2>2 DEF Drifts, Steady, Roused
      <4> QED BY <2>4, <2>6, <4>1 DEF SleepersOf
    <3> QED BY <2>2, <2>3, <3>1, DriftsOn
  <2>7. ASSUME NEW h \in Handles, s.state[h] # "blocked"
        PROVE  t.state[h] = s.state[h]
    <3>1. w.state[h] = s.state[h]
      BY <2>2, <2>7
    <3>2. w.wait_key[h] = NoKey
      BY <2>2, <2>7, <3>1 DEF SchedulerOK, WaitsOK
    <3>3. h \notin W
      BY <2>4, <3>2 DEF SleepersOf
    <3> QED BY <2>1, <3>1, <3>3 DEF Woken
  <2> QED BY <2>1, <2>2, <2>3, <2>5, <2>6, <2>7 DEF t
<1> QED BY <1>1, <1>2

-----------------------------------------------------------------------------
(* Steps that do not touch a mutex.                                         *)

\* The fields of a mutex's state.
LEMMA MutexFields ==
  ASSUME NEW x \in MutexRecords
  PROVE  /\ x.type \in MutexTypes \cup {"none"} /\ x.owner \in Handles \cup {NoThread}
         /\ x.recursion_count \in 0 .. MaxRecursion /\ x.waiters \in Seq(Handles)
         /\ x.granted_waiters \in SUBSET Handles
         /\ x.condition_waiter_count \in 0 .. MaxHandle
BY DEF MutexRecords

\* What mutex m, in state x, may notice of thread h.
Stays(m, x, s, c, t, d, h) ==
  /\ t.wait_key[h] = MutexWaitKey(m, h) <=> s.wait_key[h] = MutexWaitKey(m, h)
  /\ t.wait_key[h] = MutexWaitKey(m, h) => t.deadline[h] = NoDeadline /\ Asks(d, m, h)
  /\ x.owner = h => Alive(t, h) /\ (Asks(d, m, h) => Asks(c, m, h))
  /\ h \in x.granted_waiters => Awake(t, h) /\ Asks(d, m, h)

\* A mutex that notices no more of any thread stays correct.
LEMMA MutexKept ==
  ASSUME NEW m, NEW x, NEW s, NEW c, NEW t, NEW d, MutexOK(m, x, s, c),
         \A h \in Handles : Stays(m, x, s, c, t, d, h)
  PROVE  MutexOK(m, x, t, d)
<1>1. x \in MutexRecords /\ x.owner \in Handles \cup {NoThread}
      /\ x.granted_waiters \in SUBSET Handles
  BY MutexFields DEF MutexOK
<1>2. Sleepers(m, t) = Sleepers(m, s)
  BY DEF Stays, Sleepers
<1>3. \A h \in Sleepers(m, t) : Asks(d, m, h) /\ t.deadline[h] = NoDeadline
  BY DEF Stays, Sleepers
<1>4. x.owner # NoThread => Alive(t, x.owner)
  BY <1>1 DEF Stays
<1>5. x.owner # NoThread /\ Asks(d, m, x.owner) => x.owner \in x.granted_waiters
  BY <1>1 DEF Stays, MutexOK
<1>6. \A h \in x.granted_waiters : h = x.owner /\ Awake(t, h) /\ Asks(d, m, h)
  BY <1>1 DEF Stays, MutexOK
<1> QED BY <1>2, <1>3, <1>4, <1>5, <1>6 DEF MutexOK

\* A thread that drifts in the same call is such a thread.
LEMMA DriftStays ==
  ASSUME NEW m, NEW x, NEW s, NEW c, NEW t, NEW d, NEW h \in Handles, NEW time,
         MutexOK(m, x, s, c), Drifts(s, t, h, time), d[h] = c[h]
  PROVE  Stays(m, x, s, c, t, d, h)
<1>1. \A k : Asks(d, k, h) <=> Asks(c, k, h)
  BY DEF Asks
<1>2. s.wait_key[h] = MutexWaitKey(m, h) => Asks(c, m, h) /\ s.deadline[h] = NoDeadline
  BY DEF MutexOK, Sleepers
<1>3. x.owner = h => Alive(s, h)
  BY HandleFacts DEF MutexOK
<1>4. h \in x.granted_waiters => Awake(s, h) /\ Asks(c, m, h)
  BY DEF MutexOK
<1>5. Roused(t, h) => Alive(t, h) /\ Awake(t, h)
  BY DEF Roused, Alive, Awake
<1>6. CASE Steady(s, t, h)
  BY <1>1, <1>2, <1>3, <1>4, <1>6 DEF Stays, Steady
<1>7. CASE Roused(t, h) /\ s.wait_key[h] # MutexWaitKey(m, h)
  <2>1. t.wait_key[h] # MutexWaitKey(m, h)
    BY <1>7, KeyFacts DEF Roused
  <2> QED BY <1>1, <1>3, <1>4, <1>5, <1>7, <2>1 DEF Stays
<1>8. h \in Expired(s, time) => s.wait_key[h] # MutexWaitKey(m, h)
  BY <1>2 DEF Expired
<1>9. \A g : s.wait_key[h] = ThreadExitWaitKey(g) => s.wait_key[h] # MutexWaitKey(m, h)
  BY KeyFacts
<1> QED BY <1>6, <1>7, <1>8, <1>9 DEF Drifts

\* What mutex m may notice of a thread: it drifts, or is roused from elsewhere.
Passes(m, s, t, h, time) ==
  Drifts(s, t, h, time) \/ (Roused(t, h) /\ s.wait_key[h] # MutexWaitKey(m, h))

LEMMA PassStays ==
  ASSUME NEW m, NEW x, NEW s, NEW c, NEW t, NEW d, NEW h \in Handles, NEW time,
         MutexOK(m, x, s, c), Passes(m, s, t, h, time), d[h] = c[h]
  PROVE  Stays(m, x, s, c, t, d, h)
<1>1. CASE Drifts(s, t, h, time)
  BY <1>1, DriftStays
<1>2. CASE Roused(t, h) /\ s.wait_key[h] # MutexWaitKey(m, h)
  <2>1. t.wait_key[h] # MutexWaitKey(m, h) /\ Awake(t, h) /\ Alive(t, h)
    BY <1>2, KeyFacts DEF Roused, Awake, Alive
  <2>2. h \in x.granted_waiters => Asks(c, m, h)
    BY DEF MutexOK
  <2> QED BY <1>2, <2>1, <2>2 DEF Stays, Asks
<1> QED BY <1>1, <1>2 DEF Passes

\* The count of condition waits is no part of MutexOK.
LEMMA CountChanged ==
  ASSUME NEW m, NEW x, NEW s, NEW c, MutexOK(m, x, s, c), x.type # "none",
         NEW n \in 0 .. MaxHandle
  PROVE  MutexOK(m, [x EXCEPT !.condition_waiter_count = n], s, c)
<1> DEFINE y == [x EXCEPT !.condition_waiter_count = n]
<1>1. x \in MutexRecords
  BY DEF MutexOK
<1>2. /\ y \in MutexRecords
      /\ y.type = x.type /\ y.owner = x.owner /\ y.waiters = x.waiters
      /\ y.recursion_count = x.recursion_count
      /\ y.granted_waiters = x.granted_waiters
  BY <1>1 DEF MutexRecords
<1> HIDE DEF y
<1>3. MutexOK(m, y, s, c)
  BY <1>2 DEF MutexOK
<1> QED BY <1>3 DEF y

-----------------------------------------------------------------------------
(* Steps that do not touch a thread's wait.                                 *)

EntriesOf(cs, k, h) == {w \in Elements(cs[k].waiters) : w.thread = h}

\* The thread drifts, in the same call, and its entries stay.
LEMMA WaitKept ==
  ASSUME NEW h \in Handles, NEW s, NEW cs, NEW done, NEW c, NEW time \in Nat,
         NEW t, NEW ds, NEW end, NEW d, NEW later \in Nat,
         WaitOK(h, s, cs, done, c, time),
         \A k \in Conditions : ds[k].waiters \in Seq(Waiters),
         SchedulerOK(s, WaitKeys), NEW by \in Nat, Drifts(s, t, h, by), by <= later,
         time <= later, d[h] = c[h],
         end[h] = done[h], \A k \in Conditions : EntriesOf(ds, k, h) = EntriesOf(cs, k, h)
  PROVE  WaitOK(h, t, ds, end, d, later)
<1>1. \A k \in Conditions : \A w \in Elements(ds[k].waiters) : w.thread = h =>
        w \in Elements(cs[k].waiters)
  BY DEF EntriesOf
<1>2. \A k \in Conditions : \A w \in Elements(cs[k].waiters) : w.thread = h =>
        w \in Elements(ds[k].waiters) /\ w.deadline \in Nat \cup {NoDeadline}
  <2> SUFFICES ASSUME NEW k \in Conditions, NEW w \in Elements(cs[k].waiters), w.thread = h
               PROVE  w \in Elements(ds[k].waiters) /\ w.deadline \in Nat \cup {NoDeadline}
    OBVIOUS
  <2>1. w \in EntriesOf(cs, k, h)
    BY DEF EntriesOf
  <2>2. w \in Elements(ds[k].waiters)
    BY <2>1 DEF EntriesOf
  <2>3. \A i \in DOMAIN ds[k].waiters : ds[k].waiters[i] \in Waiters
    OBVIOUS
  <2> QED BY <2>2, <2>3 DEF Elements, Waiters
<1>3. Queued(ds, h) => Queued(cs, h)
  BY <1>1 DEF Queued
<1>0. s.wait_key[h] # NoKey => s.state[h] = "blocked" /\ ~Awake(s, h)
  BY DEF SchedulerOK, WaitsOK, Awake
<1>9. \A g : s.wait_key[h] = ThreadExitWaitKey(g) => s.state[h] = "blocked" /\ ~Awake(s, h)
  BY <1>0, ThreadExitKeyFacts
<1>4. ASSUME NEW k \in Conditions, NEW m \in Mutexes, d[h] = WaitCall(k, m)
      PROVE  \/ /\ end[h].condition = k /\ end[h].mutex = m
                /\ t.wait_key[h] \in {NoKey, MutexWaitKey(m, h)}
             \/ /\ end[h] = NoCompletion
                /\ \E w \in Elements(ds[k].waiters) :
                     w.thread = h /\ w.mutex = m /\ Pending(t, h, k, w, later)
  <2>1. \/ /\ done[h].condition = k /\ done[h].mutex = m
           /\ s.wait_key[h] \in {NoKey, MutexWaitKey(m, h)}
        \/ /\ done[h] = NoCompletion
           /\ \E w \in Elements(cs[k].waiters) :
                w.thread = h /\ w.mutex = m /\ Pending(s, h, k, w, time)
    BY <1>4 DEF WaitOK
  <2>2. CASE /\ done[h].condition = k /\ done[h].mutex = m
             /\ s.wait_key[h] \in {NoKey, MutexWaitKey(m, h)}
    BY <2>2 DEF Drifts, Steady, Roused
  <2>3. CASE /\ done[h] = NoCompletion
             /\ \E w \in Elements(cs[k].waiters) :
                  w.thread = h /\ w.mutex = m /\ Pending(s, h, k, w, time)
    <3>1. PICK w \in Elements(cs[k].waiters) :
                  w.thread = h /\ w.mutex = m /\ Pending(s, h, k, w, time)
      BY <2>3
    <3>2. w \in Elements(ds[k].waiters) /\ w.deadline \in Nat \cup {NoDeadline}
      BY <1>2, <3>1
    <3>3. Pending(t, h, k, w, later)
      <4>1. CASE s.wait_key[h] = ConditionWaitKey(k, h) /\ s.deadline[h] = w.deadline
        <5>1. CASE Steady(s, t, h)
          BY <4>1, <5>1 DEF Steady, Pending
        <5>2. CASE h \in Expired(s, by) /\ Roused(t, h) /\ t.timed_out[h] = s.wait_key[h]
          <6>1. w.deadline # NoDeadline /\ w.deadline <= by
            BY <4>1, <5>2 DEF Expired
          <6>2. w.deadline <= later
            BY <3>2, <6>1
          <6> QED BY <4>1, <5>2, <6>1, <6>2 DEF Pending, Roused
        <5>3. CASE \E g \in Handles : s.wait_key[h] = ThreadExitWaitKey(g)
          <6>1. PICK g \in Handles : s.wait_key[h] = ThreadExitWaitKey(g)
            BY <5>3
          <6>2. ConditionWaitKey(k, h) # ThreadExitWaitKey(g)
            BY KeyFacts, Zenon
          <6> QED BY <4>1, <6>1, <6>2
        <5> QED BY <5>1, <5>2, <5>3 DEF Drifts
      <4>2. CASE /\ Awake(s, h) /\ s.timed_out[h] = ConditionWaitKey(k, h)
                 /\ w.deadline # NoDeadline /\ w.deadline <= time
                 /\ Steady(s, t, h)
        <5>1. w.deadline <= later
          BY <3>2, <4>2
        <5> QED BY <4>2, <5>1 DEF Pending, Steady
      <4>3. CASE /\ Awake(s, h) /\ h \in Expired(s, by)
        BY <4>3 DEF Expired, Awake
      <4>4. CASE /\ Awake(s, h) /\ s.timed_out[h] = ConditionWaitKey(k, h)
                 /\ w.deadline # NoDeadline /\ w.deadline <= time
                 /\ \E g \in Handles : s.wait_key[h] = ThreadExitWaitKey(g)
        BY <1>9, <4>4
      <4> QED BY <3>1, <4>1, <4>2, <4>3, <4>4 DEF Pending, Drifts
    <3> QED BY <2>3, <3>1, <3>2, <3>3
  <2> QED BY <2>1, <2>2, <2>3
<1>5. Alive(t, h) => Alive(s, h)
  BY <1>9 DEF Drifts, Steady, Expired, Alive
<1> QED BY <1>3, <1>4, <1>5 DEF WaitOK

-----------------------------------------------------------------------------
(* Locking.                                                                 *)

\* h is queued on the mutex, which somebody else has.
Queues(x, y, h) ==
  /\ x.owner \notin {NoThread, h} /\ y.owner = x.owner
  /\ y.recursion_count = x.recursion_count
  /\ y.granted_waiters = x.granted_waiters /\ y.waiters = Append(x.waiters, h)

\* h takes the mutex, or has it and keeps it, or leaves it as it is.
Answers(x, y, h) ==
  /\ y.waiters = x.waiters
  /\ \/ /\ x.owner = NoThread /\ y.owner = h /\ y.recursion_count = 1
        /\ y.granted_waiters = x.granted_waiters
     \/ /\ x.owner = h /\ y.owner = h /\ y.recursion_count # 0
        /\ y.granted_waiters = x.granted_waiters \ {h}
        /\ h \in x.granted_waiters => y.recursion_count = x.recursion_count
     \/ /\ x.owner \notin {NoThread, h} /\ y.owner = x.owner
        /\ y.recursion_count = x.recursion_count
        /\ y.granted_waiters = x.granted_waiters

\* What LockMutex makes of the mutex, by its answer.
LEMMA LockFacts ==
  ASSUME NEW x \in MutexRecords, NEW h \in Handles, NEW try_only \in BOOLEAN,
         x.owner = NoThread <=> x.recursion_count = 0,
         \A i \in DOMAIN x.waiters : x.waiters[i] # h
  PROVE  LET y == AfterLock(x, h, try_only)
             st == LockStatus(x, h, try_only)
         IN  /\ y \in MutexRecords /\ y.type = x.type
             /\ y.condition_waiter_count = x.condition_waiter_count
             /\ IF st = "kWouldBlock" THEN Queues(x, y, h) /\ ~try_only
                ELSE Answers(x, y, h)
<1> DEFINE y == AfterLock(x, h, try_only)
           st == LockStatus(x, h, try_only)
           r == x.recursion_count
<1> USE HandleFacts
<1>0. /\ r \in Nat /\ r <= MaxRecursion /\ MaxRecursion \in Nat /\ MaxRecursion >= 1
      /\ x.waiters \in Seq(Handles) /\ x.owner \in Handles \cup {NoThread}
      /\ x.granted_waiters \in SUBSET Handles
  BY PthreadAssumption, MutexFields
<1>1. CASE x.owner = NoThread
  <2>1. st = "kOk"
    BY <1>1 DEF LockStatus
  <2>2. y = [x EXCEPT !.owner = h, !.recursion_count = 1]
    BY <1>1, <2>1 DEF AfterLock
  <2>3. /\ y \in MutexRecords /\ y.type = x.type /\ y.waiters = x.waiters
        /\ y.condition_waiter_count = x.condition_waiter_count
        /\ y.owner = h /\ y.recursion_count = 1 /\ y.granted_waiters = x.granted_waiters
    <3> HIDE DEF y
    <3>1. h \in Handles \cup {NoThread} /\ 1 \in 0 .. MaxRecursion
      BY <1>0
    <3> QED BY <2>2, <3>1 DEF MutexRecords
  <2> HIDE DEF y
  <2> QED BY <1>1, <2>1, <2>3 DEF Answers, y
<1>2. CASE x.owner = h /\ h \in x.granted_waiters
  <2>1. st = "kOk" /\ x.owner # NoThread
    BY <1>2 DEF LockStatus
  <2>2. y = [x EXCEPT !.granted_waiters = @ \ {h}]
    BY <1>2, <2>1 DEF AfterLock
  <2>3. /\ y \in MutexRecords /\ y.type = x.type /\ y.waiters = x.waiters
        /\ y.condition_waiter_count = x.condition_waiter_count
        /\ y.owner = h /\ y.recursion_count = r
        /\ y.granted_waiters = x.granted_waiters \ {h}
    BY <1>0, <1>2, <2>2 DEF MutexRecords
  <2> HIDE DEF y
  <2> QED BY <1>2, <2>1, <2>3 DEF Answers, y
<1>3. CASE x.owner = h /\ h \notin x.granted_waiters
  <2>1. x.owner # NoThread /\ st # "kWouldBlock" /\ x.granted_waiters = x.granted_waiters \ {h}
    BY <1>3 DEF LockStatus
  <2>2. CASE y = x
    BY <1>3, <2>1, <2>2 DEF Answers
  <2>3. CASE y # x
    <3>1. st = "kOk" /\ Relocks(x, try_only)
      BY <1>3, <2>1, <2>3 DEF AfterLock
    <3>2. r # MaxRecursion
      <4>1. r = MaxRecursion /\ Relocks(x, try_only) =>
              LockStatus(x, h, try_only) = "kNoResources"
        BY <1>3, <2>1 DEF LockStatus, Relocks
      <4> QED BY <3>1, <4>1
    <3>3. y = [x EXCEPT !.recursion_count = @ + 1]
      BY <1>3, <2>1, <3>1 DEF AfterLock
    <3>4. /\ y \in MutexRecords /\ y.type = x.type /\ y.waiters = x.waiters
          /\ y.condition_waiter_count = x.condition_waiter_count
          /\ y.owner = h /\ y.recursion_count = r + 1
          /\ y.granted_waiters = x.granted_waiters
      BY <1>0, <1>3, <3>2, <3>3 DEF MutexRecords
    <3> HIDE DEF y
    <3> QED BY <1>0, <1>3, <2>1, <3>4 DEF Answers, y
  <2> QED BY <2>2, <2>3
<1>4. CASE x.owner \notin {NoThread, h}
  <2>1. st = IF try_only THEN "kBusy" ELSE "kWouldBlock"
    BY <1>4 DEF LockStatus
  <2>2. CASE try_only
    <3>1. y = x /\ st = "kBusy"
      BY <2>1, <2>2 DEF AfterLock
    <3> QED BY <1>4, <3>1 DEF Answers
  <2>3. CASE ~try_only
    <3>1. st = "kWouldBlock" /\ y = [x EXCEPT !.waiters = Append(@, h)]
      <4>1. st = "kWouldBlock"
        BY <2>1, <2>3
      <4>2. ~ \E i \in DOMAIN x.waiters : x.waiters[i] = h
        OBVIOUS
      <4>3. y = [x EXCEPT !.waiters = IF \E i \in DOMAIN @ : @[i] = h
                                      THEN @ ELSE Append(@, h)]
        BY <4>1 DEF AfterLock
      <4> HIDE DEF y, st
      <4> QED BY <4>1, <4>2, <4>3
    <3>2. Append(x.waiters, h) \in Seq(Handles)
      BY <1>0
    <3>3. /\ y \in MutexRecords /\ y.type = x.type /\ y.waiters = Append(x.waiters, h)
          /\ y.condition_waiter_count = x.condition_waiter_count
          /\ y.owner = x.owner /\ y.recursion_count = r
          /\ y.granted_waiters = x.granted_waiters
      BY <1>0, <3>1, <3>2 DEF MutexRecords
    <3> HIDE DEF y
    <3> QED BY <1>4, <2>3, <3>1, <3>3 DEF Queues, y
  <2> QED BY <2>2, <2>3
<1> QED BY <1>1, <1>2, <1>3, <1>4

\* A thread that has the mutex only if it was handed it gets it or must wait.
LEMMA RelockStatus ==
  ASSUME NEW x, NEW h, x.owner = h => h \in x.granted_waiters
  PROVE  LockStatus(x, h, FALSE) =
           IF x.owner \in {NoThread, h} THEN "kOk" ELSE "kWouldBlock"
BY DEF LockStatus

\* The running thread sleeps on no mutex and is in no queue.
LEMMA RunnerNotQueued ==
  ASSUME NEW m, NEW x, NEW s, NEW c, MutexOK(m, x, s, c), NEW h, s.wait_key[h] = NoKey
  PROVE  h \notin Sleepers(m, s) /\ \A i \in DOMAIN x.waiters : x.waiters[i] # h
<1>1. h \notin Sleepers(m, s)
  BY KeyFacts DEF Sleepers
<1>2. \A i \in DOMAIN x.waiters : x.waiters[i] \in Sleepers(m, s)
  <2>1. x.waiters \in Seq(Sleepers(m, s))
    BY DEF MutexOK, Lists
  <2> QED BY <2>1
<1> QED BY <1>1, <1>2

\* The other threads while h makes a call that only h notices.
OthersSteady(s, c, t, d, h) ==
  \A g \in Handles : g # h => Steady(s, t, g) /\ d[g] = c[g]

\* The mutex after a call that queued its thread.
LEMMA QueuesKeeps ==
  ASSUME NEW m, NEW x, NEW y \in MutexRecords, NEW s, NEW c, NEW t, NEW d,
         NEW h \in Handles, MutexOK(m, x, s, c), x.type # "none", y.type = x.type,
         Queues(x, y, h), s.wait_key[h] = NoKey, OthersSteady(s, c, t, d, h),
         t.wait_key[h] = MutexWaitKey(m, h), t.deadline[h] = NoDeadline, Asks(d, m, h)
  PROVE  MutexOK(m, y, t, d)
<1>1. h \notin Sleepers(m, s)
  BY RunnerNotQueued
<1>2. Sleepers(m, t) = Sleepers(m, s) \cup {h}
  BY DEF Sleepers, OthersSteady, Steady
<1>3. Lists(y.waiters, Sleepers(m, t))
  BY <1>1, <1>2, ListsAppend DEF Queues, MutexOK
<1>4. \A g \in Handles : g # h => (Asks(d, m, g) <=> Asks(c, m, g))
  BY DEF OthersSteady, Asks
<1>5. \A g \in Sleepers(m, t) : Asks(d, m, g) /\ t.deadline[g] = NoDeadline
  BY <1>2, <1>4 DEF OthersSteady, Steady, Sleepers, MutexOK
<1>6. /\ x.owner \in Handles /\ x.owner # h /\ x.owner # NoThread
      /\ \A g \in x.granted_waiters : g \in Handles /\ g # h
  BY MutexFields DEF Queues, MutexOK
<1>7. Alive(t, x.owner) /\ (Asks(d, m, x.owner) => x.owner \in x.granted_waiters)
  BY <1>4, <1>6 DEF OthersSteady, Steady, MutexOK
<1>8. \A g \in x.granted_waiters : g = x.owner /\ Awake(t, g) /\ Asks(d, m, g)
  BY <1>4, <1>6 DEF OthersSteady, Steady, MutexOK
<1> QED BY <1>3, <1>5, <1>6, <1>7, <1>8 DEF Queues, MutexOK

\* The mutex after a call that answered.
LEMMA AnswersKeeps ==
  ASSUME NEW m, NEW x, NEW y \in MutexRecords, NEW s, NEW c, NEW t, NEW d,
         NEW h \in Handles, MutexOK(m, x, s, c), x.type # "none", y.type = x.type,
         Answers(x, y, h), s.wait_key[h] = NoKey, OthersSteady(s, c, t, d, h),
         t.wait_key[h] = NoKey, Awake(t, h), ~Asks(d, m, h)
  PROVE  MutexOK(m, y, t, d)
<1> USE HandleFacts
<1>1. h \notin Sleepers(m, s)
  BY RunnerNotQueued
<1>2. Sleepers(m, t) = Sleepers(m, s)
  BY <1>1, KeyFacts DEF Sleepers, OthersSteady, Steady
<1>3. Lists(y.waiters, Sleepers(m, t))
  BY <1>2 DEF Answers, MutexOK
<1>4. \A g \in Handles : g # h => (Asks(d, m, g) <=> Asks(c, m, g))
  BY DEF OthersSteady, Asks
<1>5. \A g \in Sleepers(m, t) : Asks(d, m, g) /\ t.deadline[g] = NoDeadline
  BY <1>1, <1>2, <1>4 DEF OthersSteady, Steady, Sleepers, MutexOK
<1>6. /\ x.owner \in Handles \cup {NoThread}
      /\ \A g \in x.granted_waiters : g \in Handles /\ g = x.owner
  BY MutexFields DEF MutexOK
<1>7. Alive(t, h)
  BY DEF Awake, Alive
<1>8. CASE x.owner \in {NoThread, h}
  <2>1. y.owner = h /\ y.recursion_count # 0 /\ y.granted_waiters = {}
    <3>1. CASE x.owner = NoThread
      BY <1>6, <3>1 DEF Answers
    <3>2. CASE x.owner = h
      BY <1>6, <3>2 DEF Answers
    <3> QED BY <1>8, <3>1, <3>2
  <2> QED BY <1>3, <1>5, <1>7, <2>1 DEF MutexOK
<1>9. CASE x.owner \notin {NoThread, h}
  <2>1. /\ y.owner = x.owner /\ y.recursion_count = x.recursion_count
        /\ y.granted_waiters = x.granted_waiters
    BY <1>9 DEF Answers
  <2>2. Alive(t, x.owner) /\ (Asks(d, m, x.owner) => x.owner \in x.granted_waiters)
    BY <1>4, <1>6, <1>9 DEF OthersSteady, Steady, MutexOK
  <2>3. \A g \in x.granted_waiters : g = x.owner /\ Awake(t, g) /\ Asks(d, m, g)
    BY <1>4, <1>6, <1>9 DEF OthersSteady, Steady, MutexOK
  <2> QED BY <1>3, <1>5, <1>9, <2>1, <2>2, <2>3 DEF MutexOK
<1> QED BY <1>8, <1>9

-----------------------------------------------------------------------------
(* Giving a mutex up.                                                       *)

\* The waiter that inherits the mutex, if there is one.
Heirs(x) == IF x.waiters = <<>> THEN {} ELSE {Head(x.waiters)}

\* What a release by h makes of a mutex nobody is granted but h.
LEMMA ReleaseFacts ==
  ASSUME NEW x \in MutexRecords, NEW h, x.granted_waiters \subseteq {h}
  PROVE  LET y == Release(x, h)
         IN  /\ y \in MutexRecords /\ y.type = x.type
             /\ y.condition_waiter_count = x.condition_waiter_count
             /\ y.granted_waiters = Heirs(x)
             /\ IF x.waiters = <<>>
                THEN y.owner = NoThread /\ y.recursion_count = 0 /\ y.waiters = <<>>
                ELSE /\ y.owner = x.waiters[1] /\ y.recursion_count = 1
                     /\ y.waiters = SubSeq(x.waiters, 2, Len(x.waiters))
<1> DEFINE y == Release(x, h)
<1>1. /\ 0 \in 0 .. MaxRecursion /\ 1 \in 0 .. MaxRecursion
      /\ x.waiters \in Seq(Handles)
  BY PthreadAssumption, MutexFields
<1>2. CASE x.waiters = <<>>
  <2>1. y = [x EXCEPT !.owner = NoThread, !.recursion_count = 0,
                      !.granted_waiters = @ \ {h}]
    BY <1>2 DEF Release
  <2>2. x.granted_waiters \ {h} = {} /\ Heirs(x) = {}
    BY <1>2 DEF Heirs
  <2> HIDE DEF y
  <2>3. /\ y \in MutexRecords /\ y.type = x.type
        /\ y.condition_waiter_count = x.condition_waiter_count
        /\ y.granted_waiters = Heirs(x)
        /\ y.owner = NoThread /\ y.recursion_count = 0 /\ y.waiters = <<>>
    BY <1>1, <1>2, <2>1, <2>2 DEF MutexRecords
  <2> QED BY <1>2, <2>3 DEF y
<1>3. CASE x.waiters # <<>>
  <2> DEFINE g == Head(x.waiters)
             G == (x.granted_waiters \ {h}) \cup {g}
  <2>1. y = [x EXCEPT !.owner = g, !.recursion_count = 1,
                      !.granted_waiters = G, !.waiters = Tail(@)]
    BY <1>3 DEF Release
  <2>2. /\ g \in Handles /\ g = x.waiters[1]
        /\ Tail(x.waiters) \in Seq(Handles)
        /\ Tail(x.waiters) = SubSeq(x.waiters, 2, Len(x.waiters))
    BY <1>1, <1>3
  <2>3. G = {g} /\ Heirs(x) = {g} /\ G \in SUBSET Handles
    BY <1>3, <2>2 DEF Heirs
  <2> HIDE DEF y, g, G
  <2>4. /\ y \in MutexRecords /\ y.type = x.type
        /\ y.condition_waiter_count = x.condition_waiter_count
        /\ y.granted_waiters = G
        /\ y.owner = g /\ y.recursion_count = 1 /\ y.waiters = Tail(x.waiters)
    BY <1>1, <2>1, <2>2, <2>3 DEF MutexRecords
  <2> QED BY <1>3, <2>2, <2>3, <2>4 DEF y
<1> QED BY <1>2, <1>3

\* What the step in which h releases mutex m, in state x, does to the threads:
\* the heir is roused, the others but h pass m by.
HandsOn(m, x, s, c, t, d, h, time) ==
  \A g \in Handles : g # h =>
    /\ d[g] = c[g]
    /\ IF g \in Heirs(x) THEN Roused(t, g) ELSE Passes(m, s, t, g, time)

\* The mutex after its owner gave it up.
LEMMA ReleaseKeeps ==
  ASSUME NEW m, NEW x, NEW s, NEW c, NEW t, NEW d, NEW h \in Handles, NEW time,
         MutexOK(m, x, s, c), x.owner = h, HandsOn(m, x, s, c, t, d, h, time),
         s.wait_key[h] = NoKey, t.wait_key[h] # MutexWaitKey(m, h)
  PROVE  MutexOK(m, Release(x, h), t, d)
<1> DEFINE y == Release(x, h)
           q == x.waiters
<1> USE HandleFacts
<1>1. /\ x \in MutexRecords /\ x.granted_waiters \subseteq {h}
      /\ Lists(q, Sleepers(m, s)) /\ q \in Seq(Handles)
  BY MutexFields DEF MutexOK
<1>2. x.type # "none" /\ x.owner # NoThread
  BY DEF MutexOK, NoMutex
<1>3. /\ y \in MutexRecords /\ y.type = x.type /\ y.granted_waiters = Heirs(x)
      /\ IF q = <<>>
         THEN y.owner = NoThread /\ y.recursion_count = 0 /\ y.waiters = <<>>
         ELSE /\ y.owner = q[1] /\ y.recursion_count = 1
              /\ y.waiters = SubSeq(q, 2, Len(q))
  BY <1>1, ReleaseFacts
<1> HIDE DEF y
<1>4. h \notin Sleepers(m, s)
  BY RunnerNotQueued
<1>5. Heirs(x) \subseteq Sleepers(m, s) /\ (q # <<>> => Heirs(x) = {q[1]})
  <2>1. CASE q = <<>>
    BY <2>1 DEF Heirs
  <2>2. CASE q # <<>>
    <3>1. Len(q) # 0 /\ Head(q) = q[1]
      BY <1>1, <2>2
    <3>2. q[1] \in Sleepers(m, s)
      BY <1>1, <3>1, ListsRest
    <3> QED BY <2>2, <3>1, <3>2 DEF Heirs
  <2> QED BY <2>1, <2>2
<1>6. Lists(y.waiters, Sleepers(m, s) \ Heirs(x))
  <2>1. CASE q = <<>>
    BY <1>1, <1>3, <2>1 DEF Heirs
  <2>2. CASE q # <<>>
    <3>1. Len(q) # 0
      BY <1>1, <2>2
    <3>2. Lists(SubSeq(q, 2, Len(q)), Sleepers(m, s) \ {q[1]})
      BY <1>1, <3>1, ListsRest
    <3> QED BY <1>3, <1>5, <2>2, <3>2
  <2> QED BY <2>1, <2>2
<1>7. ASSUME NEW g \in Handles, g # h, g \notin Heirs(x)
      PROVE  Stays(m, x, s, c, t, d, g)
  BY <1>7, PassStays DEF HandsOn
<1>8. \A g \in Heirs(x) : g \in Handles /\ g # h /\ t.wait_key[g] # MutexWaitKey(m, g)
  BY <1>4, <1>5, KeyFacts DEF HandsOn, Roused, Sleepers
<1>9. Sleepers(m, t) = Sleepers(m, s) \ Heirs(x)
  <2>1. ASSUME NEW g \in Handles
        PROVE  g \in Sleepers(m, t) <=> g \in Sleepers(m, s) /\ g \notin Heirs(x)
    <3>1. CASE g = h
      BY <1>4, <3>1 DEF Sleepers
    <3>2. CASE g \in Heirs(x)
      BY <1>8, <3>2 DEF Sleepers
    <3>3. CASE g # h /\ g \notin Heirs(x)
      BY <1>7, <3>3 DEF Sleepers, Stays
    <3> QED BY <3>1, <3>2, <3>3
  <2> QED BY <2>1 DEF Sleepers
<1>10. \A g \in Sleepers(m, t) : Asks(d, m, g) /\ t.deadline[g] = NoDeadline
  BY <1>4, <1>7, <1>9 DEF Sleepers, Stays
<1>11. \A g \in Heirs(x) : Awake(t, g) /\ Alive(t, g) /\ Asks(d, m, g)
  <2> SUFFICES ASSUME NEW g \in Heirs(x) PROVE Awake(t, g) /\ Alive(t, g) /\ Asks(d, m, g)
    OBVIOUS
  <2>1. Awake(t, g) /\ d[g] = c[g] /\ g \in Sleepers(m, s)
    BY <1>5, <1>8 DEF HandsOn, Roused
  <2>2. Asks(c, m, g)
    BY <2>1 DEF MutexOK
  <2> QED BY <2>1, <2>2 DEF Asks, Awake, Alive
<1>12. MutexOK(m, y, t, d)
  <2>1. Lists(y.waiters, Sleepers(m, t))
    BY <1>6, <1>9
  <2>2. CASE q = <<>>
    BY <1>2, <1>3, <1>10, <2>1, <2>2 DEF Heirs, MutexOK
  <2>3. CASE q # <<>>
    <3>1. y.owner \in Heirs(x) /\ y.recursion_count = 1 /\ y.granted_waiters = {y.owner}
      BY <1>3, <1>5, <2>3
    <3>2. y.owner \in Handles /\ y.owner # NoThread
      BY <1>8, <3>1
    <3> QED BY <1>2, <1>3, <1>10, <1>11, <2>1, <3>1, <3>2 DEF MutexOK
  <2> QED BY <2>2, <2>3
<1> QED BY <1>12 DEF y

\* A mutex untouched by a step in which the threads but h pass it by.
LEMMA BystanderKeeps ==
  ASSUME NEW m, NEW x, NEW s, NEW c, NEW t, NEW d, NEW h, NEW time,
         MutexOK(m, x, s, c),
         \A g \in Handles : g # h => d[g] = c[g] /\ Passes(m, s, t, g, time),
         h \in Handles => Stays(m, x, s, c, t, d, h)
  PROVE  MutexOK(m, x, t, d)
<1>1. ASSUME NEW g \in Handles PROVE Stays(m, x, s, c, t, d, g)
  <2>1. CASE g = h
    BY <2>1
  <2>2. CASE g # h
    BY <2>2, PassStays
  <2> QED BY <2>1, <2>2
<1> QED BY <1>1, MutexKept
-----------------------------------------------------------------------------
(* The queues of the conditions.                                            *)

\* A queue of waiters in which no thread is twice.
QueueOK(q) ==
  q \in Seq(Waiters) /\ \A i, j \in DOMAIN q : q[i].thread = q[j].thread => i = j

\* The entries of a queue are waiters.
LEMMA ElementFacts ==
  ASSUME NEW q \in Seq(Waiters), NEW w \in Elements(q)
  PROVE  /\ w \in Waiters /\ \E i \in DOMAIN q : w = q[i]
         /\ w.thread \in Handles /\ w.mutex \in Mutexes
         /\ w.deadline \in Nat \cup {NoDeadline}
<1>1. PICK i \in DOMAIN q : w = q[i]
  BY DEF Elements
<1>2. w \in Waiters
  BY <1>1
<1> QED BY <1>1, <1>2 DEF Waiters

\* Two entries of a queue differ in their threads.
LEMMA OneEntry ==
  ASSUME NEW q, QueueOK(q), NEW v \in Elements(q), NEW w \in Elements(q),
         v.thread = w.thread
  PROVE  v = w
BY DEF QueueOK, Elements

\* A thread that is not queued is queued at the end.
LEMMA QueueAppend ==
  ASSUME NEW q, QueueOK(q), NEW w \in Waiters, \A v \in Elements(q) : v.thread # w.thread
  PROVE  QueueOK(Append(q, w)) /\ Elements(Append(q, w)) = Elements(q) \cup {w}
<1> DEFINE r == Append(q, w)
           n == Len(q)
<1>1. q \in Seq(Waiters)
  BY DEF QueueOK
<1>2. /\ r \in Seq(Waiters) /\ DOMAIN r = 1 .. (n + 1) /\ DOMAIN q = 1 .. n /\ n \in Nat
      /\ \A i \in 1 .. n : r[i] = q[i]
      /\ r[n + 1] = w
  BY <1>1
<1> HIDE DEF r, n
<1>3. \A i \in 1 .. n : q[i].thread # w.thread
  BY <1>2 DEF Elements
<1>4. \A i : i \in 1 .. (n + 1) <=> i \in 1 .. n \/ i = n + 1
  BY <1>2
<1>5. \A i, j \in DOMAIN r : r[i].thread = r[j].thread => i = j
  BY <1>2, <1>3, <1>4 DEF QueueOK
<1>6. Elements(r) = Elements(q) \cup {w}
  BY <1>2, <1>4 DEF Elements
<1> QED BY <1>2, <1>5, <1>6 DEF QueueOK, r

\* The entry at i leaves the queue.
LEMMA QueueWithout ==
  ASSUME NEW q, QueueOK(q), NEW i \in DOMAIN q
  PROVE  QueueOK(WithoutIndex(q, i)) /\ Elements(WithoutIndex(q, i)) = Elements(q) \ {q[i]}
<1> DEFINE r == WithoutIndex(q, i)
           n == Len(q)
<1>1. q \in Seq(Waiters) /\ n \in Nat /\ DOMAIN q = 1 .. n /\ i \in 1 .. n
  BY DEF QueueOK
<1> DEFINE a == SubSeq(q, 1, i - 1)
           b == SubSeq(q, i + 1, n)
<1>2. /\ a \in Seq(Waiters) /\ Len(a) = i - 1
      /\ \A j \in 1 .. (i - 1) : a[j] = q[j]
  BY <1>1
<1>3. /\ b \in Seq(Waiters) /\ Len(b) = n - i
      /\ \A j \in 1 .. (n - i) : b[j] = q[j + i]
  BY <1>1
<1>4. r = a \o b
  BY DEF WithoutIndex
<1> HIDE DEF n, r, a, b
<1>5. /\ r \in Seq(Waiters) /\ Len(r) = n - 1 /\ DOMAIN r = 1 .. (n - 1)
      /\ \A j \in 1 .. (n - 1) : r[j] = IF j < i THEN q[j] ELSE q[j + 1]
  <2>1. r \in Seq(Waiters) /\ Len(r) = n - 1
    BY <1>1, <1>2, <1>3, <1>4
  <2>2. ASSUME NEW j \in 1 .. (n - 1) PROVE r[j] = IF j < i THEN q[j] ELSE q[j + 1]
    <3>1. r[j] = IF j <= Len(a) THEN a[j] ELSE b[j - Len(a)]
      BY <1>1, <1>2, <1>3, <1>4, <2>2
    <3>2. CASE j < i
      <4>1. j <= i - 1 /\ j \in 1 .. (i - 1)
        BY <1>1, <2>2, <3>2
      <4> QED BY <1>2, <3>1, <3>2, <4>1
    <3>3. CASE ~(j < i)
      <4>1. ~(j <= i - 1) /\ j - (i - 1) \in 1 .. (n - i) /\ (j - (i - 1)) + i = j + 1
        BY <1>1, <2>2, <3>3
      <4> QED BY <1>2, <1>3, <3>1, <3>3, <4>1
    <3> QED BY <3>2, <3>3
  <2> QED BY <2>1, <2>2
<1> DEFINE f(j) == IF j < i THEN j ELSE j + 1
<1>6. \A j \in 1 .. (n - 1) : f(j) \in 1 .. n /\ f(j) # i /\ r[j] = q[f(j)]
  BY <1>1, <1>5
<1>7. \A j, k \in 1 .. (n - 1) : f(j) = f(k) => j = k
  BY <1>1
<1>8. \A k \in 1 .. n : k # i => \E j \in 1 .. (n - 1) : f(j) = k
  <2> SUFFICES ASSUME NEW k \in 1 .. n, k # i PROVE \E j \in 1 .. (n - 1) : f(j) = k
    OBVIOUS
  <2>1. CASE k < i
    BY <1>1, <2>1
  <2>2. CASE ~(k < i)
    <3>1. k - 1 \in 1 .. (n - 1) /\ ~(k - 1 < i) /\ (k - 1) + 1 = k
      BY <1>1, <2>2
    <3> QED BY <3>1
  <2> QED BY <2>1, <2>2
<1> HIDE DEF f
<1>9. \A j, k \in DOMAIN r : r[j].thread = r[k].thread => j = k
  BY <1>1, <1>5, <1>6, <1>7 DEF QueueOK
<1>10. \A k \in 1 .. n : q[k] = q[i] => k = i
  BY <1>1 DEF QueueOK
<1>11. Elements(r) = Elements(q) \ {q[i]}
  <2>1. ASSUME NEW w \in Elements(r) PROVE w \in Elements(q) \ {q[i]}
    <3>1. PICK j \in DOMAIN r : w = r[j]
      BY <2>1 DEF Elements
    <3>2. f(j) \in 1 .. n /\ f(j) # i /\ w = q[f(j)]
      BY <1>5, <1>6, <3>1
    <3> QED BY <1>1, <1>10, <3>2 DEF Elements
  <2>2. ASSUME NEW w \in Elements(q) \ {q[i]} PROVE w \in Elements(r)
    <3>1. PICK k \in 1 .. n : w = q[k] /\ k # i
      BY <1>1, <2>2 DEF Elements
    <3>2. PICK j \in 1 .. (n - 1) : f(j) = k
      BY <1>8, <3>1
    <3> QED BY <1>5, <1>6, <3>1, <3>2 DEF Elements
  <2> QED BY <2>1, <2>2
<1> QED BY <1>5, <1>9, <1>11 DEF QueueOK, r

\* The first n entries leave the queue.
LEMMA QueueTake ==
  ASSUME NEW q, QueueOK(q), NEW n \in 0 .. Len(q)
  PROVE  LET r == SubSeq(q, n + 1, Len(q))
         IN  /\ QueueOK(r) /\ Elements(r) = {q[i] : i \in (n + 1) .. Len(q)}
             /\ Elements(r) \subseteq Elements(q)
             /\ \A w \in Elements(q) :
                  w \in Elements(r) <=> ~ \E i \in 1 .. n : q[i].thread = w.thread
<1> DEFINE r == SubSeq(q, n + 1, Len(q))
           l == Len(q)
<1>1. q \in Seq(Waiters) /\ l \in Nat /\ DOMAIN q = 1 .. l /\ n \in 0 .. l
  BY DEF QueueOK
<1>2. /\ r \in Seq(Waiters) /\ DOMAIN r = 1 .. (l - n)
      /\ \A j \in 1 .. (l - n) : r[j] = q[j + n]
  BY <1>1
<1> HIDE DEF r, l
<1>3. \A j \in 1 .. (l - n) : j + n \in (n + 1) .. l /\ j + n \in 1 .. l
  BY <1>1
<1>4. \A i, j \in DOMAIN r : r[i].thread = r[j].thread => i = j
  <2> SUFFICES ASSUME NEW i \in 1 .. (l - n), NEW j \in 1 .. (l - n),
                      r[i].thread = r[j].thread
               PROVE  i = j
    BY <1>2
  <2>1. i + n = j + n
    BY <1>1, <1>2, <1>3 DEF QueueOK
  <2> QED BY <1>1, <2>1
<1>5. Elements(r) = {q[i] : i \in (n + 1) .. l}
  <2>1. ASSUME NEW i \in (n + 1) .. l PROVE q[i] \in Elements(r)
    <3>1. i - n \in 1 .. (l - n) /\ (i - n) + n = i
      BY <1>1
    <3>2. q[i] = r[i - n]
      BY <1>2, <3>1
    <3> QED BY <1>2, <3>1, <3>2 DEF Elements
  <2>2. ASSUME NEW w \in Elements(r) PROVE w \in {q[i] : i \in (n + 1) .. l}
    <3>1. PICK j \in 1 .. (l - n) : w = q[j + n]
      BY <1>2, <2>2 DEF Elements
    <3> QED BY <1>3, <3>1
  <2> QED BY <2>1, <2>2
<1>6. \A i \in (n + 1) .. l : i \in DOMAIN q
  BY <1>1
<1>7. Elements(r) \subseteq Elements(q)
  BY <1>5, <1>6 DEF Elements
<1>8. ASSUME NEW w \in Elements(q)
      PROVE  w \in Elements(r) <=> ~ \E i \in 1 .. n : q[i].thread = w.thread
  <2>1. PICK k \in 1 .. l : w = q[k]
    BY <1>1 DEF Elements
  <2>2. \A i \in 1 .. l : q[i].thread = w.thread => i = k
    BY <1>1, <2>1 DEF QueueOK
  <2>3. \A i \in 1 .. n : i \in 1 .. l
    BY <1>1
  <2>4. w \in Elements(r) <=> k \in (n + 1) .. l
    BY <1>5, <1>6, <1>1, <2>1, <2>2
  <2>5. k \in (n + 1) .. l <=> k \notin 1 .. n
    BY <1>1
  <2> QED BY <2>1, <2>2, <2>3, <2>4, <2>5
<1>9. QueueOK(r)
  BY <1>2, <1>4 DEF QueueOK
<1> QED BY <1>5, <1>7, <1>8, <1>9 DEF r, l

-----------------------------------------------------------------------------
(* Who is in a wait, and the counts.                                        *)

\* The types of the objects that hold the waits.
WaitTypes(cs, done) ==
  /\ cs \in [Conditions -> ConditionRecords]
  /\ done \in [Handles -> CompletedWaits \cup {NoCompletion}]

SameWaits(cs, done, ds, end, g) ==
  \A k \in Conditions, n \in Mutexes :
    InWait(ds, end, g, k, n) <=> InWait(cs, done, g, k, n)
OnlyWait(cs, done, g, c, m) ==
  \A k \in Conditions, n \in Mutexes : InWait(cs, done, g, k, n) <=> k = c /\ n = m
NoWait(cs, done, g) ==
  \A k \in Conditions, n \in Mutexes : ~InWait(cs, done, g, k, n)

\* The fields of a condition's state, and of a completed wait.
LEMMA ConditionFields ==
  ASSUME NEW cs, NEW done, WaitTypes(cs, done)
  PROVE  /\ \A c \in Conditions :
              /\ cs[c] \in ConditionRecords /\ cs[c].live \in BOOLEAN
              /\ cs[c].waiters \in Seq(Waiters)
              /\ cs[c].active_waiter_count \in 0 .. MaxHandle
         /\ \A h \in Handles :
              \/ done[h] = NoCompletion
              \/ done[h].condition \in Conditions /\ done[h].mutex \in Mutexes
         /\ NoCompletion.condition \notin Conditions /\ NoCompletion.mutex \notin Mutexes
<1>1. ASSUME NEW c \in Conditions
      PROVE  /\ cs[c] \in ConditionRecords /\ cs[c].live \in BOOLEAN
             /\ cs[c].waiters \in Seq(Waiters)
             /\ cs[c].active_waiter_count \in 0 .. MaxHandle
  <2>1. cs[c] \in ConditionRecords
    BY DEF WaitTypes
  <2> QED BY <2>1 DEF ConditionRecords
<1>2. ASSUME NEW h \in Handles, done[h] # NoCompletion
      PROVE  done[h].condition \in Conditions /\ done[h].mutex \in Mutexes
  <2>1. done[h] \in CompletedWaits
    BY <1>2 DEF WaitTypes
  <2> QED BY <2>1 DEF CompletedWaits
<1>3. NoCompletion.condition \notin Conditions /\ NoCompletion.mutex \notin Mutexes
  BY HandleFacts DEF NoCompletion
<1> QED BY <1>1, <1>2, <1>3

\* QueuesOK says that every queue is one in which no thread is twice.
LEMMA QueuesAreOK ==
  ASSUME NEW cs, NEW done, WaitTypes(cs, done), QueuesOK(cs, done), NEW c \in Conditions
  PROVE  QueueOK(cs[c].waiters)
BY ConditionFields DEF QueuesOK, QueueOK

\* A completed wait is the only one of its thread, and so is a queued one.
LEMMA OneWait ==
  ASSUME NEW cs, NEW done, WaitTypes(cs, done), QueuesOK(cs, done), NEW h \in Handles,
         NEW c \in Conditions, NEW m \in Mutexes, InWait(cs, done, h, c, m)
  PROVE  OnlyWait(cs, done, h, c, m)
<1> SUFFICES ASSUME NEW k \in Conditions, NEW n \in Mutexes, InWait(cs, done, h, k, n)
             PROVE  k = c /\ n = m
  BY DEF OnlyWait
<1>1. CASE done[h].condition = c /\ done[h].mutex = m
  <2>1. done[h] # NoCompletion
    BY <1>1, ConditionFields
  <2>2. \A w \in Elements(cs[k].waiters) : w.thread # h
    BY <2>1 DEF QueuesOK
  <2> QED BY <1>1, <2>2 DEF InWait
<1>2. CASE \E w \in Elements(cs[c].waiters) : w.thread = h /\ w.mutex = m
  <2>1. PICK w \in Elements(cs[c].waiters) : w.thread = h /\ w.mutex = m
    BY <1>2
  <2>2. done[h] = NoCompletion
    BY <2>1 DEF QueuesOK
  <2>3. ~(done[h].condition = k /\ done[h].mutex = n)
    BY <2>2, ConditionFields
  <2>4. PICK v \in Elements(cs[k].waiters) : v.thread = h /\ v.mutex = n
    BY <2>3 DEF InWait
  <2>5. k = c
    BY <2>1, <2>4 DEF QueuesOK
  <2>6. v = w
    BY <2>1, <2>4, <2>5, QueuesAreOK, OneEntry
  <2> QED BY <2>1, <2>4, <2>5, <2>6
<1> QED BY <1>1, <1>2 DEF InWait

\* The threads in a wait are finitely many.
LEMMA CountFacts ==
  ASSUME NEW cs, NEW done
  PROVE  /\ \A c \in Conditions :
              /\ IsFiniteSet(WaitersOn(cs, done, c))
              /\ Cardinality(WaitersOn(cs, done, c)) \in 0 .. MaxHandle
         /\ \A m \in Mutexes :
              /\ IsFiniteSet(WaitersWith(cs, done, m))
              /\ Cardinality(WaitersWith(cs, done, m)) \in 0 .. MaxHandle
<1>1. IsFiniteSet(Handles) /\ Cardinality(Handles) = MaxHandle /\ MaxHandle \in Nat
  BY FS_Interval, MaxHandleAssumption DEF Handles
<1>2. ASSUME NEW S, S \subseteq Handles
      PROVE  IsFiniteSet(S) /\ Cardinality(S) \in 0 .. MaxHandle
  <2>1. IsFiniteSet(S) /\ Cardinality(S) <= MaxHandle
    BY <1>1, <1>2, FS_Subset
  <2>2. Cardinality(S) \in Nat
    BY <2>1, FS_CardinalityType
  <2> QED BY <1>1, <2>1, <2>2
<1>3. \A c : WaitersOn(cs, done, c) \subseteq Handles
  BY DEF WaitersOn
<1>4. \A m : WaitersWith(cs, done, m) \subseteq Handles
  BY DEF WaitersWith
<1> QED BY <1>2, <1>3, <1>4

\* The counts that the step leaves as they are.
SameCounts(ms, cs, ns, ds) ==
  /\ \A c \in Conditions : ds[c].active_waiter_count = cs[c].active_waiter_count
  /\ \A m \in Mutexes : ns[m].condition_waiter_count = ms[m].condition_waiter_count

\* Nobody enters or leaves a wait.
LEMMA CountsStay ==
  ASSUME NEW ms, NEW cs, NEW done, NEW ns, NEW ds, NEW end, CountsOK(ms, cs, done),
         \A g \in Handles : SameWaits(cs, done, ds, end, g), SameCounts(ms, cs, ns, ds)
  PROVE  CountsOK(ns, ds, end)
<1>1. \A c \in Conditions : WaitersOn(ds, end, c) = WaitersOn(cs, done, c)
  BY DEF WaitersOn, SameWaits
<1>2. \A m \in Mutexes : WaitersWith(ds, end, m) = WaitersWith(cs, done, m)
  BY DEF WaitersWith, SameWaits
<1> QED BY <1>1, <1>2 DEF CountsOK, SameCounts

\* The two counts of a wait on condition c with mutex m, up or down by one.
CountsMove(ms, cs, ns, ds, c, m, n) ==
  /\ \A k \in Conditions : ds[k].active_waiter_count =
       IF k = c THEN cs[k].active_waiter_count + n ELSE cs[k].active_waiter_count
  /\ \A k \in Mutexes : ns[k].condition_waiter_count =
       IF k = m THEN ms[k].condition_waiter_count + n ELSE ms[k].condition_waiter_count

\* The threads in a wait when h enters one.
Enters(cs, done, ds, end, h, c, m) ==
  /\ \A k \in Conditions : h \notin WaitersOn(cs, done, k) /\ WaitersOn(ds, end, k) =
       IF k = c THEN WaitersOn(cs, done, k) \cup {h} ELSE WaitersOn(cs, done, k)
  /\ \A k \in Mutexes : h \notin WaitersWith(cs, done, k) /\ WaitersWith(ds, end, k) =
       IF k = m THEN WaitersWith(cs, done, k) \cup {h} ELSE WaitersWith(cs, done, k)

LEMMA EnterSets ==
  ASSUME NEW cs, NEW done, NEW ds, NEW end, NEW h \in Handles, NEW c \in Conditions,
         NEW m \in Mutexes, NoWait(cs, done, h), OnlyWait(ds, end, h, c, m),
         \A g \in Handles : g # h => SameWaits(cs, done, ds, end, g)
  PROVE  Enters(cs, done, ds, end, h, c, m)
<1>1. ASSUME NEW k \in Conditions
      PROVE  h \notin WaitersOn(cs, done, k) /\ WaitersOn(ds, end, k) =
               IF k = c THEN WaitersOn(cs, done, k) \cup {h} ELSE WaitersOn(cs, done, k)
  <2>1. h \notin WaitersOn(cs, done, k) /\ (h \in WaitersOn(ds, end, k) <=> k = c)
    BY DEF WaitersOn, NoWait, OnlyWait
  <2>2. \A g \in Handles : g # h =>
          (g \in WaitersOn(ds, end, k) <=> g \in WaitersOn(cs, done, k))
    BY DEF WaitersOn, SameWaits
  <2>3. WaitersOn(ds, end, k) \subseteq Handles /\ WaitersOn(cs, done, k) \subseteq Handles
    BY DEF WaitersOn
  <2> QED BY <2>1, <2>2, <2>3
<1>2. ASSUME NEW k \in Mutexes
      PROVE  h \notin WaitersWith(cs, done, k) /\ WaitersWith(ds, end, k) =
               IF k = m THEN WaitersWith(cs, done, k) \cup {h} ELSE WaitersWith(cs, done, k)
  <2>1. h \notin WaitersWith(cs, done, k) /\ (h \in WaitersWith(ds, end, k) <=> k = m)
    BY DEF WaitersWith, NoWait, OnlyWait
  <2>2. \A g \in Handles : g # h =>
          (g \in WaitersWith(ds, end, k) <=> g \in WaitersWith(cs, done, k))
    BY DEF WaitersWith, SameWaits
  <2>3. WaitersWith(ds, end, k) \subseteq Handles /\ WaitersWith(cs, done, k) \subseteq Handles
    BY DEF WaitersWith
  <2> QED BY <2>1, <2>2, <2>3
<1> QED BY <1>1, <1>2 DEF Enters

\* Thread h enters a wait on condition c with mutex m.
LEMMA CountsEnter ==
  ASSUME NEW ms, NEW cs, NEW done, NEW ns, NEW ds, NEW end, CountsOK(ms, cs, done),
         NEW h \in Handles, NEW c \in Conditions, NEW m \in Mutexes,
         NoWait(cs, done, h), OnlyWait(ds, end, h, c, m),
         \A g \in Handles : g # h => SameWaits(cs, done, ds, end, g),
         CountsMove(ms, cs, ns, ds, c, m, 1)
  PROVE  CountsOK(ns, ds, end)
<1>0. Enters(cs, done, ds, end, h, c, m)
  BY EnterSets
<1>1. ASSUME NEW k \in Conditions
      PROVE  ds[k].active_waiter_count = Cardinality(WaitersOn(ds, end, k))
  <2> DEFINE S == WaitersOn(cs, done, k)
  <2>1. h \notin S /\ WaitersOn(ds, end, k) = IF k = c THEN S \cup {h} ELSE S
    BY <1>0 DEF Enters
  <2>2. IsFiniteSet(S) /\ cs[k].active_waiter_count = Cardinality(S)
    BY CountFacts DEF CountsOK
  <2>3. Cardinality(S \cup {h}) = Cardinality(S) + 1
    <3> HIDE DEF S
    <3> QED BY <2>1, <2>2, FS_AddElement
  <2> HIDE DEF S
  <2> QED BY <2>1, <2>2, <2>3 DEF CountsMove
<1>2. ASSUME NEW k \in Mutexes
      PROVE  ns[k].condition_waiter_count = Cardinality(WaitersWith(ds, end, k))
  <2> DEFINE S == WaitersWith(cs, done, k)
  <2>1. h \notin S /\ WaitersWith(ds, end, k) = IF k = m THEN S \cup {h} ELSE S
    BY <1>0 DEF Enters
  <2>2. IsFiniteSet(S) /\ ms[k].condition_waiter_count = Cardinality(S)
    BY CountFacts DEF CountsOK
  <2>3. Cardinality(S \cup {h}) = Cardinality(S) + 1
    <3> HIDE DEF S
    <3> QED BY <2>1, <2>2, FS_AddElement
  <2> HIDE DEF S
  <2> QED BY <2>1, <2>2, <2>3 DEF CountsMove
<1> QED BY <1>1, <1>2 DEF CountsOK

\* Thread h leaves its wait on condition c with mutex m.
LEMMA CountsLeave ==
  ASSUME NEW ms, NEW cs, NEW done, NEW ns, NEW ds, NEW end, CountsOK(ms, cs, done),
         NEW h \in Handles, NEW c \in Conditions, NEW m \in Mutexes,
         OnlyWait(cs, done, h, c, m), NoWait(ds, end, h),
         \A g \in Handles : g # h => SameWaits(cs, done, ds, end, g),
         CountsMove(ms, cs, ns, ds, c, m, -1)
  PROVE  CountsOK(ns, ds, end)
<1>0. \A g \in Handles : g # h => SameWaits(ds, end, cs, done, g)
  BY DEF SameWaits
<1>3. Enters(ds, end, cs, done, h, c, m)
  BY <1>0, EnterSets
<1>1. ASSUME NEW k \in Conditions
      PROVE  ds[k].active_waiter_count = Cardinality(WaitersOn(ds, end, k))
  <2> DEFINE S == WaitersOn(ds, end, k)
  <2>1. h \notin S /\ WaitersOn(cs, done, k) = IF k = c THEN S \cup {h} ELSE S
    BY <1>3 DEF Enters
  <2>2. IsFiniteSet(S) /\ cs[k].active_waiter_count = Cardinality(WaitersOn(cs, done, k))
    BY CountFacts DEF CountsOK
  <2>3. Cardinality(S \cup {h}) = Cardinality(S) + 1 /\ Cardinality(S) \in Nat
    <3> HIDE DEF S
    <3> QED BY <2>1, <2>2, FS_AddElement, FS_CardinalityType
  <2> HIDE DEF S
  <2>4. CASE k = c
    BY <2>1, <2>2, <2>3, <2>4 DEF CountsMove, S
  <2>5. CASE k # c
    BY <2>1, <2>2, <2>5 DEF CountsMove, S
  <2> QED BY <2>4, <2>5
<1>2. ASSUME NEW k \in Mutexes
      PROVE  ns[k].condition_waiter_count = Cardinality(WaitersWith(ds, end, k))
  <2> DEFINE S == WaitersWith(ds, end, k)
  <2>1. h \notin S /\ WaitersWith(cs, done, k) = IF k = m THEN S \cup {h} ELSE S
    BY <1>3 DEF Enters
  <2>2. IsFiniteSet(S) /\ ms[k].condition_waiter_count = Cardinality(WaitersWith(cs, done, k))
    BY CountFacts DEF CountsOK
  <2>3. Cardinality(S \cup {h}) = Cardinality(S) + 1 /\ Cardinality(S) \in Nat
    <3> HIDE DEF S
    <3> QED BY <2>1, <2>2, FS_AddElement, FS_CardinalityType
  <2> HIDE DEF S
  <2>4. CASE k = m
    BY <2>1, <2>2, <2>3, <2>4 DEF CountsMove, S
  <2>5. CASE k # m
    BY <2>1, <2>2, <2>5 DEF CountsMove, S
  <2> QED BY <2>4, <2>5
<1> QED BY <1>1, <1>2 DEF CountsOK

\* A wait keeps its condition and its mutex alive, and its counts above zero.
LEMMA WaitKeepsAlive ==
  ASSUME NEW ms, NEW cs, NEW done, WaitTypes(cs, done), CountsOK(ms, cs, done),
         QueuesOK(cs, done), \A n \in Mutexes : ms[n].type = "none" => ms[n] = NoMutex,
         NEW h \in Handles, NEW c \in Conditions, NEW m \in Mutexes,
         InWait(cs, done, h, c, m)
  PROVE  /\ cs[c].live /\ cs[c].active_waiter_count # 0
         /\ ms[m].type # "none" /\ ms[m].condition_waiter_count # 0
<1>1. h \in WaitersOn(cs, done, c) /\ h \in WaitersWith(cs, done, m)
  BY DEF WaitersOn, WaitersWith
<1>2. \A S : IsFiniteSet(S) /\ h \in S => Cardinality(S) # 0
  BY FS_EmptySet
<1>3. cs[c].active_waiter_count # 0 /\ ms[m].condition_waiter_count # 0
  BY <1>1, <1>2, CountFacts DEF CountsOK
<1> QED BY <1>3 DEF QueuesOK, NoCondition, NoMutex

-----------------------------------------------------------------------------
(* What the invariant gives every step.                                     *)

\* The parts of the invariant.
LEMMA InvFacts ==
  ASSUME IInv
  PROVE  /\ SchedulerOK(sched, WaitKeys) /\ now \in Nat /\ now \in 0 .. MaxTime
         /\ call \in [Handles -> Calls] /\ mutexes \in [Mutexes -> MutexRecords]
         /\ WaitTypes(conditions, completed) /\ QueuesOK(conditions, completed)
         /\ CountsOK(mutexes, conditions, completed)
         /\ \A m \in Mutexes : MutexOK(m, mutexes[m], sched, call)
         /\ \A m \in Mutexes : mutexes[m].type = "none" => mutexes[m] = NoMutex
         /\ \A h \in Handles : WaitOK(h, sched, conditions, completed, call, now)
<1>1. now \in 0 .. MaxTime /\ MaxTime \in Nat
  BY MaxTimeAssumption DEF IInv, TypeOK
<1>2. now \in Nat
  BY <1>1
<1>3. \A m \in Mutexes : mutexes[m].type = "none" => mutexes[m] = NoMutex
  BY DEF IInv, MutexOK
<1> QED BY <1>1, <1>2, <1>3 DEF IInv, TypeOK, WaitTypes

\* The running thread.
LEMMA CallerFacts ==
  ASSUME IInv, NEW h \in Handles, sched.current = h, sched.state[h] = "running"
  PROVE  /\ sched.wait_key[h] = NoKey /\ CanLeave(sched)
         /\ Awake(sched, h) /\ Alive(sched, h) /\ sched.state[h] # "blocked"
<1>1. SchedulerOK(sched, WaitKeys)
  BY InvFacts
<1>2. sched.wait_key[h] = NoKey
  BY <1>1 DEF SchedulerOK, WaitsOK
<1> QED BY <1>2, HandleFacts DEF CanLeave, Awake, Alive

\* A thread in no condition wait has no completed wait and is queued nowhere.
LEMMA CallerInNoWait ==
  ASSUME IInv, NEW h \in Handles, Alive(sched, h),
         call[h] = NoCall \/ \E m : call[h] = LockCall(m)
  PROVE  /\ completed[h] = NoCompletion
         /\ \A c \in Conditions : \A w \in Elements(conditions[c].waiters) : w.thread # h
         /\ NoWait(conditions, completed, h)
<1>1. \A k \in Conditions, m \in Mutexes : call[h] # WaitCall(k, m)
  BY CallFacts
<1>2. WaitOK(h, sched, conditions, completed, call, now)
  BY InvFacts
<1>3. completed[h] = NoCompletion /\ ~Queued(conditions, h)
  BY <1>1, <1>2 DEF WaitOK
<1>4. \A c \in Conditions : \A w \in Elements(conditions[c].waiters) : w.thread # h
  BY <1>3 DEF Queued
<1>5. NoCompletion.condition \notin Conditions
  BY HandleFacts DEF NoCompletion
<1> QED BY <1>3, <1>4, <1>5 DEF NoWait, InWait

\* The step leaves thread g's entries and its completed wait alone.
SameEntries(cs, done, ds, end, g) ==
  end[g] = done[g] /\ \A k \in Conditions : EntriesOf(ds, k, g) = EntriesOf(cs, k, g)

\* Then g stays in the wait it is in.
LEMMA EntriesWaits ==
  ASSUME NEW cs, NEW done, NEW ds, NEW end, NEW g, SameEntries(cs, done, ds, end, g)
  PROVE  SameWaits(cs, done, ds, end, g)
<1> SUFFICES ASSUME NEW k \in Conditions, NEW n \in Mutexes
             PROVE  InWait(ds, end, g, k, n) <=> InWait(cs, done, g, k, n)
  BY DEF SameWaits
<1>1. \A w : w \in EntriesOf(ds, k, g) <=> w \in EntriesOf(cs, k, g)
  BY DEF SameEntries
<1>2. \A w : w \in Elements(ds[k].waiters) /\ w.thread = g <=>
             w \in Elements(cs[k].waiters) /\ w.thread = g
  BY <1>1 DEF EntriesOf
<1> QED BY <1>2 DEF InWait, SameEntries

\* A thread the step does not speak of, or hands a mutex: its wait stays correct.
LEMMA WaitStays ==
  ASSUME IInv, NEW g \in Handles, NEW t, NEW ds, NEW end, NEW d, NEW later \in Nat,
         now <= later, WaitTypes(ds, end), d[g] = call[g],
         SameEntries(conditions, completed, ds, end, g),
         \/ Drifts(sched, t, g, later)
         \/ Roused(t, g) /\ \E n \in Mutexes : sched.wait_key[g] = MutexWaitKey(n, g)
  PROVE  WaitOK(g, t, ds, end, d, later)
<1>1. /\ SchedulerOK(sched, WaitKeys) /\ now \in Nat
      /\ WaitOK(g, sched, conditions, completed, call, now)
  BY InvFacts
<1>2. CASE Drifts(sched, t, g, later)
  <2>1. \A k \in Conditions : ds[k].waiters \in Seq(Waiters)
    BY ConditionFields
  <2>2. later <= later
    OBVIOUS
  <2> QED BY <1>1, <1>2, <2>1, <2>2, WaitKept DEF SameEntries
<1>3. CASE Roused(t, g) /\ \E n \in Mutexes : sched.wait_key[g] = MutexWaitKey(n, g)
  <2>1. PICK n \in Mutexes : sched.wait_key[g] = MutexWaitKey(n, g)
    BY <1>3
  <2>2. sched.wait_key[g] # NoKey /\ \A k : sched.wait_key[g] # ConditionWaitKey(k, g)
    <3>1. MutexWaitKey(n, g) # NoKey
      BY KeyFacts, Zenon
    <3>2. \A k : MutexWaitKey(n, g) # ConditionWaitKey(k, g)
      BY DEF MutexWaitKey, ConditionWaitKey
    <3> QED BY <2>1, <3>1, <3>2
  <2>3. sched.state[g] = "blocked"
    BY <1>1, <2>2 DEF SchedulerOK, WaitsOK
  <2>4. ~Awake(sched, g) /\ Alive(sched, g)
    BY <2>3 DEF Awake, Alive
  <2>5. \A k, w : ~Pending(sched, g, k, w, now)
    BY <2>2, <2>4 DEF Pending
  <2>6. ASSUME NEW k \in Conditions, NEW m \in Mutexes, d[g] = WaitCall(k, m)
        PROVE  /\ end[g].condition = k /\ end[g].mutex = m
               /\ t.wait_key[g] \in {NoKey, MutexWaitKey(m, g)}
    BY <1>1, <1>3, <2>5, <2>6 DEF WaitOK, SameEntries, Roused
  <2>7. ~Queued(conditions, g) => ~Queued(ds, g)
    BY DEF Queued, SameEntries, EntriesOf
  <2>8. (\A k \in Conditions, m \in Mutexes : d[g] # WaitCall(k, m)) =>
          end[g] = NoCompletion /\ ~Queued(ds, g)
    BY <1>1, <2>4, <2>7 DEF WaitOK, SameEntries
  <2> QED BY <2>6, <2>8 DEF WaitOK
<1> QED BY <1>2, <1>3

\* The invariant from its parts.
LEMMA Assemble ==
  ASSUME SchedulerOK(sched', WaitKeys), now' \in 0 .. MaxTime, call' \in [Handles -> Calls],
         mutexes' \in [Mutexes -> MutexRecords], WaitTypes(conditions', completed'),
         QueuesOK(conditions', completed'), CountsOK(mutexes', conditions', completed'),
         \A m \in Mutexes : MutexOK(m, mutexes'[m], sched', call'),
         \A h \in Handles : WaitOK(h, sched', conditions', completed', call', now')
  PROVE  IInv'
BY DEF IInv, TypeOK, WaitTypes

-----------------------------------------------------------------------------
(* The initial state, and steps that touch no object.                       *)

LEMMA InitIInv == Init => IInv
<1> SUFFICES ASSUME Init PROVE IInv
  OBVIOUS
<1> USE DEF Init
<1>1. SchedulerOK(sched, WaitKeys) /\ \A h \in Handles : sched.wait_key[h] = NoKey
  <2>1. sched = [state     |-> [h \in Handles |-> "ready"],
                 wait_key  |-> [h \in Handles |-> NoKey],
                 deadline  |-> [h \in Handles |-> NoDeadline],
                 timed_out |-> [h \in Handles |-> NoKey],
                 ready     |-> [i \in Handles |-> i],
                 current   |-> NoThread]
    BY DEF Started, EmptyScheduler
  <2> QED BY <2>1, StartedOK
<1>2. now \in 0 .. MaxTime /\ call \in [Handles -> Calls]
  BY MaxTimeAssumption DEF Started, Calls
<1>3. NoMutex \in MutexRecords
  BY MaxHandleAssumption, PthreadAssumption, HandleFacts DEF NoMutex, MutexRecords
<1>4. NoCondition \in ConditionRecords
  BY MaxHandleAssumption DEF NoCondition, ConditionRecords
<1>5. WaitTypes(conditions, completed)
  BY <1>4 DEF WaitTypes
<1>6. mutexes \in [Mutexes -> MutexRecords] /\ \A m \in Mutexes : mutexes[m] = NoMutex
  BY <1>3
<1>7. \A c \in Conditions : conditions[c] = NoCondition /\ Elements(conditions[c].waiters) = {}
  BY DEF NoCondition, Elements
<1>8. \A h \in Handles : completed[h] = NoCompletion /\ call[h] = NoCall
  BY DEF Started
<1>9. QueuesOK(conditions, completed)
  BY <1>7 DEF QueuesOK, NoCondition
<1>10. \A h \in Handles : NoWait(conditions, completed, h)
  BY <1>7, <1>8, HandleFacts DEF NoWait, InWait, NoCompletion
<1>11. CountsOK(mutexes, conditions, completed)
  <2>1. \A c \in Conditions : WaitersOn(conditions, completed, c) = {}
    BY <1>10 DEF WaitersOn, NoWait
  <2>2. \A m \in Mutexes : WaitersWith(conditions, completed, m) = {}
    BY <1>10 DEF WaitersWith, NoWait
  <2> QED BY <1>6, <1>7, <2>1, <2>2, FS_EmptySet DEF CountsOK, NoCondition, NoMutex
<1>12. \A m \in Mutexes : MutexOK(m, mutexes[m], sched, call)
  <2> SUFFICES ASSUME NEW m \in Mutexes PROVE MutexOK(m, NoMutex, sched, call)
    BY <1>6
  <2>1. Sleepers(m, sched) = {}
    BY <1>1, KeyFacts DEF Sleepers
  <2>2. Lists(<<>>, {})
    BY DEF Lists
  <2> QED BY <1>3, <2>1, <2>2 DEF MutexOK, NoMutex
<1>13. \A h \in Handles : WaitOK(h, sched, conditions, completed, call, now)
  BY <1>7, <1>8, CallFacts DEF WaitOK, Queued
<1> QED BY <1>1, <1>2, <1>5, <1>6, <1>9, <1>11, <1>12, <1>13 DEF IInv, TypeOK, WaitTypes

\* Time passes, a thread is dispatched or yields.
LEMMA DriftStep ==
  ASSUME IInv, UNCHANGED <<call, mutexes, conditions, completed>>,
         now' \in 0 .. MaxTime, now <= now', SchedulerOK(sched', WaitKeys),
         \A h \in Handles : Drifts(sched, sched', h, now')
  PROVE  IInv'
<1>1. now' \in Nat
  BY MaxTimeAssumption
<1>2. ASSUME NEW m \in Mutexes PROVE MutexOK(m, mutexes'[m], sched', call')
  <2>1. MutexOK(m, mutexes[m], sched, call)
    BY InvFacts
  <2>2. \A h \in Handles : Stays(m, mutexes[m], sched, call, sched', call', h)
    BY <2>1, DriftStays
  <2> QED BY <2>1, <2>2, MutexKept
<1>3. ASSUME NEW h \in Handles
      PROVE  WaitOK(h, sched', conditions', completed', call', now')
  <2>1. SameEntries(conditions, completed, conditions', completed', h)
    BY DEF SameEntries
  <2>2. WaitTypes(conditions', completed')
    BY InvFacts
  <2> QED BY <1>1, <2>1, <2>2, WaitStays
<1>4. CountsOK(mutexes', conditions', completed') /\ QueuesOK(conditions', completed')
      /\ WaitTypes(conditions', completed') /\ call' \in [Handles -> Calls]
      /\ mutexes' \in [Mutexes -> MutexRecords]
  BY InvFacts
<1> QED BY <1>2, <1>3, <1>4, Assemble

-----------------------------------------------------------------------------
(* Operations on a mutex.                                                   *)

\* One mutex changes, none of its condition waits.
LEMMA MutexStep ==
  ASSUME IInv, NEW m \in Mutexes, NEW y, mutexes' = [mutexes EXCEPT ![m] = y],
         y.condition_waiter_count = mutexes[m].condition_waiter_count,
         MutexOK(m, y, sched', call'),
         \A n \in Mutexes : n # m => MutexOK(n, mutexes[n], sched', call'),
         SchedulerOK(sched', WaitKeys), call' \in [Handles -> Calls],
         UNCHANGED <<now, conditions, completed>>,
         \A h \in Handles : WaitOK(h, sched', conditions, completed, call', now)
  PROVE  IInv'
<1>1. \A n \in Mutexes : mutexes'[n] = IF n = m THEN y ELSE mutexes[n]
  BY InvFacts
<1>2. \A n \in Mutexes : MutexOK(n, mutexes'[n], sched', call')
  BY <1>1
<1>3. mutexes' \in [Mutexes -> MutexRecords]
  BY InvFacts DEF MutexOK
<1>4. CountsOK(mutexes', conditions', completed')
  <2>1. SameCounts(mutexes, conditions, mutexes', conditions')
    BY <1>1 DEF SameCounts
  <2>2. \A g \in Handles : SameWaits(conditions, completed, conditions', completed', g)
    BY DEF SameWaits
  <2> QED BY <2>1, <2>2, InvFacts, CountsStay
<1>5. \A h \in Handles : WaitOK(h, sched', conditions', completed', call', now')
  OBVIOUS
<1>6. now' \in 0 .. MaxTime /\ WaitTypes(conditions', completed')
      /\ QueuesOK(conditions', completed')
  BY InvFacts
<1> QED BY <1>2, <1>3, <1>4, <1>5, <1>6, Assemble

\* A free mutex is created or destroyed.
LEMMA FreshStep ==
  ASSUME IInv, NEW m \in Mutexes, NEW type \in MutexTypes \cup {"none"},
         mutexes' = [mutexes EXCEPT ![m] = NewMutex(type)],
         UNCHANGED <<sched, now, call, conditions, completed>>,
         mutexes[m].waiters = <<>>, mutexes[m].condition_waiter_count = 0
  PROVE  IInv'
<1> DEFINE y == NewMutex(type)
<1>0. y = [type |-> type, owner |-> NoThread, recursion_count |-> 0,
           waiters |-> <<>>, granted_waiters |-> {}, condition_waiter_count |-> 0]
  <2> DEFINE none == "none"
             e == <<>>
             z == 0
             S == {}
  <2>1. NoMutex = [type |-> none, owner |-> NoThread, recursion_count |-> z, waiters |-> e,
                   granted_waiters |-> S, condition_waiter_count |-> z]
    BY DEF NoMutex
  <2> HIDE DEF none, e, z, S
  <2>2. [NoMutex EXCEPT !.type = type] =
          [type |-> type, owner |-> NoThread, recursion_count |-> z, waiters |-> e,
           granted_waiters |-> S, condition_waiter_count |-> z]
    BY <2>1
  <2> QED BY <2>2 DEF NewMutex, e, z, S
<1>1. /\ y = [type |-> type, owner |-> NoThread, recursion_count |-> 0,
              waiters |-> <<>>, granted_waiters |-> {}, condition_waiter_count |-> 0]
      /\ y \in MutexRecords
  <2>1. 0 \in 0 .. MaxRecursion /\ 0 \in 0 .. MaxHandle /\ <<>> \in Seq(Handles)
    BY MaxHandleAssumption, PthreadAssumption
  <2> HIDE DEF y
  <2> QED BY <1>0, <2>1 DEF MutexRecords
<1>2. type = "none" => y = NoMutex
  BY <1>1 DEF NoMutex
<1> HIDE DEF y
<1>3. MutexOK(m, mutexes[m], sched, call)
  BY InvFacts
<1>4. Lists(<<>>, Sleepers(m, sched)) /\ Sleepers(m, sched) = {}
  BY <1>3 DEF MutexOK, Lists
<1>5. MutexOK(m, y, sched, call)
  BY <1>1, <1>2, <1>4 DEF MutexOK
<1>6. MutexOK(m, y, sched', call')
  BY <1>5
<1>7. \A n \in Mutexes : n # m => MutexOK(n, mutexes[n], sched', call')
  BY InvFacts
<1>8. SchedulerOK(sched', WaitKeys) /\ call' \in [Handles -> Calls]
      /\ \A h \in Handles : WaitOK(h, sched', conditions, completed, call', now)
  BY InvFacts
<1>9. y.condition_waiter_count = mutexes[m].condition_waiter_count
  BY <1>1
<1>10. mutexes' = [mutexes EXCEPT ![m] = y]
  BY DEF y
<1> QED BY <1>6, <1>7, <1>8, <1>9, <1>10, MutexStep

\* The caller on a mutex its calls do not name.
LEMMA CallerElsewhere ==
  ASSUME NEW m, NEW x, NEW s, NEW c, NEW t, NEW d, NEW h \in Handles, MutexOK(m, x, s, c),
         s.wait_key[h] = NoKey, t.wait_key[h] # MutexWaitKey(m, h), Alive(t, h),
         ~Asks(c, m, h), ~Asks(d, m, h)
  PROVE  Stays(m, x, s, c, t, d, h)
<1>1. s.wait_key[h] # MutexWaitKey(m, h)
  BY KeyFacts
<1>2. h \notin x.granted_waiters
  BY DEF MutexOK
<1> QED BY <1>1, <1>2 DEF Stays

\* t is s after its running thread h blocked.
Blocks(s, t, h, key, deadline) ==
  /\ SchedulerOK(t, WaitKeys) /\ \A g \in Handles : g # h => Steady(s, t, g)
  /\ t.wait_key[h] = key /\ t.deadline[h] = deadline /\ Alive(t, h)

LEMMA BlockFacts ==
  ASSUME NEW s, SchedulerOK(s, WaitKeys), NEW h \in Handles, s.current = h, CanLeave(s),
         NEW key \in WaitKeys, NEW deadline \in Nat \cup {NoDeadline},
         \A g : key # ThreadExitWaitKey(g)
  PROVE  Blocks(s, BlockCurrentUntil(s, key, deadline), h, key, deadline)
<1> DEFINE t == BlockCurrentUntil(s, key, deadline)
<1>1. SchedulerOK(t, WaitKeys)
  BY BlockCurrentUntilOK
<1>2. key # NoKey
  BY KeyTypes
<1>3. /\ \A g \in Handles : g # h => Steady(s, t, g)
      /\ t.state[h] = "blocked" /\ t.wait_key[h] = key /\ t.deadline[h] = deadline
  <2>1. LET c == s.current
        IN  /\ \A g \in Handles : g # c => Steady(s, t, g)
            /\ c \in Handles => /\ t.state[c] = "blocked" /\ t.wait_key[c] = key
                                /\ t.deadline[c] = deadline
    BY ONLY SchedulerOK(s, WaitKeys), CanLeave(s), <1>2, BlockSteady
  <2> HIDE DEF t
  <2> QED BY <2>1
<1> HIDE DEF t
<1>4. Alive(t, h)
  BY <1>3 DEF Alive
<1>5. Blocks(s, t, h, key, deadline)
  BY <1>1, <1>3, <1>4 DEF Blocks
<1> QED BY <1>5 DEF t

\* The keys of mutexes and conditions are no thread's exit.
LEMMA KeysAreNoExit ==
  /\ \A m, h, g : MutexWaitKey(m, h) # ThreadExitWaitKey(g)
  /\ \A c, h, g : ConditionWaitKey(c, h) # ThreadExitWaitKey(g)
BY KeyFacts

\* The call after it, and what the other threads see of a call that locks.
LEMMA CallTypes ==
  ASSUME IInv, NEW h \in Handles, NEW k \in Calls, NEW status, call' = CallAfter(h, k, status)
  PROVE  /\ call' \in [Handles -> Calls] /\ \A g \in Handles : g # h => call'[g] = call[g]
         /\ call'[h] = IF status = "kWouldBlock" THEN k ELSE NoCall
<1>1. call \in [Handles -> Calls] /\ NoCall \in Calls
  BY InvFacts DEF Calls
<1> QED BY <1>1 DEF CallAfter

LEMMA LockStep ==
  ASSUME IInv, NEW h \in Handles, NEW m \in Mutexes, NEW try_only \in BOOLEAN,
         LockMutex(h, m, try_only)
  PROVE  IInv'
<1> DEFINE x == mutexes[m]
           y == AfterLock(x, h, try_only)
           status == LockStatus(x, h, try_only)
           k == LockCall(m)
<1>1. /\ sched.current = h /\ sched.state[h] = "running" /\ x.type # "none"
      /\ call[h] = NoCall \/ call[h] = k
      /\ mutexes' = [mutexes EXCEPT ![m] = y]
      /\ sched' = IF status = "kWouldBlock" THEN BlockCurrent(sched, MutexWaitKey(m, h))
                                            ELSE sched
      /\ call' = CallAfter(h, k, status) /\ UNCHANGED <<now, conditions, completed>>
  <2>1. MayCall(h, IF try_only THEN NoCall ELSE LockCall(m))
    BY DEF LockMutex
  <2> QED BY <2>1 DEF LockMutex, MayCall, MutexLive
<1> HIDE DEF status, k, y
<1>2. /\ MutexOK(m, x, sched, call) /\ SchedulerOK(sched, WaitKeys) /\ x \in MutexRecords
      /\ x.owner = NoThread <=> x.recursion_count = 0
  BY InvFacts DEF MutexOK
<1>3. sched.wait_key[h] = NoKey /\ CanLeave(sched) /\ Awake(sched, h) /\ Alive(sched, h)
  BY <1>1, CallerFacts
<1>4. \A i \in DOMAIN x.waiters : x.waiters[i] # h
  BY <1>2, <1>3, RunnerNotQueued
<1>5. /\ y \in MutexRecords /\ y.type = x.type
      /\ y.condition_waiter_count = x.condition_waiter_count
      /\ IF status = "kWouldBlock" THEN Queues(x, y, h) ELSE Answers(x, y, h)
  BY <1>2, <1>4, LockFacts DEF y, status
<1>6. k \in Calls
  BY DEF k, Calls
<1>7. /\ call' \in [Handles -> Calls] /\ \A g \in Handles : g # h => call'[g] = call[g]
      /\ call'[h] = IF status = "kWouldBlock" THEN k ELSE NoCall
  BY <1>1, <1>6, CallTypes
<1>8. \A n \in Mutexes : n # m => ~Asks(call, n, h) /\ ~Asks(call', n, h)
  BY <1>1, <1>7, AskFacts DEF k
<1>9. /\ completed[h] = NoCompletion
      /\ \A c \in Conditions : \A w \in Elements(conditions[c].waiters) : w.thread # h
  BY <1>1, <1>3, CallerInNoWait DEF k
<1>10. SchedulerOK(sched', WaitKeys) /\ OthersSteady(sched, call, sched', call', h)
       /\ MutexOK(m, y, sched', call') /\ Alive(sched', h)
       /\ sched'.wait_key[h] \in {NoKey, MutexWaitKey(m, h)}
  <2>1. CASE status = "kWouldBlock"
    <3> DEFINE key == MutexWaitKey(m, h)
    <3>1. sched' = BlockCurrentUntil(sched, key, NoDeadline) /\ key \in WaitKeys
          /\ \A g : key # ThreadExitWaitKey(g)
      BY <1>1, <2>1, KeyTypes, KeysAreNoExit DEF BlockCurrent
    <3> HIDE DEF key
    <3>6. Blocks(sched, BlockCurrentUntil(sched, key, NoDeadline), h, key, NoDeadline)
      BY <1>1, <1>2, <1>3, <3>1, BlockFacts
    <3>2. /\ SchedulerOK(sched', WaitKeys)
          /\ \A g \in Handles : g # h => Steady(sched, sched', g)
          /\ sched'.wait_key[h] = key /\ sched'.deadline[h] = NoDeadline /\ Alive(sched', h)
      BY <3>1, <3>6 DEF Blocks
    <3>3. OthersSteady(sched, call, sched', call', h)
      BY <1>7, <3>2 DEF OthersSteady
    <3>4. Asks(call', m, h)
      BY <1>7, <2>1 DEF Asks, k
    <3>5. MutexOK(m, y, sched', call')
      BY <1>1, <1>2, <1>3, <1>5, <2>1, <3>2, <3>3, <3>4, QueuesKeeps DEF key
    <3> QED BY <3>2, <3>3, <3>5 DEF key
  <2>2. CASE status # "kWouldBlock"
    <3>1. sched' = sched
      BY <1>1, <2>2
    <3>2. OthersSteady(sched, call, sched', call', h)
      BY <1>7, <3>1 DEF OthersSteady, Steady
    <3>3. ~Asks(call', m, h)
      BY <1>7, <2>2, AskFacts
    <3>4. MutexOK(m, y, sched', call')
      BY <1>1, <1>2, <1>3, <1>5, <2>2, <3>1, <3>2, <3>3, AnswersKeeps
    <3> QED BY <1>2, <1>3, <3>1, <3>2, <3>4
  <2> QED BY <2>1, <2>2
<1>11. \A g \in Handles : g # h => Drifts(sched, sched', g, now)
  BY <1>10 DEF OthersSteady, Drifts
<1>12. ASSUME NEW n \in Mutexes, n # m PROVE MutexOK(n, mutexes[n], sched', call')
  <2>1. MutexOK(n, mutexes[n], sched, call)
    BY InvFacts
  <2>2. sched'.wait_key[h] # MutexWaitKey(n, h)
    BY <1>10, <1>12, KeyFacts
  <2>3. Stays(n, mutexes[n], sched, call, sched', call', h)
    BY <1>3, <1>8, <1>10, <1>12, <2>1, <2>2, CallerElsewhere
  <2> QED BY <1>7, <1>11, <2>1, <2>3, BystanderKeeps DEF Passes
<1>13. ASSUME NEW g \in Handles
       PROVE  WaitOK(g, sched', conditions, completed, call', now)
  <2>1. CASE g = h
    <3>1. \A c \in Conditions, n \in Mutexes : call'[h] # WaitCall(c, n)
      BY <1>7, CallFacts DEF k
    <3> QED BY <1>9, <2>1, <3>1 DEF WaitOK, Queued
  <2>2. CASE g # h
    <3>1. SameEntries(conditions, completed, conditions, completed, g)
      BY DEF SameEntries
    <3>2. WaitTypes(conditions, completed) /\ now \in Nat /\ now <= now
      BY InvFacts
    <3> QED BY <1>7, <1>11, <2>2, <3>1, <3>2, WaitStays
  <2> QED BY <2>1, <2>2
<1> QED BY <1>1, <1>5, <1>7, <1>10, <1>12, <1>13, MutexStep

\* The keys an unlock wakes are those of the heir.
LEMMA GrantKeysFacts ==
  ASSUME IInv, NEW m \in Mutexes, NEW h \in Handles, mutexes[m].owner = h,
         mutexes[m].recursion_count = 1
  PROVE  /\ KeyList(GrantKeys(m, mutexes[m], h))
         /\ SleepersOf(sched, GrantKeys(m, mutexes[m], h)) = Heirs(mutexes[m])
         /\ \A g \in Heirs(mutexes[m]) :
              g \in Handles /\ sched.wait_key[g] = MutexWaitKey(m, g)
<1> DEFINE x == mutexes[m]
           keys == GrantKeys(m, x, h)
<1>1. /\ MutexOK(m, x, sched, call) /\ x \in MutexRecords /\ x.waiters \in Seq(Handles)
      /\ Lists(x.waiters, Sleepers(m, sched)) /\ x.granted_waiters \subseteq {h}
  BY InvFacts, MutexFields DEF MutexOK
<1>2. UnlockStatus(x, h) = "kOk"
  BY DEF UnlockStatus
<1>3. CASE x.waiters = <<>>
  <2>1. keys = <<>> /\ Heirs(x) = {}
    BY <1>3 DEF GrantKeys, Heirs
  <2> HIDE DEF keys
  <2>2. KeyList(keys) /\ SleepersOf(sched, keys) = {}
    BY <2>1 DEF KeyList, SleepersOf
  <2> QED BY <2>1, <2>2 DEF keys
<1>4. CASE x.waiters # <<>>
  <2> DEFINE g == x.waiters[1]
             key == MutexWaitKey(m, g)
  <2>1. Len(x.waiters) # 0 /\ Head(x.waiters) = g
    BY <1>1, <1>4
  <2>2. g \in Sleepers(m, sched)
    BY <1>1, <2>1, ListsRest
  <2>3. Heirs(x) = {g}
    BY <1>4, <2>1 DEF Heirs
  <2>4. Release(x, h).owner = g
    BY <1>1, <1>4, ReleaseFacts
  <2>5. keys = <<key>>
    BY <1>2, <1>4, <2>4 DEF GrantKeys
  <2> HIDE DEF g
  <2>6. g \in Handles /\ sched.wait_key[g] = key
    BY <2>2 DEF Sleepers
  <2>7. key \in WaitKeys /\ KeyThread(key) = g
    BY <2>6, KeyTypes, KeyFacts
  <2> HIDE DEF key, keys
  <2>8. KeyList(keys)
    BY <2>5, <2>6, <2>7 DEF KeyList
  <2>9. SleepersOf(sched, keys) = {g}
    <3>1. DOMAIN keys = {1} /\ keys[1] = key
      BY <2>5
    <3> QED BY <2>6, <2>7, <3>1 DEF SleepersOf
  <2> QED BY <2>3, <2>6, <2>8, <2>9 DEF keys, key
<1> QED BY <1>3, <1>4

\* What the threads notice when h gives mutex m up: t is the scheduler after the
\* wake-up of the heir.
Yields(m, t, h) ==
  /\ SchedulerOK(t, WaitKeys) /\ t.current = h /\ t.state[h] = "running"
  /\ t.wait_key[h] = NoKey
  /\ \A g \in Handles :
       IF g \in Heirs(mutexes[m]) THEN Roused(t, g) /\ sched.wait_key[g] = MutexWaitKey(m, g)
       ELSE Drifts(sched, t, g, now)

LEMMA ReleaseWakes ==
  ASSUME IInv, NEW m \in Mutexes, NEW h \in Handles, mutexes[m].owner = h,
         mutexes[m].recursion_count = 1, sched.current = h, sched.state[h] = "running"
  PROVE  Yields(m, WakeInTurn(sched, GrantKeys(m, mutexes[m], h), now), h)
<1> DEFINE keys == GrantKeys(m, mutexes[m], h)
           t == WakeInTurn(sched, keys, now)
<1>1. /\ KeyList(keys) /\ SleepersOf(sched, keys) = Heirs(mutexes[m])
      /\ \A g \in Heirs(mutexes[m]) : sched.wait_key[g] = MutexWaitKey(m, g)
  BY GrantKeysFacts
<1>2. SchedulerOK(sched, WaitKeys)
  BY InvFacts
<1> HIDE DEF keys
<1>3. /\ SchedulerOK(t, WaitKeys) /\ t.current = sched.current
      /\ \A g \in Handles : IF g \in SleepersOf(sched, keys) THEN Roused(t, g)
                            ELSE Drifts(sched, t, g, now)
      /\ \A g \in Handles : sched.state[g] # "blocked" => t.state[g] = sched.state[g]
  BY <1>1, <1>2, WakeDrifts
<1> HIDE DEF t
<1>4. t.state[h] = "running"
  BY <1>3
<1>5. t.wait_key[h] = NoKey
  BY <1>3, <1>4 DEF SchedulerOK, WaitsOK
<1>6. Yields(m, t, h)
  BY <1>1, <1>3, <1>4, <1>5 DEF Yields
<1> QED BY <1>6 DEF t, keys

\* The heir of one mutex is a passer-by for the others.
LEMMA HeirPasses ==
  ASSUME NEW m \in Mutexes, NEW t, NEW h, Yields(m, t, h), NEW n \in Mutexes, n # m,
         NEW g \in Handles
  PROVE  Passes(n, sched, t, g, now)
<1>1. MutexWaitKey(m, g) # MutexWaitKey(n, g)
  BY KeyFacts
<1> QED BY <1>1 DEF Yields, Passes

LEMMA UnlockStep ==
  ASSUME IInv, NEW h \in Handles, NEW m \in Mutexes, UnlockMutex(h, m)
  PROVE  IInv'
<1> DEFINE x == mutexes[m]
           y == AfterUnlock(x, h)
           r == x.recursion_count
<1>1. /\ sched.current = h /\ sched.state[h] = "running" /\ x.type # "none"
      /\ call[h] = NoCall /\ mutexes' = [mutexes EXCEPT ![m] = y]
      /\ sched' = WakeInTurn(sched, GrantKeys(m, x, h), now)
      /\ UNCHANGED <<now, call, conditions, completed>>
  BY DEF UnlockMutex, MayCall, MutexLive
<1>2. /\ MutexOK(m, x, sched, call) /\ SchedulerOK(sched, WaitKeys) /\ x \in MutexRecords
      /\ x.owner = NoThread <=> r = 0
      /\ r \in Nat /\ MaxRecursion \in Nat /\ r <= MaxRecursion
  <2>1. MutexOK(m, x, sched, call) /\ SchedulerOK(sched, WaitKeys)
    BY InvFacts
  <2>2. x \in MutexRecords /\ (x.owner = NoThread <=> r = 0)
    BY <2>1 DEF MutexOK
  <2>3. r \in 0 .. MaxRecursion
    BY <2>2, MutexFields
  <2> QED BY <2>1, <2>2, <2>3, PthreadAssumption
<1>3. sched.wait_key[h] = NoKey /\ CanLeave(sched) /\ Awake(sched, h) /\ Alive(sched, h)
  BY <1>1, CallerFacts
<1>4. \A n \in Mutexes : ~Asks(call, n, h)
  BY <1>1, AskFacts
<1>5. WaitTypes(conditions, completed) /\ now \in Nat /\ now <= now
      /\ call \in [Handles -> Calls]
  BY InvFacts
<1>6. \A g \in Handles : SameEntries(conditions, completed, conditions, completed, g)
  BY DEF SameEntries
<1>7. CASE x.owner = h /\ r = 1
  <2>1. Yields(m, sched', h)
    BY <1>1, <1>7, ReleaseWakes
  <2>2. y = Release(x, h)
    BY <1>7 DEF AfterUnlock, UnlockStatus
  <2>3. y.condition_waiter_count = x.condition_waiter_count
    <3>1. x.granted_waiters \subseteq {h}
      BY <1>2, <1>7 DEF MutexOK
    <3> QED BY <1>2, <2>2, <3>1, ReleaseFacts
  <2> HIDE DEF y
  <2>4. HandsOn(m, x, sched, call, sched', call', h, now)
    BY <1>1, <2>1 DEF HandsOn, Yields, Passes
  <2>5. sched'.wait_key[h] = NoKey /\ SchedulerOK(sched', WaitKeys) /\ Alive(sched', h)
    BY <2>1 DEF Yields, Alive
  <2>6. \A n : sched'.wait_key[h] # MutexWaitKey(n, h)
    BY <2>5, KeyFacts
  <2>7. MutexOK(m, y, sched', call')
    BY <1>2, <1>3, <1>7, <2>2, <2>4, <2>6, ReleaseKeeps
  <2>8. ASSUME NEW n \in Mutexes, n # m PROVE MutexOK(n, mutexes[n], sched', call')
    <3>1. MutexOK(n, mutexes[n], sched, call)
      BY InvFacts
    <3>2. ~Asks(call, n, h) /\ ~Asks(call', n, h)
      BY <1>1, <1>4
    <3>3. Stays(n, mutexes[n], sched, call, sched', call', h)
      BY <1>3, <2>5, <2>6, <3>1, <3>2, CallerElsewhere
    <3>4. \A g \in Handles : Passes(n, sched, sched', g, now)
      BY <2>1, <2>8, HeirPasses
    <3> QED BY <1>1, <3>1, <3>3, <3>4, BystanderKeeps
  <2>9. \A g \in Handles : WaitOK(g, sched', conditions, completed, call', now)
    <3> SUFFICES ASSUME NEW g \in Handles
                 PROVE  WaitOK(g, sched', conditions, completed, call', now)
      OBVIOUS
    <3>1. \/ Drifts(sched, sched', g, now)
          \/ Roused(sched', g) /\ \E n \in Mutexes : sched.wait_key[g] = MutexWaitKey(n, g)
      BY <2>1 DEF Yields
    <3> QED BY <1>1, <1>5, <1>6, <3>1, WaitStays
  <2> QED BY <1>1, <1>5, <2>3, <2>5, <2>7, <2>8, <2>9, MutexStep
<1>8. CASE ~(x.owner = h /\ r = 1)
  <2>1. GrantKeys(m, x, h) = <<>>
    BY <1>8 DEF GrantKeys, UnlockStatus
  <2>2. sched' = sched
    BY <1>1, <2>1 DEF WakeInTurn
  <2>3. MutexOK(m, y, sched, call) /\ y.condition_waiter_count = x.condition_waiter_count
    <3>1. CASE y = x
      BY <1>2, <3>1
    <3>2. CASE y # x
      <4>1. x.owner = h /\ r > 1 /\ y = [x EXCEPT !.recursion_count = @ - 1]
        BY <1>2, <1>8, <3>2 DEF AfterUnlock, UnlockStatus
      <4> HIDE DEF y
      <4>2. r - 1 \in 0 .. MaxRecursion /\ r - 1 # 0 /\ r # 1
        BY <1>2, <4>1
      <4>3. /\ y \in MutexRecords /\ y.type = x.type /\ y.owner = x.owner
            /\ y.waiters = x.waiters /\ y.granted_waiters = x.granted_waiters
            /\ y.recursion_count = r - 1
            /\ y.condition_waiter_count = x.condition_waiter_count
        BY <1>2, <4>1, <4>2 DEF MutexRecords
      <4>4. x.owner # NoThread
        BY HandleFacts, <4>1
      <4> QED BY <1>1, <1>2, <4>2, <4>3, <4>4 DEF MutexOK
    <3> QED BY <3>1, <3>2
  <2> HIDE DEF y
  <2>4. MutexOK(m, y, sched', call')
        /\ \A n \in Mutexes : n # m => MutexOK(n, mutexes[n], sched', call')
    BY <1>1, <2>2, <2>3, InvFacts
  <2>5. SchedulerOK(sched', WaitKeys) /\ call' \in [Handles -> Calls]
        /\ \A g \in Handles : WaitOK(g, sched', conditions, completed, call', now)
    BY <1>1, <1>2, <2>2, InvFacts
  <2> QED BY <1>1, <2>3, <2>4, <2>5, MutexStep
<1> QED BY <1>7, <1>8

-----------------------------------------------------------------------------
(* Operations on a condition.                                               *)

\* An idle condition is created or destroyed.
LEMMA ConditionStep ==
  ASSUME IInv, NEW c \in Conditions, NEW k,
         conditions' = [conditions EXCEPT ![c] = k], k \in ConditionRecords,
         k.waiters = conditions[c].waiters,
         k.active_waiter_count = conditions[c].active_waiter_count,
         ~k.live => k = NoCondition,
         UNCHANGED <<sched, now, call, mutexes, completed>>
  PROVE  IInv'
<1>1. conditions \in [Conditions -> ConditionRecords]
  BY InvFacts DEF WaitTypes
<1>2. \A j \in Conditions : conditions'[j] = IF j = c THEN k ELSE conditions[j]
  BY <1>1
<1>3. /\ \A j \in Conditions : conditions'[j].waiters = conditions[j].waiters
      /\ \A j \in Conditions :
           conditions'[j].active_waiter_count = conditions[j].active_waiter_count
      /\ \A j \in Conditions : ~conditions'[j].live => conditions'[j] = NoCondition
  BY <1>2, InvFacts DEF QueuesOK
<1>4. WaitTypes(conditions', completed')
  BY <1>1, InvFacts DEF WaitTypes
<1>5. QueuesOK(conditions', completed')
  BY <1>3, InvFacts DEF QueuesOK
<1>6. \A h \in Handles : SameEntries(conditions, completed, conditions', completed', h)
  BY <1>3 DEF SameEntries, EntriesOf
<1>7. CountsOK(mutexes', conditions', completed')
  <2>1. SameCounts(mutexes, conditions, mutexes', conditions')
    BY <1>3 DEF SameCounts
  <2>2. \A g \in Handles : SameWaits(conditions, completed, conditions', completed', g)
    BY <1>6, EntriesWaits
  <2>3. CountsOK(mutexes, conditions, completed)
    BY InvFacts
  <2> QED BY ONLY <2>1, <2>2, <2>3, CountsStay
<1>8. \A h \in Handles : WaitOK(h, sched', conditions', completed', call', now')
  <2> SUFFICES ASSUME NEW h \in Handles
               PROVE  WaitOK(h, sched', conditions', completed', call', now')
    OBVIOUS
  <2>1. Drifts(sched, sched', h, now) /\ now \in Nat /\ now <= now
    BY InvFacts DEF Drifts, Steady
  <2> QED BY <1>4, <1>6, <2>1, WaitStays
<1>9. \A m \in Mutexes : MutexOK(m, mutexes'[m], sched', call')
  BY InvFacts
<1>10. SchedulerOK(sched', WaitKeys) /\ now' \in 0 .. MaxTime /\ call' \in [Handles -> Calls]
       /\ mutexes' \in [Mutexes -> MutexRecords]
  BY InvFacts
<1> QED BY <1>4, <1>5, <1>7, <1>8, <1>9, <1>10, Assemble

\* Two steps in a row: the heirs are woken, then the running thread blocks.
LEMMA YieldsThenBlocks ==
  ASSUME NEW m \in Mutexes, NEW t, NEW h \in Handles, Yields(m, t, h), NEW u, NEW key,
         NEW deadline, Blocks(t, u, h, key, deadline), NEW g \in Handles, g # h
  PROVE  IF g \in Heirs(mutexes[m]) THEN Roused(u, g) /\ sched.wait_key[g] = MutexWaitKey(m, g)
         ELSE Drifts(sched, u, g, now)
<1>1. Steady(t, u, g)
  BY DEF Blocks
<1>2. CASE g \in Heirs(mutexes[m])
  BY <1>1, <1>2 DEF Yields, Roused, Steady
<1>3. CASE g \notin Heirs(mutexes[m])
  BY <1>1, <1>3, DriftsOn DEF Yields
<1> QED BY <1>2, <1>3

\* One thread is appended to the queue of one condition.
Enqueues(cs, done, ds, c, w) ==
  /\ done[w.thread] = NoCompletion
  /\ \A k \in Conditions : \A v \in Elements(cs[k].waiters) : v.thread # w.thread
  /\ \A k \in Conditions : k # c => ds[k] = cs[k]
  /\ ds[c].waiters = Append(cs[c].waiters, w) /\ ds[c].live

LEMMA QueuesEnter ==
  ASSUME NEW cs, NEW done, NEW ds, WaitTypes(cs, done), QueuesOK(cs, done),
         NEW c \in Conditions, NEW w \in Waiters, Enqueues(cs, done, ds, c, w)
  PROVE  /\ QueuesOK(ds, done)
         /\ Elements(ds[c].waiters) = Elements(cs[c].waiters) \cup {w}
<1> USE DEF Enqueues
<1>1. QueueOK(cs[c].waiters)
  BY QueuesAreOK
<1>2. /\ QueueOK(ds[c].waiters)
      /\ Elements(ds[c].waiters) = Elements(cs[c].waiters) \cup {w}
  BY <1>1, QueueAppend
<1>3. \A k \in Conditions : \A i, j \in DOMAIN ds[k].waiters :
        ds[k].waiters[i].thread = ds[k].waiters[j].thread => i = j
  <2> SUFFICES ASSUME NEW k \in Conditions
               PROVE  \A i, j \in DOMAIN ds[k].waiters :
                        ds[k].waiters[i].thread = ds[k].waiters[j].thread => i = j
    OBVIOUS
  <2>1. CASE k = c
    BY <1>2, <2>1 DEF QueueOK
  <2>2. CASE k # c
    <3>1. ds[k] = cs[k]
      BY <2>2
    <3> QED BY <3>1 DEF QueuesOK
  <2> QED BY <2>1, <2>2
<1>4. \A k \in Conditions : \A v \in Elements(ds[k].waiters) :
        (v \in Elements(cs[k].waiters) /\ v.thread # w.thread) \/ (v = w /\ k = c)
  BY <1>2
<1>5. \A k, l \in Conditions : \A v \in Elements(ds[k].waiters), u \in Elements(ds[l].waiters) :
        v.thread = u.thread => k = l
  BY <1>4 DEF QueuesOK
<1>6. \A k \in Conditions : \A v \in Elements(ds[k].waiters) : done[v.thread] = NoCompletion
  BY <1>4 DEF QueuesOK
<1>7. \A k \in Conditions : ~ds[k].live => ds[k] = NoCondition
  BY DEF QueuesOK
<1> QED BY <1>2, <1>3, <1>5, <1>6, <1>7 DEF QueuesOK

LEMMA StartWaitStep ==
  ASSUME IInv, NEW h \in Handles, NEW c \in Conditions, NEW m \in Mutexes,
         NEW deadline \in Nat \cup {NoDeadline}, StartWait(h, c, m, deadline)
  PROVE  IInv'
<1> DEFINE x == mutexes[m]
           y0 == Release(x, h)
           y == [y0 EXCEPT !.condition_waiter_count = @ + 1]
           t == WakeInTurn(sched, GrantKeys(m, x, h), now)
           key == ConditionWaitKey(c, h)
           w == Waiter(h, m, deadline)
           k == WaitCall(c, m)
<1>1. /\ sched.current = h /\ sched.state[h] = "running" /\ x.type # "none"
      /\ call[h] = NoCall /\ conditions[c].live /\ x.owner = h /\ x.recursion_count = 1
      /\ conditions' = [conditions EXCEPT ![c].waiters = Append(@, w),
                                          ![c].active_waiter_count = @ + 1]
      /\ sched' = BlockCurrentUntil(t, key, deadline)
      /\ call' = CallAfter(h, k, "kWouldBlock") /\ UNCHANGED <<now, completed>>
  BY DEF StartWait, MayCall, MutexLive
<1>2. mutexes' = [mutexes EXCEPT ![m] = y]
  <2>1. AfterUnlock(x, h) = y0
    BY <1>1 DEF AfterUnlock, UnlockStatus
  <2>2. mutexes' = [mutexes EXCEPT ![m] = [AfterUnlock(x, h) EXCEPT
                                             !.condition_waiter_count = @ + 1]]
    BY DEF StartWait
  <2> QED BY <2>1, <2>2
<1>3. /\ MutexOK(m, x, sched, call) /\ SchedulerOK(sched, WaitKeys) /\ x \in MutexRecords
      /\ x.granted_waiters \subseteq {h} /\ now \in Nat /\ now <= now
  BY <1>1, InvFacts DEF MutexOK
<1>4. sched.wait_key[h] = NoKey /\ CanLeave(sched) /\ Awake(sched, h) /\ Alive(sched, h)
  BY <1>1, CallerFacts
<1>5. /\ completed[h] = NoCompletion /\ NoWait(conditions, completed, h)
      /\ \A j \in Conditions : \A v \in Elements(conditions[j].waiters) : v.thread # h
  BY <1>1, <1>4, CallerInNoWait
<1>6. w \in Waiters /\ w.thread = h /\ w.mutex = m /\ w.deadline = deadline
  BY DEF Waiter, Waiters
<1>7. k \in Calls
  BY DEF Calls
<1>8. /\ call' \in [Handles -> Calls] /\ \A g \in Handles : g # h => call'[g] = call[g]
      /\ call'[h] = k
  BY <1>1, <1>7, CallTypes
<1>9. Yields(m, t, h)
  BY <1>1, ReleaseWakes
<1>10. key \in WaitKeys /\ \A g : key # ThreadExitWaitKey(g)
  BY KeyTypes, KeysAreNoExit
<1>11. y0 \in MutexRecords /\ y0.condition_waiter_count = x.condition_waiter_count
       /\ y0.type = x.type
  BY <1>3, ReleaseFacts
<1> HIDE DEF t, key, y0, w
<1>12. Blocks(t, sched', h, key, deadline)
  <2>1. SchedulerOK(t, WaitKeys) /\ t.current = h /\ CanLeave(t)
    BY <1>9, HandleFacts DEF Yields, CanLeave
  <2> QED BY <1>1, <1>10, <2>1, BlockFacts
<1>13. \A g \in Handles : g # h =>
         IF g \in Heirs(x) THEN Roused(sched', g) /\ sched.wait_key[g] = MutexWaitKey(m, g)
         ELSE Drifts(sched, sched', g, now)
  BY <1>9, <1>12, YieldsThenBlocks
<1>14. /\ SchedulerOK(sched', WaitKeys) /\ Alive(sched', h) /\ sched'.wait_key[h] = key
       /\ sched'.deadline[h] = deadline
  BY <1>12 DEF Blocks
<1>15. \A n : sched'.wait_key[h] # MutexWaitKey(n, h)
  BY <1>14, KeyFacts DEF key
\* The conditions.
<1>16. conditions \in [Conditions -> ConditionRecords] /\ conditions[c] \in ConditionRecords
  BY InvFacts DEF WaitTypes
<1>17. /\ \A j \in Conditions : j # c => conditions'[j] = conditions[j]
       /\ conditions'[c] = [conditions[c] EXCEPT !.waiters = Append(@, w),
                                                 !.active_waiter_count = @ + 1]
       /\ DOMAIN conditions' = Conditions /\ conditions' = [j \in Conditions |-> conditions'[j]]
  BY <1>1, <1>16
<1>18. /\ conditions'[c].live /\ conditions'[c].waiters = Append(conditions[c].waiters, w)
       /\ conditions'[c].active_waiter_count = conditions[c].active_waiter_count + 1
  BY <1>1, <1>16, <1>17 DEF ConditionRecords
<1>19. /\ QueuesOK(conditions', completed')
       /\ Elements(conditions'[c].waiters) = Elements(conditions[c].waiters) \cup {w}
  <2>1. WaitTypes(conditions, completed) /\ QueuesOK(conditions, completed)
    BY InvFacts
  <2>2. /\ completed[w.thread] = NoCompletion
        /\ \A j \in Conditions : \A v \in Elements(conditions[j].waiters) : v.thread # w.thread
    BY <1>5, <1>6
  <2>3. /\ QueuesOK(conditions', completed)
        /\ Elements(conditions'[c].waiters) = Elements(conditions[c].waiters) \cup {w}
    <3>1. Enqueues(conditions, completed, conditions', c, w)
      BY <1>17, <1>18, <2>2 DEF Enqueues
    <3> QED BY <1>6, <2>1, <3>1, QueuesEnter
  <2> QED BY <1>1, <2>3
<1>20. \A g \in Handles : g # h => SameEntries(conditions, completed, conditions', completed', g)
  BY <1>1, <1>6, <1>17, <1>19 DEF SameEntries, EntriesOf
\* The counts.
<1>21. OnlyWait(conditions', completed', h, c, m)
  <2>1. NoCompletion.condition \notin Conditions
    BY HandleFacts DEF NoCompletion
  <2>2. ASSUME NEW j \in Conditions, NEW n \in Mutexes
        PROVE  InWait(conditions', completed', h, j, n) <=> j = c /\ n = m
    <3>1. completed'[h].condition # j
      BY <1>1, <1>5, <2>1
    <3>2. \A v : v \in Elements(conditions'[j].waiters) /\ v.thread = h <=> v = w /\ j = c
      BY <1>5, <1>6, <1>17, <1>19
    <3> QED BY <1>6, <3>1, <3>2 DEF InWait
  <2> QED BY <2>2 DEF OnlyWait
<1>22. /\ y.condition_waiter_count = x.condition_waiter_count + 1
       /\ \A n \in Mutexes : mutexes'[n] = IF n = m THEN y ELSE mutexes[n]
  <2>1. y.condition_waiter_count = y0.condition_waiter_count + 1
    BY <1>11 DEF MutexRecords
  <2> QED BY <1>2, <1>11, <2>1, InvFacts
<1>23. CountsOK(mutexes', conditions', completed')
  <2>1. CountsMove(mutexes, conditions, mutexes', conditions', c, m, 1)
    BY <1>17, <1>18, <1>22 DEF CountsMove
  <2>2. CountsOK(mutexes, conditions, completed)
    BY InvFacts
  <2>3. \A g \in Handles : g # h => SameWaits(conditions, completed, conditions', completed', g)
    BY <1>20, EntriesWaits
  <2> QED BY <1>5, <1>21, <2>1, <2>2, <2>3, CountsEnter
<1>24. conditions'[c].active_waiter_count \in 0 .. MaxHandle
       /\ y.condition_waiter_count \in 0 .. MaxHandle
  <2>1. conditions'[c].active_waiter_count = Cardinality(WaitersOn(conditions', completed', c))
    BY <1>23 DEF CountsOK
  <2>2. mutexes'[m].condition_waiter_count = Cardinality(WaitersWith(conditions', completed', m))
    BY <1>23 DEF CountsOK
  <2>3. mutexes'[m] = y
    BY <1>22
  <2> HIDE DEF y
  <2> QED BY <2>1, <2>2, <2>3, CountFacts
<1>25. WaitTypes(conditions', completed')
  <2>1. Append(conditions[c].waiters, w) \in Seq(Waiters)
    BY <1>6, <1>16 DEF ConditionRecords
  <2>2. conditions'[c] \in ConditionRecords
    BY <1>16, <1>17, <1>18, <1>24, <2>1 DEF ConditionRecords
  <2>3. \A j \in Conditions : conditions'[j] \in ConditionRecords
    BY <1>16, <1>17, <2>2
  <2>4. completed' \in [Handles -> CompletedWaits \cup {NoCompletion}]
    BY <1>1, InvFacts DEF WaitTypes
  <2> QED BY <1>17, <2>3, <2>4 DEF WaitTypes
\* The mutexes.
<1>26. MutexOK(m, y, sched', call')
  <2>1. HandsOn(m, x, sched, call, sched', call', h, now)
    BY <1>8, <1>13 DEF HandsOn, Passes
  <2>2. MutexOK(m, y0, sched', call')
    BY <1>1, <1>3, <1>4, <1>15, <2>1, ReleaseKeeps DEF y0
  <2>3. y = [y0 EXCEPT !.condition_waiter_count = y.condition_waiter_count]
    BY <1>11, <1>22
  <2> HIDE DEF y
  <2> QED BY <1>1, <1>11, <1>24, <2>2, <2>3, CountChanged
<1>27. ASSUME NEW n \in Mutexes, n # m PROVE MutexOK(n, mutexes[n], sched', call')
  <2>1. MutexOK(n, mutexes[n], sched, call)
    BY InvFacts
  <2>2. ~Asks(call, n, h) /\ ~Asks(call', n, h)
    BY <1>1, <1>8, <1>27, AskFacts
  <2>3. Stays(n, mutexes[n], sched, call, sched', call', h)
    BY <1>4, <1>14, <1>15, <2>1, <2>2, CallerElsewhere
  <2>4. \A g \in Handles : MutexWaitKey(m, g) # MutexWaitKey(n, g)
    BY <1>27, KeyFacts
  <2>5. \A g \in Handles : g # h => call'[g] = call[g] /\ Passes(n, sched, sched', g, now)
    BY <1>8, <1>13, <2>4 DEF Passes
  <2> QED BY <2>1, <2>3, <2>5, BystanderKeeps
<1> HIDE DEF y
<1>28. /\ \A n \in Mutexes : MutexOK(n, mutexes'[n], sched', call')
       /\ mutexes' \in [Mutexes -> MutexRecords]
  <2>1. y \in MutexRecords
    BY <1>26 DEF MutexOK
  <2> QED BY <1>2, <1>22, <1>26, <1>27, <2>1, InvFacts
\* The threads.
<1>29. ASSUME NEW g \in Handles
       PROVE  WaitOK(g, sched', conditions', completed', call', now')
  <2>1. CASE g = h
    <3>1. w \in Elements(conditions'[c].waiters) /\ Pending(sched', h, c, w, now')
      BY <1>6, <1>14, <1>19 DEF Pending, key
    <3>2. \A j \in Conditions, n \in Mutexes : call'[h] = WaitCall(j, n) => j = c /\ n = m
      BY <1>8, CallFacts
    <3>3. completed'[h] = NoCompletion
      BY <1>1, <1>5
    <3>4. \A j \in Conditions, n \in Mutexes : call'[h] = WaitCall(j, n) =>
            \E v \in Elements(conditions'[j].waiters) :
              v.thread = h /\ v.mutex = n /\ Pending(sched', h, j, v, now')
      BY <1>6, <3>1, <3>2
    <3>5. \E j \in Conditions, n \in Mutexes : call'[h] = WaitCall(j, n)
      BY <1>8
    <3> QED BY <2>1, <3>3, <3>4, <3>5 DEF WaitOK
  <2>2. CASE g # h
    <3>1. \/ Drifts(sched, sched', g, now)
          \/ Roused(sched', g) /\ \E n \in Mutexes : sched.wait_key[g] = MutexWaitKey(n, g)
      BY <1>13, <2>2
    <3>2. call'[g] = call[g] /\ SameEntries(conditions, completed, conditions', completed', g)
      BY <1>8, <1>20, <2>2
    <3>3. WaitOK(g, sched', conditions', completed', call', now)
      BY <1>3, <1>25, <3>1, <3>2, WaitStays
    <3> QED BY <1>1, <3>3
  <2> QED BY <2>1, <2>2
<1>30. now' \in 0 .. MaxTime
  BY <1>1, InvFacts
<1> QED BY <1>8, <1>14, <1>19, <1>23, <1>25, <1>28, <1>29, <1>30, Assemble

\* Entries leave the queues, and no wait that is left in them is completed.
Shrinks(cs, ds, end) ==
  \A k \in Conditions :
    /\ QueueOK(ds[k].waiters) /\ Elements(ds[k].waiters) \subseteq Elements(cs[k].waiters)
    /\ \A w \in Elements(ds[k].waiters) : end[w.thread] = NoCompletion
    /\ ~ds[k].live => ds[k] = NoCondition

LEMMA QueuesShrink ==
  ASSUME NEW cs, NEW done, NEW ds, NEW end, QueuesOK(cs, done), Shrinks(cs, ds, end)
  PROVE  QueuesOK(ds, end)
<1>1. \A k \in Conditions : \A i, j \in DOMAIN ds[k].waiters :
        ds[k].waiters[i].thread = ds[k].waiters[j].thread => i = j
  BY DEF Shrinks, QueueOK
<1>2. \A k, l \in Conditions : \A v \in Elements(ds[k].waiters), u \in Elements(ds[l].waiters) :
        v.thread = u.thread => k = l
  BY DEF Shrinks, QueuesOK
<1>3. /\ \A k \in Conditions : \A w \in Elements(ds[k].waiters) : end[w.thread] = NoCompletion
      /\ \A k \in Conditions : ~ds[k].live => ds[k] = NoCondition
  BY DEF Shrinks
<1> QED BY <1>1, <1>2, <1>3 DEF QueuesOK

\* A thread that repeats its condition wait is in that wait and no other.
LEMMA WaitCaller ==
  ASSUME IInv, NEW h \in Handles, NEW c \in Conditions, NEW m \in Mutexes,
         call[h] = WaitCall(c, m)
  PROVE  /\ \/ completed[h].condition = c /\ completed[h].mutex = m
            \/ /\ completed[h] = NoCompletion
               /\ \E w \in Elements(conditions[c].waiters) : w.thread = h /\ w.mutex = m
         /\ OnlyWait(conditions, completed, h, c, m)
         /\ conditions[c].live /\ conditions[c].active_waiter_count # 0
         /\ mutexes[m].type # "none" /\ mutexes[m].condition_waiter_count # 0
<1>1. \/ completed[h].condition = c /\ completed[h].mutex = m
      \/ /\ completed[h] = NoCompletion
         /\ \E w \in Elements(conditions[c].waiters) : w.thread = h /\ w.mutex = m
  <2>1. WaitOK(h, sched, conditions, completed, call, now)
    BY InvFacts
  <2> QED BY <2>1 DEF WaitOK
<1>2. InWait(conditions, completed, h, c, m)
  BY <1>1 DEF InWait
<1>3. WaitTypes(conditions, completed) /\ QueuesOK(conditions, completed)
      /\ CountsOK(mutexes, conditions, completed)
      /\ \A n \in Mutexes : mutexes[n].type = "none" => mutexes[n] = NoMutex
  BY InvFacts
<1>4. OnlyWait(conditions, completed, h, c, m)
  BY <1>2, <1>3, OneWait
<1>5. /\ conditions[c].live /\ conditions[c].active_waiter_count # 0
      /\ mutexes[m].type # "none" /\ mutexes[m].condition_waiter_count # 0
  BY <1>2, <1>3, WaitKeepsAlive
<1> QED BY <1>1, <1>4, <1>5

\* The condition of a wait that ends: h is no longer in its queue.
Settled(c, h, r) ==
  /\ r \in ConditionRecords /\ r.live = conditions[c].live
  /\ r.active_waiter_count = conditions[c].active_waiter_count
  /\ QueueOK(r.waiters)
  /\ Elements(r.waiters) = {v \in Elements(conditions[c].waiters) : v.thread # h}

LEMMA WaitSettles ==
  ASSUME IInv, NEW h \in Handles, NEW c \in Conditions, NEW m \in Mutexes,
         call[h] = WaitCall(c, m)
  PROVE  LET i == CHOOSE i \in IndexesOf(c, h, m) : TRUE
         IN  Settled(c, h, IF completed[h].condition = c /\ completed[h].mutex = m
                           THEN conditions[c]
                           ELSE [conditions[c] EXCEPT !.waiters = WithoutIndex(@, i)])
<1> DEFINE i == CHOOSE i \in IndexesOf(c, h, m) : TRUE
           q == conditions[c].waiters
           ours == completed[h].condition = c /\ completed[h].mutex = m
           r == IF ours THEN conditions[c]
                ELSE [conditions[c] EXCEPT !.waiters = WithoutIndex(@, i)]
<1>1. WaitTypes(conditions, completed) /\ QueuesOK(conditions, completed)
  BY InvFacts
<1>2. conditions[c] \in ConditionRecords /\ QueueOK(q)
  BY <1>1, QueuesAreOK, ConditionFields
<1>3. CASE ours
  <2>1. completed[h] # NoCompletion
    BY <1>1, <1>3, ConditionFields
  <2>2. \A v \in Elements(q) : v.thread # h
    BY <1>1, <2>1 DEF QueuesOK
  <2>3. r = conditions[c]
    BY <1>3
  <2> QED BY <1>2, <2>2, <2>3 DEF Settled
<1>4. CASE ~ours
  <2>1. PICK w \in Elements(q) : w.thread = h /\ w.mutex = m
    BY <1>4, WaitCaller
  <2>2. IndexesOf(c, h, m) # {}
    BY <2>1 DEF IndexesOf, Elements
  <2>3. i \in IndexesOf(c, h, m)
    BY <2>2
  <2>4. i \in DOMAIN q /\ q[i].thread = h
    BY <2>3 DEF IndexesOf
  <2> HIDE DEF i
  <2>5. QueueOK(WithoutIndex(q, i)) /\ Elements(WithoutIndex(q, i)) = Elements(q) \ {q[i]}
    BY <1>2, <2>4, QueueWithout
  <2>6. \A v \in Elements(q) : v.thread = h <=> v = q[i]
    <3>1. q[i] \in Elements(q)
      BY <2>4 DEF Elements
    <3> QED BY <1>2, <2>4, <3>1, OneEntry
  <2>7. r = [conditions[c] EXCEPT !.waiters = WithoutIndex(q, i)]
    BY <1>4
  <2> DEFINE p == WithoutIndex(q, i)
  <2>8. p \in Seq(Waiters)
    BY <2>5 DEF QueueOK
  <2> HIDE DEF p, r
  <2>9. /\ r \in ConditionRecords /\ r.live = conditions[c].live /\ r.waiters = p
        /\ r.active_waiter_count = conditions[c].active_waiter_count
    BY <1>2, <2>7, <2>8 DEF ConditionRecords, p
  <2>10. Elements(r.waiters) = {v \in Elements(q) : v.thread # h}
    BY <2>5, <2>6, <2>9 DEF p
  <2>11. Settled(c, h, r)
    BY <2>5, <2>9, <2>10 DEF Settled, p
  <2> QED BY <2>11 DEF r, i
<1> QED BY <1>3, <1>4

LEMMA SteadyOn ==
  ASSUME NEW s, NEW w, NEW t, NEW h, Steady(s, w, h), Steady(w, t, h)
  PROVE  Steady(s, t, h)
BY DEF Steady

\* The scheduler, the call and the mutex after the repeated call, without the
\* count: h has the mutex and is out of the call, or sleeps on it.
Relocked(h, c, m, y, t, d) ==
  /\ SchedulerOK(t, WaitKeys) /\ OthersSteady(sched, call, t, d, h)
  /\ MutexOK(m, y, t, d) /\ Alive(t, h)
  /\ IF LockStatus(mutexes[m], h, FALSE) = "kOk"
     THEN /\ t.wait_key[h] = NoKey /\ d[h] = NoCall
          /\ y.owner = h /\ y.recursion_count = 1 /\ h \notin y.granted_waiters
     ELSE t.wait_key[h] = MutexWaitKey(m, h) /\ d[h] = WaitCall(c, m)
  /\ y.condition_waiter_count = mutexes[m].condition_waiter_count
  /\ y.type = mutexes[m].type

LEMMA WaitRelocks ==
  ASSUME IInv, NEW h \in Handles, NEW c \in Conditions, NEW m \in Mutexes,
         call[h] = WaitCall(c, m), sched.current = h, sched.state[h] = "running",
         NEW s, s = ConsumeCurrentThreadTimeout(sched, ConditionWaitKey(c, h)),
         NEW t, t = IF LockStatus(mutexes[m], h, FALSE) = "kWouldBlock"
                    THEN BlockCurrent(s, MutexWaitKey(m, h)) ELSE s,
         NEW d, d \in [Handles -> Calls], \A g \in Handles : g # h => d[g] = call[g],
         d[h] = IF LockStatus(mutexes[m], h, FALSE) = "kWouldBlock" THEN call[h] ELSE NoCall
  PROVE  Relocked(h, c, m, AfterLock(mutexes[m], h, FALSE), t, d)
<1> DEFINE x == mutexes[m]
           y == AfterLock(x, h, FALSE)
           status == LockStatus(x, h, FALSE)
<1>1. /\ MutexOK(m, x, sched, call) /\ SchedulerOK(sched, WaitKeys) /\ x \in MutexRecords
      /\ x.owner = NoThread <=> x.recursion_count = 0
  BY InvFacts DEF MutexOK
<1>2. sched.wait_key[h] = NoKey /\ CanLeave(sched) /\ Awake(sched, h) /\ Alive(sched, h)
  BY CallerFacts
<1>3. x.type # "none"
  BY WaitCaller
<1>4. \A i \in DOMAIN x.waiters : x.waiters[i] # h
  BY <1>1, <1>2, RunnerNotQueued
<1>5. Asks(call, m, h)
  BY DEF Asks
<1>6. x.owner = h => h \in x.granted_waiters /\ x.recursion_count = 1
  BY <1>1, <1>5, HandleFacts DEF MutexOK
<1>7. status = IF x.owner \in {NoThread, h} THEN "kOk" ELSE "kWouldBlock"
  BY <1>6, RelockStatus
<1>8. /\ y \in MutexRecords /\ y.type = x.type
      /\ y.condition_waiter_count = x.condition_waiter_count
      /\ IF status = "kWouldBlock" THEN Queues(x, y, h) ELSE Answers(x, y, h)
  <2>1. FALSE \in BOOLEAN
    OBVIOUS
  <2> QED BY <1>1, <1>4, <2>1, LockFacts
<1>9. /\ SchedulerOK(s, WaitKeys) /\ s.current = h /\ CanLeave(s)
      /\ s.state = sched.state /\ s.wait_key = sched.wait_key
      /\ \A g \in Handles : g # h => Steady(sched, s, g)
  BY <1>1, <1>2, ConsumeSteady, HandleFacts DEF CanLeave
<1> HIDE DEF y, status
<1>10. CASE status = "kWouldBlock"
  <2> DEFINE key == MutexWaitKey(m, h)
  <2>1. t = BlockCurrentUntil(s, key, NoDeadline) /\ key \in WaitKeys
        /\ \A g : key # ThreadExitWaitKey(g)
    BY <1>10, KeyTypes, KeysAreNoExit DEF BlockCurrent, status
  <2> HIDE DEF key
  <2>2. Blocks(s, BlockCurrentUntil(s, key, NoDeadline), h, key, NoDeadline)
    BY <1>9, <2>1, BlockFacts
  <2>3. /\ SchedulerOK(t, WaitKeys) /\ \A g \in Handles : g # h => Steady(s, t, g)
        /\ t.wait_key[h] = key /\ t.deadline[h] = NoDeadline /\ Alive(t, h)
    BY <2>1, <2>2 DEF Blocks
  <2>4. OthersSteady(sched, call, t, d, h)
    <3>1. \A g \in Handles : g # h => Steady(sched, t, g)
      BY <1>9, <2>3, SteadyOn
    <3> QED BY <3>1 DEF OthersSteady
  <2>5. d[h] = call[h] /\ Asks(d, m, h)
    BY <1>5, <1>10 DEF Asks, status
  <2>6. MutexOK(m, y, t, d)
    BY <1>1, <1>2, <1>3, <1>8, <1>10, <2>3, <2>4, <2>5, QueuesKeeps DEF key
  <2>7. status # "kOk"
    BY <1>10
  <2> QED BY <1>8, <2>3, <2>4, <2>5, <2>6, <2>7 DEF Relocked, y, status, key
<1>11. CASE status # "kWouldBlock"
  <2>1. t = s /\ d[h] = NoCall
    BY <1>11 DEF status
  <2>2. OthersSteady(sched, call, t, d, h)
    BY <1>9, <2>1 DEF OthersSteady
  <2>3. t.wait_key[h] = NoKey /\ Awake(t, h) /\ Alive(t, h) /\ SchedulerOK(t, WaitKeys)
    BY <1>2, <1>9, <2>1 DEF Awake, Alive
  <2>4. ~Asks(d, m, h)
    BY <2>1, AskFacts
  <2>5. MutexOK(m, y, t, d)
    BY <1>1, <1>2, <1>3, <1>8, <1>11, <2>2, <2>3, <2>4, AnswersKeeps
  <2>6. status = "kOk" /\ x.owner \in {NoThread, h}
    BY <1>7, <1>11
  <2>7. y.owner = h /\ y.recursion_count = 1 /\ h \notin y.granted_waiters
    <3>1. Answers(x, y, h)
      BY <1>8, <1>11
    <3>2. CASE x.owner = NoThread
      <4>1. h \notin x.granted_waiters
        BY <1>1, <3>2, HandleFacts DEF MutexOK
      <4> QED BY <3>1, <3>2, <4>1, HandleFacts DEF Answers
    <3>3. CASE x.owner = h
      BY <1>6, <3>1, <3>3, HandleFacts DEF Answers
    <3> QED BY <2>6, <3>2, <3>3
  <2> QED BY <1>8, <2>1, <2>2, <2>3, <2>5, <2>6, <2>7 DEF Relocked, y, status
<1> QED BY <1>10, <1>11

LEMMA FinishWaitStep ==
  ASSUME IInv, NEW h \in Handles, NEW c \in Conditions, NEW m \in Mutexes,
         FinishWait(h, c, m)
  PROVE  IInv'
<1> DEFINE x == mutexes[m]
           y0 == AfterLock(x, h, FALSE)
           status == LockStatus(x, h, FALSE)
           done == status = "kOk"
           less(n) == IF done THEN n - 1 ELSE n
           y == [y0 EXCEPT !.condition_waiter_count = less(@)]
           ours == completed[h].condition = c /\ completed[h].mutex = m
           i == CHOOSE i \in IndexesOf(c, h, m) : TRUE
           r == IF ours THEN conditions[c]
                ELSE [conditions[c] EXCEPT !.waiters = WithoutIndex(@, i)]
           k == [r EXCEPT !.active_waiter_count = less(@)]
           s == ConsumeCurrentThreadTimeout(sched, ConditionWaitKey(c, h))
           e == [condition |-> c, mutex |-> m, timed_out |-> TRUE]
<1>1. /\ sched.current = h /\ sched.state[h] = "running" /\ call[h] = WaitCall(c, m)
      /\ conditions' = [conditions EXCEPT ![c] = k]
      /\ mutexes' = [mutexes EXCEPT ![m] = y]
      /\ completed' = [completed EXCEPT ![h] = CASE done -> NoCompletion
                                                 [] ~done /\ ours -> @
                                                 [] OTHER -> e]
      /\ sched' = IF status = "kWouldBlock" THEN BlockCurrent(s, MutexWaitKey(m, h)) ELSE s
      /\ call' = CallAfter(h, WaitCall(c, m), status) /\ now' = now
  BY DEF FinishWait, MayCall
<1>2. /\ WaitTypes(conditions, completed) /\ QueuesOK(conditions, completed)
      /\ CountsOK(mutexes, conditions, completed) /\ SchedulerOK(sched, WaitKeys)
      /\ mutexes \in [Mutexes -> MutexRecords] /\ now \in Nat /\ now <= now
      /\ now \in 0 .. MaxTime
  BY InvFacts
<1>3. /\ OnlyWait(conditions, completed, h, c, m) /\ x.type # "none"
      /\ conditions[c].live /\ conditions[c].active_waiter_count # 0
      /\ x.condition_waiter_count # 0
  BY <1>1, WaitCaller
<1>4. Settled(c, h, r)
  BY <1>1, WaitSettles
<1>5. /\ call' \in [Handles -> Calls] /\ \A g \in Handles : g # h => call'[g] = call[g]
      /\ call'[h] = IF status = "kWouldBlock" THEN WaitCall(c, m) ELSE NoCall
  <2>1. WaitCall(c, m) \in Calls
    BY DEF Calls
  <2> QED BY <1>1, <2>1, CallTypes
<1>6. Relocked(h, c, m, y0, sched', call')
  BY <1>1, <1>5, WaitRelocks
<1> HIDE DEF r, y0, s, e, status
<1>7. /\ \A g \in Handles : g # h => completed'[g] = completed[g]
      /\ completed' \in [Handles -> CompletedWaits \cup {NoCompletion}]
      /\ done => completed'[h] = NoCompletion
      /\ ~done => completed'[h].condition = c /\ completed'[h].mutex = m
  <2>1. completed \in [Handles -> CompletedWaits \cup {NoCompletion}]
    BY <1>2 DEF WaitTypes
  <2>2. e \in CompletedWaits /\ e.condition = c /\ e.mutex = m
    BY DEF e, CompletedWaits
  <2>3. CASE done
    BY <1>1, <2>1, <2>3
  <2>4. CASE ~done /\ ours
    <3>1. completed' = [completed EXCEPT ![h] = @]
      BY <1>1, <2>4
    <3> QED BY <2>1, <2>4, <3>1
  <2>5. CASE ~done /\ ~ours
    <3>1. completed' = [completed EXCEPT ![h] = e]
      BY <1>1, <2>5
    <3> HIDE DEF ours
    <3> QED BY <2>1, <2>2, <2>5, <3>1
  <2> QED BY <2>3, <2>4, <2>5
\* The conditions.
<1>8. /\ k.live = conditions[c].live /\ k.waiters = r.waiters
      /\ k.active_waiter_count = less(conditions[c].active_waiter_count)
      /\ k = [r EXCEPT !.active_waiter_count = k.active_waiter_count]
  <2>1. r \in ConditionRecords /\ r.live = conditions[c].live
        /\ r.active_waiter_count = conditions[c].active_waiter_count
    BY <1>4 DEF Settled
  <2> HIDE DEF done
  <2> QED BY <2>1 DEF ConditionRecords
<1>9. /\ \A j \in Conditions : conditions'[j] = IF j = c THEN k ELSE conditions[j]
      /\ conditions' = [j \in Conditions |-> conditions'[j]]
  BY <1>1, <1>2 DEF WaitTypes
<1>10. /\ y.condition_waiter_count = less(x.condition_waiter_count)
       /\ y = [y0 EXCEPT !.condition_waiter_count = y.condition_waiter_count]
       /\ y.owner = y0.owner /\ y.recursion_count = y0.recursion_count
       /\ y.granted_waiters = y0.granted_waiters
  <2>1. y0 \in MutexRecords /\ y0.condition_waiter_count = x.condition_waiter_count
    BY <1>6 DEF Relocked, MutexOK
  <2> HIDE DEF done
  <2> QED BY <2>1 DEF MutexRecords
<1>11. \A n \in Mutexes : mutexes'[n] = IF n = m THEN y ELSE mutexes[n]
  BY <1>1, <1>2
<1> HIDE DEF y, k, ours
<1>12. \A j \in Conditions : Elements(conditions'[j].waiters) =
         {v \in Elements(conditions[j].waiters) : v.thread # h}
  <2> SUFFICES ASSUME NEW j \in Conditions
               PROVE  Elements(conditions'[j].waiters) =
                        {v \in Elements(conditions[j].waiters) : v.thread # h}
    OBVIOUS
  <2>1. CASE j = c
    BY <1>4, <1>8, <1>9, <2>1 DEF Settled
  <2>2. CASE j # c
    <3>1. \A v \in Elements(conditions[j].waiters) : v.thread # h
      <4> SUFFICES ASSUME NEW v \in Elements(conditions[j].waiters), v.thread = h
                   PROVE  FALSE
        OBVIOUS
      <4>1. v.mutex \in Mutexes
        BY <1>2, ConditionFields, ElementFacts
      <4>2. InWait(conditions, completed, h, j, v.mutex)
        BY DEF InWait
      <4> QED BY <1>3, <2>2, <4>1, <4>2 DEF OnlyWait
    <3>2. conditions'[j] = conditions[j]
      BY <1>9, <2>2
    <3> QED BY <3>1, <3>2
  <2> QED BY <2>1, <2>2
<1>13. QueuesOK(conditions', completed')
  <2>1. ASSUME NEW j \in Conditions
        PROVE  /\ QueueOK(conditions'[j].waiters)
               /\ Elements(conditions'[j].waiters) \subseteq Elements(conditions[j].waiters)
               /\ \A w \in Elements(conditions'[j].waiters) :
                    completed'[w.thread] = NoCompletion
               /\ ~conditions'[j].live => conditions'[j] = NoCondition
    <3>1. QueueOK(conditions'[j].waiters)
      BY <1>2, <1>4, <1>8, <1>9, QueuesAreOK DEF Settled
    <3>2. Elements(conditions'[j].waiters) \subseteq Elements(conditions[j].waiters)
      BY <1>12
    <3>3. ASSUME NEW w \in Elements(conditions'[j].waiters)
          PROVE  completed'[w.thread] = NoCompletion
      <4>1. w \in Elements(conditions[j].waiters) /\ w.thread # h
        BY <1>12
      <4>2. w.thread \in Handles /\ completed[w.thread] = NoCompletion
        BY <1>2, <4>1, ConditionFields, ElementFacts DEF QueuesOK
      <4> QED BY <1>7, <4>1, <4>2
    <3>4. ~conditions'[j].live => conditions'[j] = NoCondition
      BY <1>2, <1>3, <1>8, <1>9 DEF QueuesOK
    <3> QED BY <3>1, <3>2, <3>3, <3>4
  <2>2. Shrinks(conditions, conditions', completed')
    BY <2>1 DEF Shrinks
  <2> QED BY <1>2, <2>2, QueuesShrink
<1>14. \A g \in Handles : g # h => SameEntries(conditions, completed, conditions', completed', g)
  <2> SUFFICES ASSUME NEW g \in Handles, g # h
               PROVE  SameEntries(conditions, completed, conditions', completed', g)
    OBVIOUS
  <2>1. \A j \in Conditions : EntriesOf(conditions', j, g) = EntriesOf(conditions, j, g)
    BY <1>12 DEF EntriesOf
  <2> QED BY <1>7, <2>1 DEF SameEntries
\* The counts.
<1>15. CountsOK(mutexes', conditions', completed')
  <2>1. \A g \in Handles : g # h => SameWaits(conditions, completed, conditions', completed', g)
    BY <1>14, EntriesWaits
  <2>2. \A j \in Conditions, n \in Mutexes : InWait(conditions', completed', h, j, n) <=>
          completed'[h].condition = j /\ completed'[h].mutex = n
    BY <1>12 DEF InWait
  <2>3. CASE done
    <3>1. NoWait(conditions', completed', h)
      BY <1>7, <2>2, <2>3, HandleFacts DEF NoWait, NoCompletion
    <3>2. CountsMove(mutexes, conditions, mutexes', conditions', c, m, -1)
      <4>1. /\ conditions[c].active_waiter_count \in Int /\ x.condition_waiter_count \in Int
            /\ \A a \in Int : less(a) = a + (-1)
        <5>1. conditions[c].active_waiter_count \in 0 .. MaxHandle
          BY <1>2, ConditionFields
        <5>2. x.condition_waiter_count \in 0 .. MaxHandle
          BY <1>2, MutexFields
        <5> QED BY <2>3, <5>1, <5>2
      <4>2. /\ k.active_waiter_count = conditions[c].active_waiter_count + (-1)
            /\ y.condition_waiter_count = x.condition_waiter_count + (-1)
        BY <1>8, <1>10, <4>1
      <4> QED BY <1>9, <1>11, <4>2 DEF CountsMove
    <3> QED BY <1>2, <1>3, <2>1, <3>1, <3>2, CountsLeave
  <2>4. CASE ~done
    <3>1. SameWaits(conditions, completed, conditions', completed', h)
      BY <1>3, <1>7, <2>2, <2>4 DEF SameWaits, OnlyWait
    <3>2. SameCounts(mutexes, conditions, mutexes', conditions')
      <4>1. /\ k.active_waiter_count = conditions[c].active_waiter_count
            /\ y.condition_waiter_count = x.condition_waiter_count
        BY <1>8, <1>10, <2>4
      <4> QED BY <1>9, <1>11, <4>1 DEF SameCounts
    <3>3. \A g \in Handles : SameWaits(conditions, completed, conditions', completed', g)
      BY <2>1, <3>1
    <3> QED BY ONLY <1>2, <3>2, <3>3, CountsStay
  <2> QED BY <2>3, <2>4
<1>16. k.active_waiter_count \in 0 .. MaxHandle /\ y.condition_waiter_count \in 0 .. MaxHandle
  <2>1. conditions'[c] = k /\ mutexes'[m] = y
    BY <1>9, <1>11
  <2>2. k.active_waiter_count = Cardinality(WaitersOn(conditions', completed', c))
    BY <1>15, <2>1 DEF CountsOK
  <2>3. y.condition_waiter_count = Cardinality(WaitersWith(conditions', completed', m))
    BY <1>15, <2>1 DEF CountsOK
  <2> QED BY <2>2, <2>3, CountFacts
<1>17. WaitTypes(conditions', completed')
  <2>1. k \in ConditionRecords
    <3>1. r \in ConditionRecords
      BY <1>4 DEF Settled
    <3> QED BY <1>8, <1>16, <3>1 DEF ConditionRecords
  <2>2. conditions' \in [Conditions -> ConditionRecords]
    BY <1>2, <1>9, <2>1 DEF WaitTypes
  <2> QED BY <1>7, <2>2 DEF WaitTypes
\* The mutexes and the threads.
<1>18. MutexOK(m, y, sched', call')
  <2>1. MutexOK(m, y0, sched', call') /\ y0.type # "none"
    BY <1>3, <1>6 DEF Relocked
  <2> QED BY <1>10, <1>16, <2>1, CountChanged
<1>19. /\ SchedulerOK(sched', WaitKeys) /\ Alive(sched', h)
       /\ OthersSteady(sched, call, sched', call', h)
       /\ sched'.wait_key[h] \in {NoKey, MutexWaitKey(m, h)}
  BY <1>6 DEF Relocked
<1>20. \A g \in Handles : g # h => Drifts(sched, sched', g, now)
  BY <1>19 DEF OthersSteady, Drifts
<1>21. sched.wait_key[h] = NoKey
  BY <1>1, CallerFacts
<1>22. ASSUME NEW n \in Mutexes, n # m PROVE MutexOK(n, mutexes[n], sched', call')
  <2>1. MutexOK(n, mutexes[n], sched, call)
    BY InvFacts
  <2>2. ~Asks(call, n, h) /\ ~Asks(call', n, h)
    BY <1>1, <1>5, <1>22, AskFacts
  <2>3. sched'.wait_key[h] # MutexWaitKey(n, h)
    BY <1>19, <1>22, KeyFacts
  <2>4. Stays(n, mutexes[n], sched, call, sched', call', h)
    BY <1>19, <1>21, <2>1, <2>2, <2>3, CallerElsewhere
  <2> QED BY <1>5, <1>20, <2>1, <2>4, BystanderKeeps DEF Passes
<1>23. /\ \A n \in Mutexes : MutexOK(n, mutexes'[n], sched', call')
       /\ mutexes' \in [Mutexes -> MutexRecords]
  <2>1. y \in MutexRecords
    BY <1>18 DEF MutexOK
  <2> QED BY <1>1, <1>2, <1>11, <1>18, <1>22, <2>1
<1>24. ASSUME NEW g \in Handles
       PROVE  WaitOK(g, sched', conditions', completed', call', now')
  <2>1. CASE g = h /\ done
    <3>1. call'[h] = NoCall /\ completed'[h] = NoCompletion
      BY <1>6, <1>7, <2>1 DEF Relocked, status
    <3>2. ~Queued(conditions', h)
      BY <1>12 DEF Queued
    <3>3. \A j \in Conditions, n \in Mutexes : call'[h] # WaitCall(j, n)
      BY <3>1, CallFacts
    <3> QED BY <2>1, <3>1, <3>2, <3>3 DEF WaitOK
  <2>2. CASE g = h /\ ~done
    <3>1. call'[h] = WaitCall(c, m) /\ sched'.wait_key[h] = MutexWaitKey(m, h)
      BY <1>6, <2>2 DEF Relocked, status
    <3>2. \A j \in Conditions, n \in Mutexes : call'[h] = WaitCall(j, n) => j = c /\ n = m
      BY <3>1, CallFacts
    <3> QED BY <1>7, <2>2, <3>1, <3>2 DEF WaitOK
  <2>3. CASE g # h
    <3>1. WaitOK(g, sched', conditions', completed', call', now)
      BY <1>2, <1>5, <1>14, <1>17, <1>20, <2>3, WaitStays
    <3> QED BY <1>1, <3>1
  <2> QED BY <2>1, <2>2, <2>3
<1>25. now' \in 0 .. MaxTime
  BY <1>1, <1>2
<1> QED BY <1>5, <1>13, <1>15, <1>17, <1>19, <1>23, <1>24, <1>25, Assemble

-----------------------------------------------------------------------------
(* Signalling.                                                              *)

\* Thread g is among the first n waiters of condition c.
Taken(c, n, g) == \E i \in 1 .. n : conditions[c].waiters[i].thread = g

\* A signal takes a first part of the queue.
LEMMA TakenFacts ==
  ASSUME NEW q \in Seq(Waiters), NEW broadcast \in BOOLEAN
  PROVE  LET n == TakenCount(q, broadcast)
             live == {i \in DOMAIN q : ~WaiterExpired(q[i])}
         IN  /\ n \in 0 .. Len(q)
             /\ live # {} => \E i \in live : i <= n /\ \A j \in live : i <= j
<1> DEFINE n == TakenCount(q, broadcast)
           live == {i \in DOMAIN q : ~WaiterExpired(q[i])}
<1>1. DOMAIN q = 1 .. Len(q) /\ Len(q) \in Nat /\ live \subseteq DOMAIN q
  OBVIOUS
<1>2. n = IF broadcast \/ live = {} THEN Len(q)
          ELSE CHOOSE i \in live : \A j \in live : i <= j
  BY DEF TakenCount
<1> HIDE DEF n, live
<1>3. live # {} => \E i \in live : \A j \in live : i <= j
  <2>1. live \in SUBSET Nat
    BY <1>1
  <2> QED BY <2>1, LeastElement
<1>4. CASE broadcast \/ live = {}
  <2>1. n = Len(q)
    BY <1>2, <1>4
  <2> QED BY <1>1, <1>3, <2>1 DEF n, live
<1>5. CASE ~(broadcast \/ live = {})
  <2>1. n \in live /\ \A j \in live : n <= j
    BY <1>2, <1>3, <1>5
  <2>2. n \in 0 .. Len(q) /\ n <= n
    BY <1>1, <2>1
  <2> QED BY <2>1, <2>2 DEF n, live
<1> QED BY <1>4, <1>5

\* The waits a signal completes.
LEMMA CompletionFacts ==
  ASSUME IInv, NEW c \in Conditions, NEW n \in 0 .. Len(conditions[c].waiters)
  PROVE  /\ \A i \in 1 .. n :
              /\ conditions[c].waiters[i] \in Waiters
              /\ Completions(c, n)[conditions[c].waiters[i].thread] =
                   [condition |-> c, mutex |-> conditions[c].waiters[i].mutex,
                    timed_out |-> WaiterExpired(conditions[c].waiters[i])]
         /\ \A g \in Handles : ~Taken(c, n, g) => Completions(c, n)[g] = completed[g]
         /\ Completions(c, n) \in [Handles -> CompletedWaits \cup {NoCompletion}]
<1> DEFINE q == conditions[c].waiters
           f == Completions(c, n)
           e(w) == [condition |-> c, mutex |-> w.mutex, timed_out |-> WaiterExpired(w)]
<1>1. /\ WaitTypes(conditions, completed) /\ QueuesOK(conditions, completed)
      /\ completed \in [Handles -> CompletedWaits \cup {NoCompletion}]
  BY InvFacts DEF WaitTypes
<1>2. QueueOK(q) /\ q \in Seq(Waiters)
  BY <1>1, QueuesAreOK, ConditionFields
<1>3. \A i \in 1 .. n : i \in DOMAIN q /\ q[i] \in Waiters
  <2>1. DOMAIN q = 1 .. Len(q) /\ Len(q) \in Nat
    BY <1>2
  <2>2. \A i \in 1 .. n : i \in 1 .. Len(q)
    BY <2>1
  <2> QED BY <1>2, <2>1, <2>2
<1>4. \A w \in Waiters : e(w) \in CompletedWaits /\ w.thread \in Handles
  <2> SUFFICES ASSUME NEW w \in Waiters PROVE e(w) \in CompletedWaits /\ w.thread \in Handles
    OBVIOUS
  <2>1. w.mutex \in Mutexes /\ w.thread \in Handles
    BY DEF Waiters
  <2>2. WaiterExpired(w) \in BOOLEAN
    BY DEF WaiterExpired
  <2> QED BY <2>1, <2>2 DEF CompletedWaits
<1>5. f = [g \in Handles |->
             IF \E i \in 1 .. n : q[i].thread = g
             THEN e(q[CHOOSE i \in 1 .. n : q[i].thread = g]) ELSE completed[g]]
  BY DEF Completions
<1> HIDE DEF f, e
<1>6. ASSUME NEW i \in 1 .. n PROVE f[q[i].thread] = e(q[i])
  <2> DEFINE g == q[i].thread
             j == CHOOSE j \in 1 .. n : q[j].thread = g
  <2>1. g \in Handles
    BY <1>3, <1>4
  <2>2. j \in 1 .. n /\ q[j].thread = g
    <3> HIDE DEF g
    <3>1. \E a \in 1 .. n : q[a].thread = g
      BY DEF g
    <3> QED BY <3>1
  <2>3. f[g] = e(q[j])
    BY <1>5, <2>1
  <2> HIDE DEF j
  <2>4. j = i
    BY <1>2, <1>3, <2>2 DEF QueueOK
  <2> QED BY <2>3, <2>4
<1>7. ASSUME NEW g \in Handles, ~Taken(c, n, g) PROVE f[g] = completed[g]
  BY <1>5, <1>7 DEF Taken
<1>8. ASSUME NEW g \in Handles PROVE f[g] \in CompletedWaits \cup {NoCompletion}
  <2>1. CASE Taken(c, n, g)
    <3>1. PICK i \in 1 .. n : q[i].thread = g
      BY <2>1 DEF Taken
    <3>2. f[g] = e(q[i])
      BY <1>6, <3>1
    <3>3. e(q[i]) \in CompletedWaits
      BY <1>3, <1>4
    <3> QED BY <3>2, <3>3
  <2>2. CASE ~Taken(c, n, g)
    BY <1>1, <1>7, <2>2
  <2> QED BY <2>1, <2>2
<1>9. f \in [Handles -> CompletedWaits \cup {NoCompletion}]
  BY <1>5, <1>8
<1>10. \A i \in 1 .. n : f[q[i].thread] = [condition |-> c, mutex |-> q[i].mutex,
                                           timed_out |-> WaiterExpired(q[i])]
  BY <1>6 DEF e
<1> QED BY <1>3, <1>7, <1>9, <1>10 DEF f

\* The keys a signal wakes, and whom they wake.
LEMMA ConditionKeysFacts ==
  ASSUME IInv, NEW c \in Conditions, NEW n \in 0 .. Len(conditions[c].waiters)
  PROVE  /\ KeyList(ConditionKeys(c, n))
         /\ \A g \in Handles : g \in SleepersOf(sched, ConditionKeys(c, n)) <=>
              Taken(c, n, g) /\ sched.wait_key[g] = ConditionWaitKey(c, g)
<1> DEFINE q == conditions[c].waiters
           keys == ConditionKeys(c, n)
<1>1. WaitTypes(conditions, completed) /\ QueuesOK(conditions, completed)
  BY InvFacts
<1>2. QueueOK(q) /\ q \in Seq(Waiters)
  BY <1>1, QueuesAreOK, ConditionFields
<1>3. n \in Nat /\ \A i \in 1 .. n : i \in DOMAIN q /\ q[i].thread \in Handles
  <2>1. DOMAIN q = 1 .. Len(q) /\ Len(q) \in Nat /\ n \in Nat
    BY <1>2
  <2>2. \A i \in 1 .. n : i \in 1 .. Len(q)
    BY <2>1
  <2>3. \A i \in 1 .. n : q[i] \in Waiters
    BY <1>2, <2>1, <2>2
  <2> QED BY <2>1, <2>2, <2>3 DEF Waiters
<1>4. keys = [i \in 1 .. n |-> ConditionWaitKey(c, q[i].thread)]
  BY DEF ConditionKeys
<1>5. \A i \in 1 .. n : ConditionWaitKey(c, q[i].thread) \in WaitKeys
                        /\ KeyThread(ConditionWaitKey(c, q[i].thread)) = q[i].thread
  BY <1>3, KeyTypes, KeyFacts
<1> HIDE DEF keys
<1>6. /\ keys \in Seq(WaitKeys) /\ DOMAIN keys = 1 .. n
      /\ \A i \in 1 .. n : keys[i] = ConditionWaitKey(c, q[i].thread)
  BY <1>3, <1>4, <1>5
<1>7. KeyList(keys)
  <2>1. \A i, j \in DOMAIN keys : keys[i] = keys[j] => i = j
    <3> SUFFICES ASSUME NEW i \in 1 .. n, NEW j \in 1 .. n, keys[i] = keys[j] PROVE i = j
      BY <1>6
    <3>1. q[i].thread = q[j].thread
      BY <1>6, KeyFacts
    <3> QED BY <1>2, <1>3, <3>1 DEF QueueOK
  <2> QED BY <1>3, <1>5, <1>6, <2>1 DEF KeyList
<1>8. ASSUME NEW g \in Handles
      PROVE  g \in SleepersOf(sched, keys) <=>
               Taken(c, n, g) /\ sched.wait_key[g] = ConditionWaitKey(c, g)
  <2>1. g \in SleepersOf(sched, keys) <=>
          \E i \in 1 .. n : q[i].thread = g /\ sched.wait_key[g] = keys[i]
    BY <1>5, <1>6 DEF SleepersOf
  <2> QED BY <1>6, <2>1 DEF Taken
<1> QED BY <1>7, <1>8 DEF keys

\* A thread the signal takes had an entry, and has its wait completed now.
LEMMA TakenWait ==
  ASSUME IInv, NEW c \in Conditions, NEW n \in 0 .. Len(conditions[c].waiters),
         NEW g \in Handles, Taken(c, n, g)
  PROVE  /\ completed[g] = NoCompletion
         /\ \E w \in Elements(conditions[c].waiters) :
              /\ w.thread = g /\ w.mutex \in Mutexes
              /\ Completions(c, n)[g].condition = c /\ Completions(c, n)[g].mutex = w.mutex
<1> DEFINE q == conditions[c].waiters
<1>1. PICK i \in 1 .. n : q[i].thread = g
  BY DEF Taken
<1>2. QueuesOK(conditions, completed) /\ q \in Seq(Waiters)
  BY InvFacts, ConditionFields
<1>3. i \in DOMAIN q
  <2>1. DOMAIN q = 1 .. Len(q) /\ Len(q) \in Nat
    BY <1>2
  <2> QED BY <2>1
<1>4. q[i] \in Elements(q) /\ q[i].mutex \in Mutexes
  <2>1. q[i] \in Elements(q)
    BY <1>3 DEF Elements
  <2> QED BY <1>2, <2>1, ElementFacts
<1>5. completed[g] = NoCompletion
  BY <1>1, <1>2, <1>4 DEF QueuesOK
<1>6. Completions(c, n)[q[i].thread] =
        [condition |-> c, mutex |-> q[i].mutex, timed_out |-> WaiterExpired(q[i])]
  BY CompletionFacts
<1>7. Completions(c, n)[g].condition = c /\ Completions(c, n)[g].mutex = q[i].mutex
  BY <1>1, <1>6
<1> QED BY <1>1, <1>4, <1>5, <1>7

\* The conditions and the completed waits after a signal: nobody enters or
\* leaves a wait.
Signalled(c, n, ds, end) ==
  /\ WaitTypes(ds, end) /\ QueuesOK(ds, end)
  /\ SameCounts(mutexes, conditions, mutexes, ds)
  /\ \A g \in Handles : SameWaits(conditions, completed, ds, end, g)
  /\ \A g \in Handles : ~Taken(c, n, g) => SameEntries(conditions, completed, ds, end, g)
  /\ \A g \in Handles : Taken(c, n, g) => ~Queued(ds, g)

LEMMA SignalCompletes ==
  ASSUME IInv, NEW c \in Conditions, NEW n \in 0 .. Len(conditions[c].waiters),
         NEW ds, NEW r, r = SubSeq(conditions[c].waiters, n + 1, Len(conditions[c].waiters)),
         ds = [conditions EXCEPT ![c].waiters = r], conditions[c].live
  PROVE  Signalled(c, n, ds, Completions(c, n))
<1> DEFINE q == conditions[c].waiters
           end == Completions(c, n)
           k == [conditions[c] EXCEPT !.waiters = r]
<1>1. /\ WaitTypes(conditions, completed) /\ QueuesOK(conditions, completed)
      /\ conditions \in [Conditions -> ConditionRecords]
  BY InvFacts DEF WaitTypes
<1>2. QueueOK(q) /\ q \in Seq(Waiters) /\ conditions[c] \in ConditionRecords
  BY <1>1, QueuesAreOK, ConditionFields
<1>3. /\ QueueOK(r) /\ Elements(r) \subseteq Elements(q)
      /\ \A w \in Elements(q) : w \in Elements(r) <=> ~Taken(c, n, w.thread)
  BY <1>2, QueueTake DEF Taken
<1>4. r \in Seq(Waiters)
  BY <1>3 DEF QueueOK
<1>5. \A j \in Conditions : ds[j] = IF j = c THEN k ELSE conditions[j]
  BY <1>1
<1>6. /\ k \in ConditionRecords /\ k.waiters = r /\ k.live = conditions[c].live
      /\ k.active_waiter_count = conditions[c].active_waiter_count
  BY <1>2, <1>4 DEF ConditionRecords
<1>7. ds \in [Conditions -> ConditionRecords]
  BY <1>1, <1>6
<1> HIDE DEF k, end
<1>8. end \in [Handles -> CompletedWaits \cup {NoCompletion}]
      /\ \A g \in Handles : ~Taken(c, n, g) => end[g] = completed[g]
  BY CompletionFacts DEF end
<1>9. WaitTypes(ds, end)
  BY <1>7, <1>8 DEF WaitTypes
<1>10. SameCounts(mutexes, conditions, mutexes, ds)
  BY <1>5, <1>6 DEF SameCounts
<1>11. \A j \in Conditions : Elements(ds[j].waiters) =
         {w \in Elements(conditions[j].waiters) : ~Taken(c, n, w.thread)}
  <2> SUFFICES ASSUME NEW j \in Conditions
               PROVE  Elements(ds[j].waiters) =
                        {w \in Elements(conditions[j].waiters) : ~Taken(c, n, w.thread)}
    OBVIOUS
  <2>1. CASE j = c
    BY <1>3, <1>5, <1>6, <2>1
  <2>2. CASE j # c
    <3>1. \A w \in Elements(conditions[j].waiters) : ~Taken(c, n, w.thread)
      <4> SUFFICES ASSUME NEW w \in Elements(conditions[j].waiters), Taken(c, n, w.thread)
                   PROVE  FALSE
        OBVIOUS
      <4>1. PICK g \in Handles : g = w.thread
        BY <1>1, ConditionFields, ElementFacts
      <4>2. Taken(c, n, g)
        BY <4>1
      <4>3. PICK v \in Elements(q) : v.thread = g
        BY <4>2, TakenWait
      <4> QED BY <1>1, <2>2, <4>1, <4>3 DEF QueuesOK
    <3> QED BY <1>5, <2>2, <3>1
  <2> QED BY <2>1, <2>2
<1>12. \A g \in Handles : Taken(c, n, g) => ~Queued(ds, g)
  BY <1>11 DEF Queued
<1>13. ASSUME NEW g \in Handles, ~Taken(c, n, g)
       PROVE  SameEntries(conditions, completed, ds, end, g)
  BY <1>8, <1>11, <1>13 DEF SameEntries, EntriesOf
<1>14. QueuesOK(ds, end)
  <2>1. ASSUME NEW j \in Conditions
        PROVE  /\ QueueOK(ds[j].waiters)
               /\ Elements(ds[j].waiters) \subseteq Elements(conditions[j].waiters)
               /\ \A w \in Elements(ds[j].waiters) : end[w.thread] = NoCompletion
               /\ ~ds[j].live => ds[j] = NoCondition
    <3>1. QueueOK(ds[j].waiters)
      BY <1>1, <1>3, <1>5, <1>6, QueuesAreOK
    <3>2. \A w \in Elements(ds[j].waiters) : end[w.thread] = NoCompletion
      <4> SUFFICES ASSUME NEW w \in Elements(ds[j].waiters)
                   PROVE  end[w.thread] = NoCompletion
        OBVIOUS
      <4>1. w \in Elements(conditions[j].waiters) /\ ~Taken(c, n, w.thread)
        BY <1>11
      <4>2. w.thread \in Handles /\ completed[w.thread] = NoCompletion
        BY <1>1, <4>1, ConditionFields, ElementFacts DEF QueuesOK
      <4> QED BY <1>8, <4>1, <4>2
    <3>3. ~ds[j].live => ds[j] = NoCondition
      BY <1>1, <1>5, <1>6 DEF QueuesOK
    <3> QED BY <1>11, <3>1, <3>2, <3>3
  <2>2. Shrinks(conditions, ds, end)
    BY <2>1 DEF Shrinks
  <2> QED BY <1>1, <2>2, QueuesShrink
<1>15. ASSUME NEW g \in Handles PROVE SameWaits(conditions, completed, ds, end, g)
  <2>1. CASE ~Taken(c, n, g)
    BY <1>13, <2>1, EntriesWaits
  <2>2. CASE Taken(c, n, g)
    <3>1. PICK w \in Elements(q) : /\ w.thread = g /\ w.mutex \in Mutexes
                                   /\ end[g].condition = c /\ end[g].mutex = w.mutex
      BY <2>2, TakenWait DEF end
    <3>2. InWait(conditions, completed, g, c, w.mutex) /\ InWait(ds, end, g, c, w.mutex)
      BY <3>1 DEF InWait
    <3>3. OnlyWait(conditions, completed, g, c, w.mutex) /\ OnlyWait(ds, end, g, c, w.mutex)
      BY <1>1, <1>9, <1>14, <3>1, <3>2, OneWait
    <3> QED BY <3>3 DEF SameWaits, OnlyWait
  <2> QED BY <2>1, <2>2
<1> QED BY <1>9, <1>10, <1>12, <1>13, <1>14, <1>15 DEF Signalled, end

\* What the threads notice of the signal, and the waits of the ones it takes.
LEMMA TakenWaitOK ==
  ASSUME IInv, NEW c \in Conditions, NEW n \in 0 .. Len(conditions[c].waiters),
         NEW g \in Handles, Taken(c, n, g), NEW t, NEW ds, NEW later,
         Signalled(c, n, ds, Completions(c, n)),
         IF sched.wait_key[g] = ConditionWaitKey(c, g) THEN Roused(t, g)
         ELSE Drifts(sched, t, g, later)
  PROVE  WaitOK(g, t, ds, Completions(c, n), call, later)
<1> DEFINE q == conditions[c].waiters
           end == Completions(c, n)
<1>1. PICK w \in Elements(q) : /\ w.thread = g /\ w.mutex \in Mutexes
                               /\ end[g].condition = c /\ end[g].mutex = w.mutex
  BY TakenWait
<1>2. completed[g] = NoCompletion
  BY TakenWait
<1> HIDE DEF end
<1>3. /\ WaitTypes(conditions, completed) /\ QueuesOK(conditions, completed)
      /\ SchedulerOK(sched, WaitKeys)
      /\ WaitOK(g, sched, conditions, completed, call, now)
  BY InvFacts
<1>4. InWait(conditions, completed, g, c, w.mutex)
  BY <1>1 DEF InWait
<1>5. ASSUME NEW k \in Conditions, NEW m \in Mutexes, call[g] = WaitCall(k, m)
      PROVE  k = c /\ m = w.mutex /\ t.wait_key[g] = NoKey
  <2>1. completed[g].condition # k
    BY <1>2, <1>3, ConditionFields
  <2>2. PICK v \in Elements(conditions[k].waiters) :
          v.thread = g /\ v.mutex = m /\ Pending(sched, g, k, v, now)
    BY <1>3, <1>5, <2>1 DEF WaitOK
  <2>3. k = c
    BY <1>1, <1>3, <2>2 DEF QueuesOK
  <2>4. v = w
    BY <1>1, <1>3, <2>2, <2>3, QueuesAreOK, OneEntry
  <2>5. CASE sched.wait_key[g] = ConditionWaitKey(c, g)
    BY <2>2, <2>3, <2>4, <2>5 DEF Roused
  <2>6. CASE sched.wait_key[g] # ConditionWaitKey(c, g)
    <3>1. Awake(sched, g)
      BY <2>2, <2>3, <2>6 DEF Pending
    <3>2. sched.wait_key[g] = NoKey
      BY <1>3, <3>1 DEF Awake, SchedulerOK, WaitsOK
    <3>3. Drifts(sched, t, g, later)
      BY <2>6
    <3> QED BY <2>2, <2>3, <2>4, <3>2, <3>3 DEF Drifts, Steady, Roused
  <2> QED BY <2>5, <2>6
<1>6. \E k \in Conditions, m \in Mutexes : call[g] = WaitCall(k, m) \/ ~Alive(t, g)
  <2>1. Queued(conditions, g)
    BY <1>1 DEF Queued
  <2>2. CASE \E k \in Conditions, m \in Mutexes : call[g] = WaitCall(k, m)
    BY <2>2
  <2>3. CASE \A k \in Conditions, m \in Mutexes : call[g] # WaitCall(k, m)
    <3>1. ~Alive(sched, g)
      BY <1>3, <2>1, <2>3 DEF WaitOK
    <3>2. sched.wait_key[g] = NoKey
      BY <1>3, <3>1 DEF Alive, SchedulerOK, WaitsOK
    <3>3. sched.wait_key[g] # ConditionWaitKey(c, g)
      BY <3>2, KeyFacts
    <3>4. Drifts(sched, t, g, later)
      BY <3>3
    <3>5. g \notin Expired(sched, later) /\ \A f : sched.wait_key[g] # ThreadExitWaitKey(f)
      BY <1>3, <3>1, <3>2, ThreadExitKeyFacts DEF Expired, Alive
    <3>6. ~Alive(t, g)
      BY <3>1, <3>4, <3>5 DEF Drifts, Steady
    <3> QED BY <1>1, <3>6
  <2> QED BY <2>2, <2>3
<1>7. WaitOK(g, t, ds, end, call, later)
  BY <1>1, <1>5, <1>6 DEF WaitOK
<1> QED BY <1>7 DEF end

LEMMA SignalStep ==
  ASSUME IInv, NEW h \in Handles, NEW c \in Conditions, NEW broadcast \in BOOLEAN,
         NEW later \in 0 .. MaxTime, now <= later, SignalCondition(h, c, broadcast, later)
  PROVE  IInv'
<1> DEFINE q == conditions[c].waiters
           n == TakenCount(q, broadcast)
           r == SubSeq(q, n + 1, Len(q))
           keys == ConditionKeys(c, n)
<1>1. /\ conditions' = [conditions EXCEPT ![c].waiters = r]
      /\ conditions[c].live /\ completed' = Completions(c, n)
      /\ sched' = WakeInTurn(sched, keys, later) /\ now' = later
      /\ UNCHANGED <<call, mutexes>>
  BY DEF SignalCondition
<1>2. SchedulerOK(sched, WaitKeys) /\ later \in Nat
  BY InvFacts, MaxTimeAssumption
<1>3. q \in Seq(Waiters)
  BY InvFacts, ConditionFields
<1>4. n \in 0 .. Len(q)
  BY <1>3, TakenFacts
<1> HIDE DEF n
<1>5. Signalled(c, n, conditions', completed')
  BY <1>1, <1>4, SignalCompletes
<1>6. /\ KeyList(keys)
      /\ \A g \in Handles : g \in SleepersOf(sched, keys) <=>
           Taken(c, n, g) /\ sched.wait_key[g] = ConditionWaitKey(c, g)
  BY <1>4, ConditionKeysFacts
<1> HIDE DEF keys
<1>7. /\ SchedulerOK(sched', WaitKeys)
      /\ \A g \in Handles : IF g \in SleepersOf(sched, keys) THEN Roused(sched', g)
                            ELSE Drifts(sched, sched', g, later)
  BY <1>1, <1>2, <1>6, WakeDrifts
<1>8. \A g \in Handles :
        IF Taken(c, n, g) /\ sched.wait_key[g] = ConditionWaitKey(c, g)
        THEN Roused(sched', g) ELSE Drifts(sched, sched', g, later)
  BY <1>6, <1>7
<1>9. ASSUME NEW m \in Mutexes PROVE MutexOK(m, mutexes'[m], sched', call')
  <2>1. MutexOK(m, mutexes[m], sched, call)
    BY InvFacts
  <2>2. \A g : ConditionWaitKey(c, g) # MutexWaitKey(m, g)
    BY DEF MutexWaitKey, ConditionWaitKey
  <2>3. \A g \in Handles : Passes(m, sched, sched', g, later)
    BY <1>8, <2>2 DEF Passes
  <2>4. NoThread \notin Handles
    BY HandleFacts
  <2>5. MutexOK(m, mutexes[m], sched', call')
    BY <1>1, <2>1, <2>3, <2>4, BystanderKeeps
  <2> QED BY <1>1, <2>5
<1>10. ASSUME NEW g \in Handles
       PROVE  WaitOK(g, sched', conditions', completed', call', now')
  <2>1. CASE Taken(c, n, g)
    <3>1. IF sched.wait_key[g] = ConditionWaitKey(c, g) THEN Roused(sched', g)
          ELSE Drifts(sched, sched', g, later)
      BY <1>8, <2>1
    <3>2. WaitOK(g, sched', conditions', completed', call, later)
      BY <1>1, <1>4, <1>5, <2>1, <3>1, TakenWaitOK
    <3> QED BY <1>1, <3>2
  <2>2. CASE ~Taken(c, n, g)
    <3>1. Drifts(sched, sched', g, later)
      BY <1>8, <2>2
    <3>2. SameEntries(conditions, completed, conditions', completed', g)
          /\ WaitTypes(conditions', completed')
      BY <1>5, <2>2 DEF Signalled
    <3>3. WaitOK(g, sched', conditions', completed', call, later)
      BY <1>2, <3>1, <3>2, WaitStays
    <3> QED BY <1>1, <3>3
  <2> QED BY <2>1, <2>2
<1>11. CountsOK(mutexes', conditions', completed')
  <2>1. CountsOK(mutexes, conditions, completed)
    BY InvFacts
  <2>2. SameCounts(mutexes, conditions, mutexes', conditions')
        /\ \A g \in Handles : SameWaits(conditions, completed, conditions', completed', g)
    BY <1>1, <1>5 DEF Signalled
  <2> QED BY ONLY <2>1, <2>2, CountsStay
<1>12. /\ WaitTypes(conditions', completed') /\ QueuesOK(conditions', completed')
       /\ now' \in 0 .. MaxTime /\ call' \in [Handles -> Calls]
       /\ mutexes' \in [Mutexes -> MutexRecords]
  BY <1>1, <1>5, InvFacts DEF Signalled
<1> QED BY <1>7, <1>9, <1>10, <1>11, <1>12, Assemble

-----------------------------------------------------------------------------
(* Exit.                                                                    *)

\* The keys an exiting thread wakes are those of the heirs of its mutexes.
Inherits(h, g) == \E m \in Owned(h) : g \in Heirs(mutexes[m])

LEMMA ExitKeysFacts ==
  ASSUME IInv, NEW h \in Handles
  PROVE  /\ KeyList(ExitKeys(h))
         /\ \A g \in Handles : g \in SleepersOf(sched, ExitKeys(h)) <=> Inherits(h, g)
         /\ \A m \in Owned(h) : \A g \in Heirs(mutexes[m]) :
              g \in Handles /\ sched.wait_key[g] = MutexWaitKey(m, g)
<1> DEFINE H == {m \in Owned(h) : mutexes[m].waiters # <<>>}
           q == InOrder(H)
           heir(m) == mutexes[m].waiters[1]
           keys == ExitKeys(h)
<1>1. ASSUME NEW m \in H
      PROVE  /\ m \in Mutexes /\ Heirs(mutexes[m]) = {heir(m)}
             /\ Release(mutexes[m], h).owner = heir(m)
             /\ heir(m) \in Handles /\ sched.wait_key[heir(m)] = MutexWaitKey(m, heir(m))
  <2> DEFINE x == mutexes[m]
  <2>1. m \in Mutexes /\ x.owner = h /\ x.waiters # <<>>
    BY DEF Owned
  <2>2. MutexOK(m, x, sched, call)
    BY <2>1, InvFacts
  <2>3. /\ x \in MutexRecords /\ x.waiters \in Seq(Handles)
        /\ Lists(x.waiters, Sleepers(m, sched)) /\ x.granted_waiters \subseteq {h}
    BY <2>1, <2>2, MutexFields DEF MutexOK
  <2>4. Len(x.waiters) # 0 /\ Head(x.waiters) = x.waiters[1]
    BY <2>1, <2>3
  <2>5. heir(m) \in Sleepers(m, sched)
    BY <2>3, <2>4, ListsRest
  <2>6. Release(x, h).owner = heir(m)
    BY <2>1, <2>3, ReleaseFacts
  <2> QED BY <2>1, <2>4, <2>5, <2>6 DEF Sleepers, Heirs
<1>2. \A m \in Owned(h) : m \notin H => Heirs(mutexes[m]) = {}
  BY DEF Heirs
<1>3. Lists(q, H)
  <2>1. MaxMutex \in Nat /\ H \in SUBSET (1 .. MaxMutex)
    BY PthreadAssumption DEF Owned, Mutexes
  <2> QED BY <2>1, InOrderLists
<1>4. keys = [i \in DOMAIN q |-> MutexWaitKey(q[i], Release(mutexes[q[i]], h).owner)]
  BY DEF ExitKeys
<1> HIDE DEF q, keys, H, heir
<1>5. /\ q \in Seq(H) /\ DOMAIN q = 1 .. Len(q) /\ Len(q) \in Nat
      /\ \A i \in DOMAIN q : q[i] \in H
  <2>1. q \in Seq(H)
    BY <1>3 DEF Lists
  <2> QED BY <2>1
<1>6. \A i \in DOMAIN q : keys[i] = MutexWaitKey(q[i], heir(q[i]))
  BY <1>1, <1>4, <1>5
<1>7. \A i \in DOMAIN q : MutexWaitKey(q[i], heir(q[i])) \in WaitKeys
                          /\ KeyThread(MutexWaitKey(q[i], heir(q[i]))) = heir(q[i])
  BY <1>1, <1>5, KeyTypes, KeyFacts
<1>8. keys \in Seq(WaitKeys) /\ DOMAIN keys = DOMAIN q
  BY <1>4, <1>5, <1>6, <1>7
<1>9. KeyList(keys)
  <2>1. \A i, j \in DOMAIN keys : keys[i] = keys[j] => i = j
    <3> SUFFICES ASSUME NEW i \in DOMAIN q, NEW j \in DOMAIN q, keys[i] = keys[j] PROVE i = j
      BY <1>8
    <3>1. q[i] = q[j]
      BY <1>6, KeyFacts
    <3> QED BY <1>3, <3>1 DEF Lists
  <2>2. \A i \in DOMAIN keys : KeyThread(keys[i]) \in Handles
    BY <1>1, <1>5, <1>6, <1>7, <1>8
  <2> QED BY <1>8, <2>1, <2>2 DEF KeyList
<1>10. ASSUME NEW g \in Handles
       PROVE  g \in SleepersOf(sched, keys) <=> Inherits(h, g)
  <2>1. ASSUME g \in SleepersOf(sched, keys) PROVE Inherits(h, g)
    <3>1. PICK i \in DOMAIN keys : KeyThread(keys[i]) = g
      BY <2>1 DEF SleepersOf
    <3>2. q[i] \in H /\ heir(q[i]) = g
      BY <1>5, <1>6, <1>7, <1>8, <3>1
    <3>3. g \in Heirs(mutexes[q[i]]) /\ q[i] \in Owned(h)
      BY <1>1, <3>2 DEF H
    <3> QED BY <3>3 DEF Inherits
  <2>2. ASSUME Inherits(h, g) PROVE g \in SleepersOf(sched, keys)
    <3>1. PICK m \in H : g = heir(m)
      BY <1>1, <1>2, <2>2 DEF Inherits
    <3>2. PICK i \in DOMAIN q : q[i] = m
      BY <1>3 DEF Lists
    <3>3. i \in DOMAIN keys /\ KeyThread(keys[i]) = g /\ sched.wait_key[g] = keys[i]
      BY <1>1, <1>6, <1>7, <1>8, <3>1, <3>2
    <3> QED BY <3>3 DEF SleepersOf
  <2> QED BY <2>1, <2>2
<1>11. \A m \in Owned(h) : \A g \in Heirs(mutexes[m]) :
         g \in Handles /\ sched.wait_key[g] = MutexWaitKey(m, g)
  BY <1>1, <1>2
<1> QED BY <1>9, <1>10, <1>11 DEF keys

\* What the threads notice of the exit of h.
Leaves(t, h) ==
  /\ SchedulerOK(t, WaitKeys) /\ t.state[h] = "exited" /\ t.wait_key[h] = NoKey
  /\ \A g \in Handles : g # h =>
       IF Inherits(h, g) THEN Roused(t, g) ELSE Drifts(sched, t, g, now)

LEMMA ExitWakes ==
  ASSUME IInv, NEW h \in Handles, sched.current = h, sched.state[h] = "running"
  PROVE  Leaves(ExitCurrent(WakeInTurn(sched, ExitKeys(h), now)), h)
<1> DEFINE keys == ExitKeys(h)
           w == WakeInTurn(sched, keys, now)
           t == ExitCurrent(w)
<1>1. /\ KeyList(keys)
      /\ \A g \in Handles : g \in SleepersOf(sched, keys) <=> Inherits(h, g)
  BY ExitKeysFacts
<1>2. SchedulerOK(sched, WaitKeys)
  BY InvFacts
<1> HIDE DEF keys
<1>3. /\ SchedulerOK(w, WaitKeys) /\ w.current = h
      /\ \A g \in Handles : IF g \in SleepersOf(sched, keys) THEN Roused(w, g)
                            ELSE Drifts(sched, w, g, now)
      /\ \A g \in Handles : sched.state[g] # "blocked" => w.state[g] = sched.state[g]
  BY <1>1, <1>2, WakeDrifts
<1> HIDE DEF w
<1>4. CanLeave(w)
  BY <1>3, HandleFacts DEF CanLeave
<1>5. /\ SchedulerOK(t, WaitKeys) /\ t.state[h] = "exited" /\ t.wait_key[h] = NoKey
      /\ \A g \in Handles : g # h =>
           \/ Steady(w, t, g)
           \/ Roused(t, g) /\ w.wait_key[g] = ThreadExitWaitKey(h)
  BY <1>3, <1>4, ExitDrifts
<1> HIDE DEF t
<1>6. ASSUME NEW g \in Handles, g # h
      PROVE  IF Inherits(h, g) THEN Roused(t, g) ELSE Drifts(sched, t, g, now)
  <2>1. CASE Inherits(h, g)
    <3>1. Roused(w, g)
      BY <1>1, <1>3, <2>1
    <3>2. Roused(t, g)
      BY <1>5, <1>6, <3>1 DEF Roused, Steady
    <3> QED BY <2>1, <3>2
  <2>2. CASE ~Inherits(h, g)
    <3>1. Drifts(sched, w, g, now)
      BY <1>1, <1>3, <2>2
    <3>2. Drifts(sched, t, g, now)
      BY <1>5, <1>6, <3>1, DriftsOn
    <3> QED BY <2>2, <3>2
  <2> QED BY <2>1, <2>2
<1>7. Leaves(t, h)
  BY <1>5, <1>6 DEF Leaves
<1> QED BY <1>7 DEF t, w, keys

\* The counts of the wait that an exiting thread drops.
LEMMA DroppedFacts ==
  ASSUME IInv, NEW h \in Handles, NEW m \in Mutexes
  PROVE  /\ MutexOK(m, Dropped(h, m), sched, call)
         /\ Dropped(h, m).owner = mutexes[m].owner
         /\ Dropped(h, m).waiters = mutexes[m].waiters
         /\ Dropped(h, m).condition_waiter_count =
              IF completed[h].mutex = m THEN mutexes[m].condition_waiter_count - 1
              ELSE mutexes[m].condition_waiter_count
<1> DEFINE x == mutexes[m]
           n == x.condition_waiter_count
<1>1. /\ WaitTypes(conditions, completed) /\ QueuesOK(conditions, completed)
      /\ CountsOK(mutexes, conditions, completed) /\ MutexOK(m, x, sched, call)
      /\ \A k \in Mutexes : mutexes[k].type = "none" => mutexes[k] = NoMutex
  BY InvFacts
<1>2. x \in MutexRecords /\ n \in 0 .. MaxHandle /\ MaxHandle \in Nat
  BY <1>1, MutexFields, MaxHandleAssumption DEF MutexOK
<1>3. CASE completed[h].mutex # m
  <2>1. Dropped(h, m) = x
    BY <1>3 DEF Dropped
  <2> QED BY <1>1, <1>3, <2>1
<1>4. CASE completed[h].mutex = m
  <2> DEFINE c == completed[h].condition
  <2>1. c \in Conditions
    BY <1>1, <1>4, ConditionFields
  <2>2. InWait(conditions, completed, h, c, m)
    BY <1>4 DEF InWait
  <2> HIDE DEF c
  <2>3. x.type # "none" /\ n # 0
    BY <1>1, <2>1, <2>2, WaitKeepsAlive
  <2>4. n - 1 \in 0 .. MaxHandle /\ n > 0
    BY <1>2, <2>3
  <2>5. Dropped(h, m) = [x EXCEPT !.condition_waiter_count = n - 1]
    BY <1>4, <2>3, <2>4 DEF Dropped, MutexLive
  <2> DEFINE y == [x EXCEPT !.condition_waiter_count = n - 1]
  <2>6. MutexOK(m, y, sched, call)
    BY <1>1, <2>3, <2>4, CountChanged
  <2>7. y.owner = x.owner /\ y.waiters = x.waiters /\ y.condition_waiter_count = n - 1
    BY <1>2 DEF MutexRecords
  <2> HIDE DEF y
  <2> QED BY <1>4, <2>5, <2>6, <2>7 DEF y
<1> QED BY <1>3, <1>4

\* Condition c after h dropped its completed wait.
ConditionAfterExit(h, c) ==
  IF completed[h].condition = c /\ conditions[c].live
  THEN [conditions[c] EXCEPT !.active_waiter_count = IF @ > 0 THEN @ - 1 ELSE @]
  ELSE conditions[c]

LEMMA DroppedConditions ==
  ASSUME IInv, NEW h \in Handles, NEW c \in Conditions
  PROVE  /\ ConditionAfterExit(h, c) \in ConditionRecords
         /\ ConditionAfterExit(h, c).waiters = conditions[c].waiters
         /\ ConditionAfterExit(h, c).live = conditions[c].live
         /\ ConditionAfterExit(h, c).active_waiter_count =
              IF completed[h].condition = c THEN conditions[c].active_waiter_count - 1
              ELSE conditions[c].active_waiter_count
<1> DEFINE x == conditions[c]
           n == x.active_waiter_count
           k == ConditionAfterExit(h, c)
<1>1. /\ WaitTypes(conditions, completed) /\ QueuesOK(conditions, completed)
      /\ CountsOK(mutexes, conditions, completed)
      /\ \A m \in Mutexes : mutexes[m].type = "none" => mutexes[m] = NoMutex
  BY InvFacts
<1>2. x \in ConditionRecords /\ n \in 0 .. MaxHandle /\ MaxHandle \in Nat
  BY <1>1, ConditionFields, MaxHandleAssumption
<1>3. CASE completed[h].condition # c
  BY <1>2, <1>3 DEF ConditionAfterExit
<1>4. CASE completed[h].condition = c
  <2> DEFINE m == completed[h].mutex
  <2>1. m \in Mutexes
    BY <1>1, <1>4, ConditionFields
  <2>2. InWait(conditions, completed, h, c, m)
    BY <1>4 DEF InWait
  <2> HIDE DEF m
  <2>3. x.live /\ n # 0
    BY <1>1, <2>1, <2>2, WaitKeepsAlive
  <2>4. n - 1 \in 0 .. MaxHandle /\ n > 0
    BY <1>2, <2>3
  <2>5. k = [x EXCEPT !.active_waiter_count = n - 1]
    BY <1>4, <2>3, <2>4 DEF ConditionAfterExit
  <2> HIDE DEF k
  <2>6. /\ k \in ConditionRecords /\ k.waiters = x.waiters /\ k.live = x.live
        /\ k.active_waiter_count = n - 1
    BY ONLY <1>2, <2>4, <2>5 DEF ConditionRecords
  <2> QED BY <1>4, <2>6 DEF k
<1> QED BY <1>3, <1>4

\* Mutex m after the exit of h.
MutexAfterExit(h, m) ==
  IF m \in Owned(h) THEN Release(Dropped(h, m), h) ELSE Dropped(h, m)

LEMMA ExitMutex ==
  ASSUME IInv, NEW h \in Handles, sched.current = h, sched.state[h] = "running",
         NEW t, Leaves(t, h), NEW d, \A g \in Handles : g # h => d[g] = call[g],
         NEW m \in Mutexes
  PROVE  /\ MutexOK(m, MutexAfterExit(h, m), t, d) /\ MutexAfterExit(h, m) \in MutexRecords
         /\ MutexAfterExit(h, m).condition_waiter_count = Dropped(h, m).condition_waiter_count
<1> DEFINE x == Dropped(h, m)
           y == MutexAfterExit(h, m)
<1>1. /\ MutexOK(m, x, sched, call) /\ x.owner = mutexes[m].owner
      /\ x.waiters = mutexes[m].waiters
  BY DroppedFacts
<1> HIDE DEF x, y
<1>2. sched.wait_key[h] = NoKey /\ t.wait_key[h] = NoKey
  BY CallerFacts DEF Leaves
<1>3. \A k : sched.wait_key[h] # MutexWaitKey(k, h) /\ t.wait_key[h] # MutexWaitKey(k, h)
  BY <1>2, KeyFacts
<1>4. ASSUME NEW g \in Handles, g # h, m \notin Owned(h) \/ g \notin Heirs(mutexes[m])
      PROVE  Passes(m, sched, t, g, now)
  <2>1. CASE Inherits(h, g)
    <3>1. PICK n \in Owned(h) : g \in Heirs(mutexes[n])
      BY <2>1 DEF Inherits
    <3>2. n # m /\ sched.wait_key[g] = MutexWaitKey(n, g)
      BY <1>4, <3>1, ExitKeysFacts
    <3>3. sched.wait_key[g] # MutexWaitKey(m, g)
      BY <3>2, KeyFacts
    <3>4. Roused(t, g)
      BY <1>4, <2>1 DEF Leaves
    <3> QED BY <3>3, <3>4 DEF Passes
  <2>2. CASE ~Inherits(h, g)
    BY <1>4, <2>2 DEF Leaves, Passes
  <2> QED BY <2>1, <2>2
<1>5. CASE m \in Owned(h)
  <2>1. x.owner = h /\ Heirs(x) = Heirs(mutexes[m])
    BY <1>1, <1>5 DEF Owned, Heirs
  <2>2. \A g \in Heirs(x) : g \in Handles /\ g # h => Roused(t, g)
    BY <1>5, <2>1 DEF Leaves, Inherits
  <2>3. HandsOn(m, x, sched, call, t, d, h, now)
    BY <1>4, <2>1, <2>2 DEF HandsOn
  <2>4. y = Release(x, h)
    BY <1>5 DEF x, y, MutexAfterExit
  <2>5. MutexOK(m, y, t, d)
    BY <1>1, <1>2, <1>3, <2>1, <2>3, <2>4, ReleaseKeeps
  <2>6. x \in MutexRecords /\ x.granted_waiters \subseteq {h}
    BY <1>1, <2>1 DEF MutexOK
  <2>7. y.condition_waiter_count = x.condition_waiter_count
    BY <2>4, <2>6, ReleaseFacts
  <2>8. y \in MutexRecords
    BY <2>5 DEF MutexOK
  <2> QED BY <2>5, <2>7, <2>8 DEF x, y
<1>6. CASE m \notin Owned(h)
  <2>1. x.owner # h /\ y = x
    BY <1>1, <1>6 DEF Owned, x, y, MutexAfterExit
  <2>2. h \notin x.granted_waiters
    BY <1>1, <2>1 DEF MutexOK
  <2>3. Stays(m, x, sched, call, t, d, h)
    BY <1>3, <2>1, <2>2 DEF Stays
  <2>4. \A g \in Handles : g # h => d[g] = call[g] /\ Passes(m, sched, t, g, now)
    BY <1>4, <1>6
  <2>5. MutexOK(m, x, t, d)
    BY <1>1, <2>3, <2>4, BystanderKeeps
  <2>6. x \in MutexRecords
    BY <1>1 DEF MutexOK
  <2> QED BY <2>1, <2>5, <2>6 DEF x, y
<1> QED BY <1>5, <1>6

LEMMA ExitStep ==
  ASSUME IInv, NEW h \in Handles, Exit(h)
  PROVE  IInv'
<1>1. /\ sched.current = h /\ sched.state[h] = "running"
      /\ conditions' = [c \in Conditions |-> ConditionAfterExit(h, c)]
      /\ mutexes' = [m \in Mutexes |-> MutexAfterExit(h, m)]
      /\ completed' = [completed EXCEPT ![h] = NoCompletion]
      /\ sched' = ExitCurrent(WakeInTurn(sched, ExitKeys(h), now))
      /\ call' = [call EXCEPT ![h] = NoCall] /\ now' = now
  BY DEF Exit, ConditionAfterExit, MutexAfterExit
<1>2. /\ WaitTypes(conditions, completed) /\ QueuesOK(conditions, completed)
      /\ CountsOK(mutexes, conditions, completed) /\ now \in 0 .. MaxTime /\ now \in Nat
      /\ call \in [Handles -> Calls]
  BY InvFacts
<1>3. Leaves(sched', h)
  BY <1>1, ExitWakes
<1>4. /\ call'[h] = NoCall /\ \A g \in Handles : g # h => call'[g] = call[g]
      /\ call' \in [Handles -> Calls]
  <2>1. NoCall \in Calls
    BY DEF Calls
  <2> QED BY <1>1, <1>2, <2>1
<1>5. /\ completed'[h] = NoCompletion
      /\ \A g \in Handles : g # h => completed'[g] = completed[g]
      /\ completed' \in [Handles -> CompletedWaits \cup {NoCompletion}]
  BY <1>1, <1>2 DEF WaitTypes
<1>6. \A c \in Conditions :
        /\ conditions'[c] \in ConditionRecords
        /\ conditions'[c].waiters = conditions[c].waiters
        /\ conditions'[c].live = conditions[c].live
        /\ conditions'[c].active_waiter_count =
             IF completed[h].condition = c THEN conditions[c].active_waiter_count - 1
             ELSE conditions[c].active_waiter_count
  <2> SUFFICES ASSUME NEW c \in Conditions
               PROVE  /\ conditions'[c] \in ConditionRecords
                      /\ conditions'[c].waiters = conditions[c].waiters
                      /\ conditions'[c].live = conditions[c].live
                      /\ conditions'[c].active_waiter_count =
                           IF completed[h].condition = c
                           THEN conditions[c].active_waiter_count - 1
                           ELSE conditions[c].active_waiter_count
    OBVIOUS
  <2>1. conditions'[c] = ConditionAfterExit(h, c)
    BY <1>1
  <2> QED BY ONLY IInv, h \in Handles, c \in Conditions, <2>1, DroppedConditions
<1>7. \A m \in Mutexes :
        /\ MutexOK(m, mutexes'[m], sched', call') /\ mutexes'[m] \in MutexRecords
        /\ mutexes'[m].condition_waiter_count =
             IF completed[h].mutex = m THEN mutexes[m].condition_waiter_count - 1
             ELSE mutexes[m].condition_waiter_count
  <2> SUFFICES ASSUME NEW m \in Mutexes
               PROVE  /\ MutexOK(m, mutexes'[m], sched', call')
                      /\ mutexes'[m] \in MutexRecords
                      /\ mutexes'[m].condition_waiter_count =
                           IF completed[h].mutex = m
                           THEN mutexes[m].condition_waiter_count - 1
                           ELSE mutexes[m].condition_waiter_count
    OBVIOUS
  <2>1. mutexes'[m] = MutexAfterExit(h, m)
    BY <1>1
  <2>2. /\ MutexOK(m, mutexes'[m], sched', call') /\ mutexes'[m] \in MutexRecords
        /\ mutexes'[m].condition_waiter_count = Dropped(h, m).condition_waiter_count
    BY ONLY IInv, h \in Handles, m \in Mutexes, <1>1, <1>3, <1>4, <2>1, ExitMutex
  <2>3. Dropped(h, m).condition_waiter_count =
          IF completed[h].mutex = m THEN mutexes[m].condition_waiter_count - 1
          ELSE mutexes[m].condition_waiter_count
    BY DroppedFacts
  <2> QED BY <2>2, <2>3
<1>8. mutexes' \in [Mutexes -> MutexRecords]
  <2>1. mutexes' = [m \in Mutexes |-> mutexes'[m]]
    BY <1>1
  <2> QED BY <1>7, <2>1
<1>9. conditions' \in [Conditions -> ConditionRecords]
  <2>1. conditions' = [c \in Conditions |-> conditions'[c]]
    BY <1>1
  <2> QED BY <1>6, <2>1
<1>10. WaitTypes(conditions', completed')
  BY <1>5, <1>9 DEF WaitTypes
<1>11. \A g \in Handles : g # h => SameEntries(conditions, completed, conditions', completed', g)
  BY <1>5, <1>6 DEF SameEntries, EntriesOf
<1>12. \A c \in Conditions : \A w \in Elements(conditions'[c].waiters) :
         w \in Elements(conditions[c].waiters) /\ w.thread \in Handles
         /\ completed[w.thread] = NoCompletion
  <2> SUFFICES ASSUME NEW c \in Conditions, NEW w \in Elements(conditions'[c].waiters)
               PROVE  w \in Elements(conditions[c].waiters) /\ w.thread \in Handles
                      /\ completed[w.thread] = NoCompletion
    OBVIOUS
  <2>1. w \in Elements(conditions[c].waiters)
    BY <1>6
  <2> QED BY <1>2, <2>1, ConditionFields, ElementFacts DEF QueuesOK
<1>13. QueuesOK(conditions', completed')
  <2>1. ASSUME NEW c \in Conditions
        PROVE  /\ QueueOK(conditions'[c].waiters)
               /\ Elements(conditions'[c].waiters) \subseteq Elements(conditions[c].waiters)
               /\ \A w \in Elements(conditions'[c].waiters) :
                    completed'[w.thread] = NoCompletion
               /\ ~conditions'[c].live => conditions'[c] = NoCondition
    <3>1. QueueOK(conditions'[c].waiters)
      BY <1>2, <1>6, QueuesAreOK
    <3>2. ~conditions'[c].live => conditions'[c] = NoCondition
      <4> SUFFICES ASSUME ~conditions'[c].live PROVE conditions'[c] = NoCondition
        OBVIOUS
      <4>1. ~conditions[c].live
        BY <1>6
      <4>2. conditions'[c] = conditions[c]
        BY <1>1, <4>1 DEF ConditionAfterExit
      <4> QED BY <1>2, <4>1, <4>2 DEF QueuesOK
    <3> QED BY <1>5, <1>12, <3>1, <3>2
  <2>2. Shrinks(conditions, conditions', completed')
    BY <2>1 DEF Shrinks
  <2> QED BY <1>2, <2>2, QueuesShrink
<1>14. CountsOK(mutexes', conditions', completed')
  <2>1. \A g \in Handles : g # h => SameWaits(conditions, completed, conditions', completed', g)
    BY <1>11, EntriesWaits
  <2>2. NoCompletion.condition \notin Conditions /\ NoCompletion.mutex \notin Mutexes
    BY <1>2, ConditionFields
  <2>3. CASE completed[h] = NoCompletion
    <3>1. SameCounts(mutexes, conditions, mutexes', conditions')
      BY <1>6, <1>7, <2>2, <2>3 DEF SameCounts
    <3>2. SameEntries(conditions, completed, conditions', completed', h)
      BY <1>5, <1>6, <2>3 DEF SameEntries, EntriesOf
    <3>3. \A g \in Handles : SameWaits(conditions, completed, conditions', completed', g)
      BY <2>1, <3>2, EntriesWaits
    <3> QED BY ONLY <1>2, <3>1, <3>3, CountsStay
  <2>4. CASE completed[h] # NoCompletion
    <3>1. PICK c \in Conditions, m \in Mutexes :
            completed[h].condition = c /\ completed[h].mutex = m
      BY <1>2, <2>4, ConditionFields
    <3>2. InWait(conditions, completed, h, c, m)
      BY <3>1 DEF InWait
    <3>3. OnlyWait(conditions, completed, h, c, m)
      BY <1>2, <3>2, OneWait
    <3>4. NoWait(conditions', completed', h)
      <4>1. \A j \in Conditions : \A w \in Elements(conditions'[j].waiters) : w.thread # h
        BY <1>12, <2>4
      <4> QED BY <1>5, <2>2, <4>1 DEF NoWait, InWait
    <3>5. CountsMove(mutexes, conditions, mutexes', conditions', c, m, -1)
      <4>1. \A j \in Conditions : conditions[j].active_waiter_count \in Int
        BY <1>2, ConditionFields
      <4>2. \A j \in Mutexes : mutexes[j].condition_waiter_count \in Int
        BY InvFacts, MutexFields
      <4> QED BY <1>6, <1>7, <3>1, <4>1, <4>2 DEF CountsMove
    <3> QED BY ONLY h \in Handles, c \in Conditions, m \in Mutexes,
                    <1>2, <2>1, <3>3, <3>4, <3>5, CountsLeave
  <2> QED BY <2>3, <2>4
<1>15. ASSUME NEW g \in Handles
       PROVE  WaitOK(g, sched', conditions', completed', call', now')
  <2>1. CASE g = h
    <3>1. ~Alive(sched', h)
      BY <1>3 DEF Leaves, Alive
    <3>2. \A j \in Conditions, n \in Mutexes : call'[h] # WaitCall(j, n)
      BY <1>4, CallFacts
    <3> QED BY <2>1, <3>1, <3>2 DEF WaitOK
  <2>2. CASE g # h
    <3>1. \/ Drifts(sched, sched', g, now)
          \/ Roused(sched', g) /\ \E n \in Mutexes : sched.wait_key[g] = MutexWaitKey(n, g)
      <4>1. CASE Inherits(h, g)
        <5>1. PICK n \in Owned(h) : g \in Heirs(mutexes[n])
          BY <4>1 DEF Inherits
        <5>2. n \in Mutexes /\ sched.wait_key[g] = MutexWaitKey(n, g)
          BY <5>1, ExitKeysFacts DEF Owned
        <5> QED BY <1>3, <2>2, <4>1, <5>2 DEF Leaves
      <4>2. CASE ~Inherits(h, g)
        BY <1>3, <2>2, <4>2 DEF Leaves
      <4> QED BY <4>1, <4>2
    <3>2. WaitOK(g, sched', conditions', completed', call', now)
      BY <1>2, <1>4, <1>10, <1>11, <2>2, <3>1, WaitStays
    <3> QED BY <1>1, <3>2
  <2> QED BY <2>1, <2>2
<1>16. SchedulerOK(sched', WaitKeys) /\ now' \in 0 .. MaxTime
  BY <1>1, <1>2, <1>3 DEF Leaves
<1> QED BY <1>4, <1>7, <1>8, <1>10, <1>13, <1>14, <1>15, <1>16, Assemble

-----------------------------------------------------------------------------
(* The invariant is inductive.                                              *)

LEMMA HostStep ==
  ASSUME IInv,
         \/ Dispatch /\ Objects
         \/ Tick /\ Objects
         \/ \E h \in Handles : Relinquish(h) /\ Objects
         \/ UNCHANGED vars
  PROVE  IInv'
<1>1. SchedulerOK(sched, WaitKeys) /\ now \in 0 .. MaxTime /\ MaxTime \in Nat
  BY InvFacts, MaxTimeAssumption
<1>2. \A h \in Handles : sched' = sched => Steady(sched, sched', h)
  BY DEF Steady
<1>3. UNCHANGED <<call, mutexes, conditions, completed>>
  BY DEF Dispatch, Tick, Relinquish, Objects, vars
<1>4. CASE Dispatch
  <2>1. sched' = SelectNext(sched, now) /\ now' = now
    BY <1>4 DEF Dispatch
  <2>2. SchedulerOK(sched', WaitKeys) /\ \A h \in Handles : Drifts(sched, sched', h, now')
    BY <1>1, <2>1, SelectDrifts
  <2>3. now' \in 0 .. MaxTime /\ now <= now'
    BY <1>1, <2>1
  <2> QED BY <1>3, <2>2, <2>3, DriftStep
<1>5. CASE Tick
  <2>1. sched' = sched /\ now' = now + 1 /\ now < MaxTime
    BY <1>5 DEF Tick
  <2>2. SchedulerOK(sched', WaitKeys) /\ \A h \in Handles : Drifts(sched, sched', h, now')
    BY <1>1, <1>2, <2>1 DEF Drifts
  <2>3. now' \in 0 .. MaxTime /\ now <= now'
    BY <1>1, <2>1
  <2> QED BY <1>3, <2>2, <2>3, DriftStep
<1>6. CASE \E h \in Handles : Relinquish(h)
  <2>1. sched' = YieldCurrent(sched) /\ now' = now
    BY <1>6 DEF Relinquish
  <2>2. SchedulerOK(sched', WaitKeys) /\ \A h \in Handles : Drifts(sched, sched', h, now')
    BY <1>1, <2>1, YieldCurrentOK, YieldSteady DEF Drifts
  <2>3. now' \in 0 .. MaxTime /\ now <= now'
    BY <1>1, <2>1
  <2> QED BY <1>3, <2>2, <2>3, DriftStep
<1>7. CASE UNCHANGED vars
  <2>1. sched' = sched /\ now' = now
    BY <1>7 DEF vars
  <2>2. SchedulerOK(sched', WaitKeys) /\ \A h \in Handles : Drifts(sched, sched', h, now')
    BY <1>1, <1>2, <2>1 DEF Drifts
  <2>3. now' \in 0 .. MaxTime /\ now <= now'
    BY <1>1, <2>1
  <2> QED BY <1>3, <2>2, <2>3, DriftStep
<1> QED BY <1>4, <1>5, <1>6, <1>7

LEMMA MutexLifeStep ==
  ASSUME IInv, NEW h \in Handles, NEW m \in Mutexes,
         DestroyMutex(h, m) \/ \E type \in MutexTypes : CreateMutex(h, m, type)
  PROVE  IInv'
<1>1. mutexes[m].type = "none" => mutexes[m] = NoMutex
  BY InvFacts
<1>2. ASSUME NEW type \in MutexTypes, CreateMutex(h, m, type) PROVE IInv'
  <2>1. mutexes[m].waiters = <<>> /\ mutexes[m].condition_waiter_count = 0
    BY <1>1, <1>2 DEF CreateMutex, MutexLive, NoMutex
  <2>2. /\ mutexes' = [mutexes EXCEPT ![m] = NewMutex(type)]
        /\ UNCHANGED <<sched, now, call, conditions, completed>>
    BY <1>2 DEF CreateMutex
  <2>3. type \in MutexTypes \cup {"none"}
    OBVIOUS
  <2> QED BY <2>1, <2>2, <2>3, FreshStep
<1>3. CASE DestroyMutex(h, m)
  <2> DEFINE none == "none"
  <2>1. mutexes[m].waiters = <<>> /\ mutexes[m].condition_waiter_count = 0
    BY <1>3 DEF DestroyMutex
  <2>2. NoMutex = NewMutex(none)
    <3>1. NoMutex = [NoMutex EXCEPT !.type = none]
      BY DEF NoMutex
    <3> QED BY <3>1 DEF NewMutex
  <2>3. /\ mutexes' = [mutexes EXCEPT ![m] = NewMutex(none)]
        /\ UNCHANGED <<sched, now, call, conditions, completed>>
    BY <1>3, <2>2 DEF DestroyMutex
  <2>4. none \in MutexTypes \cup {"none"}
    OBVIOUS
  <2> HIDE DEF none
  <2> QED BY <2>1, <2>3, <2>4, FreshStep
<1> QED BY <1>2, <1>3

LEMMA ConditionLifeStep ==
  ASSUME IInv, NEW h \in Handles, NEW c \in Conditions,
         CreateCondition(h, c) \/ DestroyCondition(h, c)
  PROVE  IInv'
<1> DEFINE x == conditions[c]
           T == TRUE
<1>1. /\ conditions \in [Conditions -> ConditionRecords] /\ x \in ConditionRecords
      /\ QueuesOK(conditions, completed)
  BY InvFacts DEF WaitTypes
<1>2. CASE CreateCondition(h, c)
  <2> DEFINE k == [x EXCEPT !.live = T]
  <2>1. /\ conditions' = [conditions EXCEPT ![c] = k]
        /\ UNCHANGED <<sched, now, call, mutexes, completed>>
    BY <1>1, <1>2 DEF CreateCondition
  <2>2. T \in BOOLEAN /\ T
    OBVIOUS
  <2> HIDE DEF T
  <2>3. /\ k \in ConditionRecords /\ k.waiters = x.waiters /\ k.live = T
        /\ k.active_waiter_count = x.active_waiter_count
    BY <1>1, <2>2 DEF ConditionRecords
  <2> HIDE DEF k
  <2>4. ~k.live => k = NoCondition
    BY <2>2, <2>3
  <2> QED BY <2>1, <2>3, <2>4, ConditionStep
<1>3. CASE DestroyCondition(h, c)
  <2>1. /\ conditions' = [conditions EXCEPT ![c] = NoCondition]
        /\ x.waiters = <<>> /\ x.active_waiter_count = 0
        /\ UNCHANGED <<sched, now, call, mutexes, completed>>
    BY <1>3 DEF DestroyCondition
  <2>2. 0 \in 0 .. MaxHandle
    BY MaxHandleAssumption
  <2>3. /\ NoCondition \in ConditionRecords /\ NoCondition.waiters = <<>>
        /\ NoCondition.active_waiter_count = 0
    BY <2>2 DEF NoCondition, ConditionRecords
  <2> QED BY <2>1, <2>3, ConditionStep
<1> QED BY <1>2, <1>3

LEMMA NextIInv == IInv /\ [Next]_vars => IInv'
<1> SUFFICES ASSUME IInv, [Next]_vars PROVE IInv'
  OBVIOUS
<1>1. now \in 0 .. MaxTime /\ MaxTime \in Nat
  BY InvFacts, MaxTimeAssumption
<1>2. Deadlines \subseteq Nat \cup {NoDeadline}
  BY <1>1, PthreadAssumption DEF Deadlines, DeadlineAfter
<1>3. ASSUME NEW h \in Handles, Operation(h) PROVE IInv'
  <2>1. CASE Relinquish(h) /\ Objects
    BY <2>1, HostStep
  <2>2. ASSUME NEW m \in Mutexes, NEW type \in MutexTypes, CreateMutex(h, m, type) PROVE IInv'
    BY <2>2, MutexLifeStep
  <2>3. ASSUME NEW m \in Mutexes, DestroyMutex(h, m) PROVE IInv'
    BY <2>3, MutexLifeStep
  <2>4. ASSUME NEW m \in Mutexes, NEW try_only \in BOOLEAN, LockMutex(h, m, try_only)
        PROVE  IInv'
    BY <2>4, LockStep
  <2>5. ASSUME NEW m \in Mutexes, UnlockMutex(h, m) PROVE IInv'
    BY <2>5, UnlockStep
  <2>6. ASSUME NEW c \in Conditions, CreateCondition(h, c) PROVE IInv'
    BY <2>6, ConditionLifeStep
  <2>7. ASSUME NEW c \in Conditions, DestroyCondition(h, c) PROVE IInv'
    BY <2>7, ConditionLifeStep
  <2>8. ASSUME NEW c \in Conditions, NEW m \in Mutexes, NEW d \in Deadlines,
               StartWait(h, c, m, d)
        PROVE  IInv'
    BY <1>2, <2>8, StartWaitStep
  <2>9. ASSUME NEW c \in Conditions, NEW m \in Mutexes, FinishWait(h, c, m) PROVE IInv'
    BY <2>9, FinishWaitStep
  <2>10. ASSUME NEW c \in Conditions, NEW broadcast \in BOOLEAN, NEW later \in LaterTimes,
                SignalCondition(h, c, broadcast, later)
         PROVE  IInv'
    <3>1. later \in 0 .. MaxTime /\ now <= later
      BY <1>1 DEF LaterTimes
    <3> QED BY <2>10, <3>1, SignalStep
  <2>11. CASE Exit(h)
    BY <2>11, ExitStep
  <2> QED BY <1>3, <2>1, <2>2, <2>3, <2>4, <2>5, <2>6, <2>7, <2>8, <2>9, <2>10, <2>11
          DEF Operation
<1> QED BY <1>3, HostStep DEF Next

\* The inductive invariant holds in every state.
THEOREM Invariance == Spec => []IInv
<1>1. Init => IInv
  BY InitIInv
<1>2. IInv /\ [Next]_vars => IInv'
  BY NextIInv
<1> QED BY <1>1, <1>2, PTL DEF Spec

\* Scheduler, calls, mutexes, conditions and completed waits keep their types;
\* the waiter counts never pass the number of threads.
THEOREM TypeCorrect == Spec => []TypeOK
<1>1. IInv => TypeOK
  BY DEF IInv
<1> QED BY <1>1, Invariance, PTL

\* A mutex is handed over whole: UnlockMutex, the condition waits and ExitCurrent
\* never leave it free beside waiters, with an owner that is gone, or granted to a
\* thread that will not take it.
THEOREM HandedOver == Spec => []MutexHandedOver
<1>1. IInv => MutexHandedOver
  <2> SUFFICES ASSUME IInv, NEW m \in Mutexes
               PROVE  LET x == mutexes[m]
                      IN  /\ x.owner = NoThread <=> x.recursion_count = 0
                          /\ x.waiters # <<>> => x.owner # NoThread
                          /\ x.owner # NoThread =>
                               sched.state[x.owner] \in {"ready", "running", "blocked"}
                          /\ x.granted_waiters \subseteq {x.owner}
                          /\ \A h \in x.granted_waiters :
                               /\ sched.state[h] \in {"ready", "running"}
                               /\ call[h] \in {LockCall(m)}
                                              \cup {WaitCall(c, m) : c \in Conditions}
    BY DEF MutexHandedOver
  <2>1. MutexOK(m, mutexes[m], sched, call)
    BY DEF IInv
  <2> QED BY <2>1 DEF MutexOK, Asks, Awake, Alive
<1> QED BY <1>1, Invariance, PTL

\* The queue of a mutex lists exactly the threads that sleep on it, each once.
THEOREM QueueServes == Spec => []WaitersAreBlocked
<1>1. IInv => WaitersAreBlocked
  <2> SUFFICES ASSUME IInv, NEW m \in Mutexes
               PROVE  LET q == mutexes[m].waiters
                      IN  /\ \A i, j \in DOMAIN q : q[i] = q[j] => i = j
                          /\ Elements(q) =
                               {h \in Handles : sched.wait_key[h] = MutexWaitKey(m, h)}
    BY DEF WaitersAreBlocked
  <2> DEFINE q == mutexes[m].waiters
             S == Sleepers(m, sched)
  <2>1. Lists(q, S)
    BY DEF IInv, MutexOK
  <2> HIDE DEF q, S
  <2>2. Elements(q) = S /\ \A i, j \in DOMAIN q : q[i] = q[j] => i = j
    <3>1. \A i \in DOMAIN q : q[i] \in S
      BY <2>1 DEF Lists
    <3> QED BY <2>1, <3>1 DEF Lists, Elements
  <2> QED BY <2>2 DEF q, S, Sleepers
<1> QED BY <1>1, Invariance, PTL

\* Whoever is awake in a condition wait finds its reason when it repeats the call.
THEOREM WakeupsAreExplained == Spec => []WakeupHasReason
<1>1. IInv => WakeupHasReason
  <2> SUFFICES ASSUME IInv, NEW h \in Handles, NEW c \in Conditions, NEW m \in Mutexes,
                      call[h] = WaitCall(c, m), sched.state[h] \in {"ready", "running"}
               PROVE  \/ completed[h].condition = c /\ completed[h].mutex = m
                      \/ /\ sched.timed_out[h] = ConditionWaitKey(c, h)
                         /\ \E w \in Elements(conditions[c].waiters) :
                              w.thread = h /\ w.mutex = m /\ w.deadline <= now
    BY DEF WakeupHasReason
  <2>1. /\ WaitOK(h, sched, conditions, completed, call, now)
        /\ SchedulerOK(sched, WaitKeys)
    BY InvFacts
  <2>2. sched.wait_key[h] = NoKey
    BY <2>1 DEF SchedulerOK, WaitsOK
  <2>3. sched.wait_key[h] # ConditionWaitKey(c, h)
    BY <2>2, KeyFacts
  <2> QED BY <2>1, <2>3 DEF WaitOK, Pending
<1> QED BY <1>1, Invariance, PTL

-----------------------------------------------------------------------------
(* The counts, as the sizes of the queues.                                  *)

\* A set has as many elements as one it lists without repetition.
LEMMA SameSize ==
  ASSUME NEW S, NEW T, IsFiniteSet(T), NEW f \in [S -> T],
         \A a, b \in S : f[a] = f[b] => a = b, \A x \in T : \E a \in S : f[a] = x
  PROVE  IsFiniteSet(S) /\ Cardinality(S) = Cardinality(T)
<1>1. f \in Bijection(S, T)
  BY Fun_IsBij
<1>2. ExistsBijection(S, T)
  BY <1>1, Fun_ExistsBij
<1>3. ExistsBijection(T, S)
  BY <1>2, Fun_ExistsBijSymmetric
<1> QED BY <1>3, FS_Bijection

\* The sizes of disjoint sets of threads add up.
LEMMA DisjointSizes ==
  ASSUME NEW S \in SUBSET Handles, NEW T \in SUBSET Handles, S \cap T = {}
  PROVE  /\ IsFiniteSet(S) /\ Cardinality(S) \in 0 .. MaxHandle
         /\ Cardinality(S \cup T) = Cardinality(S) + Cardinality(T)
<1>1. IsFiniteSet(Handles) /\ Cardinality(Handles) = MaxHandle /\ MaxHandle \in Nat
  BY FS_Interval, MaxHandleAssumption DEF Handles
<1>2. /\ IsFiniteSet(S) /\ IsFiniteSet(T) /\ Cardinality(S) <= MaxHandle
      /\ Cardinality(S) \in Nat /\ Cardinality(T) \in Nat
  BY <1>1, FS_Subset, FS_CardinalityType
<1>3. Cardinality(S \cap T) = 0
  BY FS_EmptySet
<1>4. Cardinality(S \cup T) = Cardinality(S) + Cardinality(T) - Cardinality(S \cap T)
  BY <1>2, FS_Union
<1> QED BY <1>1, <1>2, <1>3, <1>4

\* The threads queued on condition c are as many as its queue has entries.
LEMMA QueueSize ==
  ASSUME IInv, NEW c \in Conditions
  PROVE  /\ WaitingThreads(c) \in SUBSET Handles
         /\ Cardinality(WaitingThreads(c)) = Len(conditions[c].waiters)
         /\ Len(conditions[c].waiters) \in 0 .. MaxHandle
<1> DEFINE q == conditions[c].waiters
           T == WaitingThreads(c)
           f == [i \in 1 .. Len(q) |-> q[i].thread]
<1>1. /\ WaitTypes(conditions, completed) /\ QueuesOK(conditions, completed)
  BY InvFacts
<1>2. QueueOK(q) /\ q \in Seq(Waiters) /\ DOMAIN q = 1 .. Len(q) /\ Len(q) \in Nat
  <2>1. QueueOK(q) /\ q \in Seq(Waiters)
    BY <1>1, QueuesAreOK, ConditionFields
  <2> QED BY <2>1
<1>3. T \in SUBSET Handles
  BY <1>2, ElementFacts DEF WaitingThreads
<1>4. \A i \in 1 .. Len(q) : q[i].thread \in T
  BY <1>2 DEF WaitingThreads, Elements
<1>5. \A g \in T : \E i \in 1 .. Len(q) : q[i].thread = g
  BY <1>2 DEF WaitingThreads, Elements
<1> HIDE DEF T
<1>6. f \in [1 .. Len(q) -> T]
  BY <1>4
<1>7. /\ \A i, j \in 1 .. Len(q) : f[i] = f[j] => i = j
      /\ \A g \in T : \E i \in 1 .. Len(q) : f[i] = g
  BY <1>2, <1>5 DEF QueueOK
<1> HIDE DEF f
<1>8. IsFiniteSet(T) /\ Cardinality(T) \in 0 .. MaxHandle
  <2>1. {} \in SUBSET Handles /\ T \cap {} = {}
    OBVIOUS
  <2> QED BY <1>3, <2>1, DisjointSizes
<1> DEFINE I == 1 .. Len(q)
<1>9. Cardinality(I) = Cardinality(T)
  <2>1. /\ f \in [I -> T] /\ \A i, j \in I : f[i] = f[j] => i = j
        /\ \A g \in T : \E i \in I : f[i] = g
    BY <1>6, <1>7
  <2> HIDE DEF I
  <2> QED BY <1>8, <2>1, SameSize
<1>10. Cardinality(I) = Len(q)
  <2>1. PICK n \in Nat : n = Len(q)
    BY <1>2
  <2>2. Cardinality(1 .. n) = IF 1 > n THEN 0 ELSE n - 1 + 1
    BY FS_Interval
  <2> QED BY <2>1, <2>2
<1> QED BY <1>3, <1>8, <1>9, <1>10 DEF T

\* The counts that keep conditions and mutexes from being destroyed are exactly
\* the waits in progress.
THEOREM ObjectsAreKept == Spec => []WaitsKeepObjectsAlive
<1>1. IInv => WaitsKeepObjectsAlive
  <2> SUFFICES ASSUME IInv PROVE WaitsKeepObjectsAlive
    OBVIOUS
  <2>1. /\ WaitTypes(conditions, completed) /\ QueuesOK(conditions, completed)
        /\ CountsOK(mutexes, conditions, completed)
    BY InvFacts
  <2>2. ASSUME NEW c \in Conditions
        PROVE  conditions[c].active_waiter_count =
                 Len(conditions[c].waiters)
                 + Cardinality({h \in Handles : completed[h].condition = c})
    <3> DEFINE T == WaitingThreads(c)
               D == {h \in Handles : completed[h].condition = c}
    <3>1. T \in SUBSET Handles /\ Cardinality(T) = Len(conditions[c].waiters)
      BY QueueSize
    <3>2. T \cap D = {}
      <4>1. \A h \in T : completed[h] = NoCompletion
        BY <2>1 DEF QueuesOK, WaitingThreads
      <4> QED BY <2>1, <4>1, ConditionFields
    <3>3. WaitersOn(conditions, completed, c) = T \cup D
      <4>1. ASSUME NEW h \in Handles
            PROVE  h \in T <=> \E m \in Mutexes :
                     \E w \in Elements(conditions[c].waiters) : w.thread = h /\ w.mutex = m
        BY <2>1, ConditionFields, ElementFacts DEF WaitingThreads
      <4>2. ASSUME NEW h \in Handles
            PROVE  h \in D <=> \E m \in Mutexes :
                     completed[h].condition = c /\ completed[h].mutex = m
        BY <2>1, ConditionFields
      <4> HIDE DEF T, D
      <4>3. D \in SUBSET Handles
        BY DEF D
      <4> QED BY <3>1, <4>1, <4>2, <4>3 DEF WaitersOn, InWait
    <3>4. conditions[c].active_waiter_count = Cardinality(T \cup D)
      BY <2>1, <3>3 DEF CountsOK
    <3> QED BY <3>1, <3>2, <3>4, DisjointSizes
  <2>3. ASSUME NEW m \in Mutexes
        PROVE  mutexes[m].condition_waiter_count =
                 Cardinality({h \in Handles : completed[h].mutex = m})
                 + Cardinality({e \in Conditions \X (1 .. MaxHandle) :
                                  /\ e[2] \in DOMAIN conditions[e[1]].waiters
                                  /\ conditions[e[1]].waiters[e[2]].mutex = m})
    <3> DEFINE D == {h \in Handles : completed[h].mutex = m}
               E == {e \in Conditions \X (1 .. MaxHandle) :
                       /\ e[2] \in DOMAIN conditions[e[1]].waiters
                       /\ conditions[e[1]].waiters[e[2]].mutex = m}
               T == {h \in Handles : \E c \in Conditions :
                       \E w \in Elements(conditions[c].waiters) : w.thread = h /\ w.mutex = m}
               f == [e \in E |-> conditions[e[1]].waiters[e[2]].thread]
    <3>1. T \in SUBSET Handles /\ D \in SUBSET Handles
      OBVIOUS
    <3>2. D \cap T = {}
      <4>1. \A h \in T : completed[h] = NoCompletion
        BY <2>1 DEF QueuesOK
      <4> QED BY <2>1, <4>1, ConditionFields
    <3>3. WaitersWith(conditions, completed, m) = D \cup T
      <4>1. ASSUME NEW h \in Handles
            PROVE  h \in D <=> \E c \in Conditions :
                     completed[h].condition = c /\ completed[h].mutex = m
        BY <2>1, ConditionFields
      <4> QED BY <4>1 DEF WaitersWith, InWait
    <3>4. mutexes[m].condition_waiter_count = Cardinality(D \cup T)
      BY <2>1, <3>3 DEF CountsOK
    <3>5. IsFiniteSet(T) /\ Cardinality(D \cup T) = Cardinality(D) + Cardinality(T)
      <4>1. T \cap D = {}
        BY <3>2
      <4> HIDE DEF T, D
      <4> QED BY <3>1, <3>2, <4>1, DisjointSizes
    <3>6. ASSUME NEW c \in Conditions
          PROVE  /\ QueueOK(conditions[c].waiters) /\ conditions[c].waiters \in Seq(Waiters)
                 /\ DOMAIN conditions[c].waiters \subseteq 1 .. MaxHandle
      <4> DEFINE q == conditions[c].waiters
      <4>1. QueueOK(q) /\ q \in Seq(Waiters) /\ Len(q) \in 0 .. MaxHandle
        BY <2>1, QueuesAreOK, ConditionFields, QueueSize
      <4>2. DOMAIN q = 1 .. Len(q) /\ MaxHandle \in Nat
        BY <4>1, MaxHandleAssumption
      <4> HIDE DEF q
      <4>3. DOMAIN q \subseteq 1 .. MaxHandle
        BY <4>1, <4>2
      <4> QED BY <4>1, <4>3 DEF q
    <3>7. ASSUME NEW e \in E
          PROVE  /\ e = <<e[1], e[2]>> /\ e[1] \in Conditions
                 /\ conditions[e[1]].waiters[e[2]] \in Elements(conditions[e[1]].waiters)
                 /\ e[2] \in DOMAIN conditions[e[1]].waiters
                 /\ conditions[e[1]].waiters[e[2]].mutex = m
      BY DEF Elements
    <3>8. f \in [E -> T]
      <4>1. ASSUME NEW e \in E PROVE conditions[e[1]].waiters[e[2]].thread \in T
        <5>1. conditions[e[1]].waiters[e[2]].thread \in Handles
          BY <3>6, <3>7, ElementFacts
        <5> QED BY <3>7, <5>1
      <4> HIDE DEF E, T
      <4> QED BY <4>1
    <3>9. \A a, b \in E : f[a] = f[b] => a = b
      <4> SUFFICES ASSUME NEW a \in E, NEW b \in E, f[a] = f[b] PROVE a = b
        OBVIOUS
      <4>1. conditions[a[1]].waiters[a[2]].thread = conditions[b[1]].waiters[b[2]].thread
        OBVIOUS
      <4> HIDE DEF E, f
      <4>2. a[1] = b[1]
        BY <2>1, <3>7, <4>1 DEF QueuesOK
      <4>3. a[2] = b[2]
        BY <3>6, <3>7, <4>1, <4>2 DEF QueueOK
      <4> QED BY <3>7, <4>2, <4>3
    <3>10. \A h \in T : \E e \in E : f[e] = h
      <4> SUFFICES ASSUME NEW h \in T PROVE \E e \in E : f[e] = h
        OBVIOUS
      <4>1. PICK c \in Conditions :
              \E w \in Elements(conditions[c].waiters) : w.thread = h /\ w.mutex = m
        OBVIOUS
      <4>2. PICK i \in DOMAIN conditions[c].waiters :
              /\ conditions[c].waiters[i].thread = h /\ conditions[c].waiters[i].mutex = m
        BY <4>1 DEF Elements
      <4>3. i \in 1 .. MaxHandle
        BY <3>6, <4>2
      <4>4. <<c, i>> \in E
        BY <4>2, <4>3
      <4>5. f[<<c, i>>] = h
        BY <4>2, <4>4
      <4> QED BY <4>4, <4>5
    <3> HIDE DEF E, T, D, f
    <3>11. Cardinality(E) = Cardinality(T)
      BY <3>5, <3>8, <3>9, <3>10, SameSize
    <3>12. mutexes[m].condition_waiter_count = Cardinality(D) + Cardinality(E)
      BY <3>4, <3>5, <3>11
    <3> QED BY <3>12 DEF D, E
  <2> QED BY <2>2, <2>3 DEF WaitsKeepObjectsAlive
<1> QED BY <1>1, Invariance, PTL

-----------------------------------------------------------------------------
(* What a step may never do.                                                *)

\* Only its own thread takes a condition wait further.
LEMMA OnlyCallerReturns ==
  ASSUME IInv, [Next]_vars, NEW h \in Handles, NEW c \in Conditions, NEW m \in Mutexes,
         call[h] = WaitCall(c, m), call'[h] = NoCall
  PROVE  FinishWait(h, c, m) \/ Exit(h)
<1>1. WaitCall(c, m) # NoCall /\ \A n : WaitCall(c, m) # LockCall(n)
  BY CallFacts
<1>2. call'[h] # call[h] /\ call \in [Handles -> Calls]
  BY <1>1, InvFacts
<1>3. PICK g \in Handles : Operation(g)
  BY <1>2 DEF Next, Dispatch, Tick, vars
<1>4. call[g] = NoCall \/ (\E n : call[g] = LockCall(n)) => g # h
  BY <1>1
<1>5. \A k, status : call' = CallAfter(g, k, status) => g = h
  BY <1>2 DEF CallAfter
<1>6. \A n \in Mutexes, try_only \in BOOLEAN : ~LockMutex(g, n, try_only)
  BY <1>4, <1>5 DEF LockMutex, MayCall
<1>7. \A k \in Conditions, n \in Mutexes, d \in Deadlines : ~StartWait(g, k, n, d)
  BY <1>4, <1>5 DEF StartWait, MayCall
<1>8. (\E k \in Conditions, n \in Mutexes : FinishWait(g, k, n)) \/ Exit(g)
  BY <1>2, <1>3, <1>6, <1>7
     DEF Operation, Relinquish, CreateMutex, DestroyMutex, UnlockMutex, CreateCondition,
         DestroyCondition, SignalCondition
<1>9. CASE Exit(g)
  <2>1. g = h
    BY <1>2, <1>9 DEF Exit
  <2> QED BY <1>9, <2>1
<1>10. ASSUME NEW k \in Conditions, NEW n \in Mutexes, FinishWait(g, k, n)
       PROVE  FinishWait(h, c, m)
  <2>1. g = h /\ call[g] = WaitCall(k, n)
    BY <1>5, <1>10 DEF FinishWait
  <2>2. WaitCall(k, n) = WaitCall(c, m)
    BY <2>1
  <2>3. k = c /\ n = m
    BY ONLY <2>2, CallFacts
  <2> QED BY <1>10, <2>1, <2>3
<1> QED BY <1>8, <1>9, <1>10

\* The repeated call leaves the mutex with its thread, or the thread in the call.
LEMMA FinishWaitLocks ==
  ASSUME IInv, NEW h \in Handles, NEW c \in Conditions, NEW m \in Mutexes,
         FinishWait(h, c, m), call'[h] = NoCall
  PROVE  /\ mutexes'[m].owner = h /\ mutexes'[m].recursion_count = 1
         /\ h \notin mutexes'[m].granted_waiters
<1> DEFINE x == mutexes[m]
           y0 == AfterLock(x, h, FALSE)
           status == LockStatus(x, h, FALSE)
           done == status = "kOk"
           y == [y0 EXCEPT !.condition_waiter_count = IF done THEN @ - 1 ELSE @]
           s == ConsumeCurrentThreadTimeout(sched, ConditionWaitKey(c, h))
<1>1. /\ sched.current = h /\ sched.state[h] = "running" /\ call[h] = WaitCall(c, m)
      /\ mutexes' = [mutexes EXCEPT ![m] = y]
      /\ sched' = IF status = "kWouldBlock" THEN BlockCurrent(s, MutexWaitKey(m, h)) ELSE s
      /\ call' = CallAfter(h, WaitCall(c, m), status)
  BY DEF FinishWait, MayCall
<1>2. /\ call' \in [Handles -> Calls] /\ \A g \in Handles : g # h => call'[g] = call[g]
      /\ call'[h] = IF status = "kWouldBlock" THEN WaitCall(c, m) ELSE NoCall
  <2>1. WaitCall(c, m) \in Calls
    BY DEF Calls
  <2> QED BY <1>1, <2>1, CallTypes
<1>3. Relocked(h, c, m, y0, sched', call')
  BY <1>1, <1>2, WaitRelocks
<1>4. mutexes'[m] = y
  BY <1>1, InvFacts
<1> HIDE DEF y0, status, done
<1>5. y0 \in MutexRecords
  BY <1>3 DEF Relocked, MutexOK
<1>6. y.owner = y0.owner /\ y.recursion_count = y0.recursion_count
      /\ y.granted_waiters = y0.granted_waiters
  BY <1>5 DEF MutexRecords
<1> HIDE DEF y
<1>7. WaitCall(c, m) # NoCall
  BY CallFacts
<1>8. y0.owner = h /\ y0.recursion_count = 1 /\ h \notin y0.granted_waiters
  BY <1>3, <1>7 DEF Relocked
<1> QED BY <1>4, <1>6, <1>8

\* WaitCondition returns to its thread only with the mutex locked by it, once.
THEOREM ReturnsLocked == Spec => WaitReturnsLocked
<1>1. ASSUME IInv, [Next]_vars, NEW h \in Handles, NEW c \in Conditions, NEW m \in Mutexes,
             call[h] = WaitCall(c, m), call'[h] = NoCall, sched'.state[h] = "running"
      PROVE  /\ mutexes'[m].owner = h /\ mutexes'[m].recursion_count = 1
             /\ h \notin mutexes'[m].granted_waiters
  <2>1. ~Exit(h)
    <3> SUFFICES ASSUME Exit(h) PROVE FALSE
      OBVIOUS
    <3>1. Leaves(sched', h)
      BY <1>1, ExitWakes DEF Exit
    <3> QED BY <1>1, <3>1 DEF Leaves
  <2>2. FinishWait(h, c, m)
    BY <1>1, <2>1, OnlyCallerReturns
  <2> QED BY <1>1, <2>2, FinishWaitLocks
<1>2. IInv /\ [Next]_vars =>
        [\A h \in Handles, c \in Conditions, m \in Mutexes :
           (call[h] = WaitCall(c, m) /\ call'[h] = NoCall
              /\ sched'.state[h] = "running") =>
             /\ mutexes'[m].owner = h
             /\ mutexes'[m].recursion_count = 1
             /\ h \notin mutexes'[m].granted_waiters]_vars
  BY <1>1
<1> QED BY <1>2, Invariance, PTL DEF Spec, WaitReturnsLocked

\* The step takes nobody but the running thread off the queue of condition c.
TakesNobody(c) ==
  \A w \in Elements(conditions[c].waiters) :
    w.thread # sched.current => w.thread \in WaitingThreads(c)'

\* A step that is no signal takes nobody.
LEMMA OthersTakeNobody ==
  ASSUME IInv, [Next]_vars, NEW c \in Conditions,
         \A h \in Handles, broadcast \in BOOLEAN, later \in LaterTimes :
           ~SignalCondition(h, c, broadcast, later)
  PROVE  TakesNobody(c)
<1> DEFINE x == conditions[c]
           y == conditions'[c]
<1>1. /\ WaitTypes(conditions, completed) /\ conditions \in [Conditions -> ConditionRecords]
      /\ x \in ConditionRecords /\ x.waiters \in Seq(Waiters)
  BY InvFacts, ConditionFields DEF WaitTypes
<1>2. ASSUME Elements(x.waiters) \subseteq Elements(y.waiters) PROVE TakesNobody(c)
  BY <1>2 DEF TakesNobody, WaitingThreads
<1>3. CASE conditions' = conditions
  BY <1>2, <1>3
<1>4. ASSUME NEW h \in Handles, NEW k \in Conditions, CreateCondition(h, k)
      PROVE  TakesNobody(c)
  <2>1. y = x \/ y = [x EXCEPT !.live = TRUE]
    BY <1>1, <1>4 DEF CreateCondition
  <2>2. y.waiters = x.waiters
    BY <1>1, <2>1 DEF ConditionRecords
  <2> QED BY <1>2, <2>2
<1>5. ASSUME NEW h \in Handles, NEW k \in Conditions, DestroyCondition(h, k)
      PROVE  TakesNobody(c)
  <2>1. y = x \/ x.waiters = <<>>
    BY <1>1, <1>5 DEF DestroyCondition
  <2>2. x.waiters = <<>> => Elements(x.waiters) = {}
    BY DEF Elements
  <2> QED BY <1>2, <2>1, <2>2
<1>6. ASSUME NEW h \in Handles, NEW k \in Conditions, NEW m \in Mutexes,
             NEW d \in Deadlines, StartWait(h, k, m, d)
      PROVE  TakesNobody(c)
  <2> DEFINE w == Waiter(h, m, d)
  <2>1. \/ y = x
        \/ y = [x EXCEPT !.waiters = Append(@, w), !.active_waiter_count = @ + 1]
    BY <1>1, <1>6 DEF StartWait
  <2>2. y.waiters = x.waiters \/ y.waiters = Append(x.waiters, w)
    BY <1>1, <2>1 DEF ConditionRecords
  <2> HIDE DEF w
  <2>3. \A i \in DOMAIN x.waiters :
          i \in DOMAIN Append(x.waiters, w) /\ Append(x.waiters, w)[i] = x.waiters[i]
    BY <1>1
  <2>4. Elements(x.waiters) \subseteq Elements(Append(x.waiters, w))
    BY <2>3 DEF Elements
  <2> QED BY <1>2, <2>2, <2>4
<1>7. ASSUME NEW h \in Handles, NEW k \in Conditions, NEW m \in Mutexes,
             FinishWait(h, k, m)
      PROVE  TakesNobody(c)
  <2> DEFINE i == CHOOSE i \in IndexesOf(k, h, m) : TRUE
             ours == completed[h].condition = k /\ completed[h].mutex = m
             r == IF ours THEN conditions[k]
                  ELSE [conditions[k] EXCEPT !.waiters = WithoutIndex(@, i)]
             done == LockStatus(mutexes[m], h, FALSE) = "kOk"
             z == [r EXCEPT !.active_waiter_count = IF done THEN @ - 1 ELSE @]
  <2>1. /\ sched.current = h /\ call[h] = WaitCall(k, m)
        /\ conditions' = [conditions EXCEPT ![k] = z]
    BY <1>7 DEF FinishWait, MayCall
  <2>2. Settled(k, h, r)
    BY <2>1, WaitSettles
  <2> HIDE DEF r, done
  <2>3. r \in ConditionRecords
    BY <2>2 DEF Settled
  <2>4. z.waiters = r.waiters
    BY <2>3 DEF ConditionRecords
  <2> HIDE DEF z
  <2>5. CASE k = c
    <3>1. Elements(y.waiters) = {v \in Elements(x.waiters) : v.thread # h}
      BY <1>1, <2>1, <2>2, <2>4, <2>5 DEF Settled
    <3> QED BY <2>1, <3>1 DEF TakesNobody, WaitingThreads
  <2>6. CASE k # c
    BY <1>1, <1>2, <2>1, <2>6
  <2> QED BY <2>5, <2>6
<1>8. ASSUME NEW h \in Handles, Exit(h) PROVE TakesNobody(c)
  <2>1. y = ConditionAfterExit(h, c)
    BY <1>8 DEF Exit, ConditionAfterExit
  <2>2. y.waiters = x.waiters
    BY <2>1, DroppedConditions
  <2> QED BY <1>2, <2>2
<1>9. ASSUME NEW h \in Handles, NEW k \in Conditions, NEW broadcast \in BOOLEAN,
             NEW later \in LaterTimes, SignalCondition(h, k, broadcast, later)
      PROVE  TakesNobody(c)
  <2>1. k # c
    BY <1>9
  <2>2. y = x
    BY <1>1, <1>9, <2>1 DEF SignalCondition
  <2> QED BY <1>2, <2>2
<1>10. ASSUME NEW h \in Handles, Operation(h) PROVE TakesNobody(c)
  <2>1. \/ conditions' = conditions \/ Exit(h)
        \/ \E k \in Conditions : CreateCondition(h, k) \/ DestroyCondition(h, k)
        \/ \E k \in Conditions, m \in Mutexes, d \in Deadlines : StartWait(h, k, m, d)
        \/ \E k \in Conditions, m \in Mutexes : FinishWait(h, k, m)
        \/ \E k \in Conditions, broadcast \in BOOLEAN, later \in LaterTimes :
             SignalCondition(h, k, broadcast, later)
    BY <1>10 DEF Operation, Objects, CreateMutex, DestroyMutex, LockMutex, UnlockMutex
  <2> QED BY <1>3, <1>4, <1>5, <1>6, <1>7, <1>8, <1>9, <2>1
<1>11. CASE (Dispatch /\ Objects) \/ (Tick /\ Objects) \/ UNCHANGED vars
  BY <1>3, <1>11 DEF Objects, vars
<1> QED BY <1>10, <1>11 DEF Next

\* What a signal does to the queue of condition c and to the waits it takes.
Reaches(c) ==
  LET q     == conditions[c].waiters
      live  == {i \in DOMAIN q : ~WaiterExpired(q[i])}
      taken == {i \in DOMAIN q : /\ q[i].thread # sched.current
                                 /\ q[i].thread \notin WaitingThreads(c)'}
  IN  taken # {} =>
        /\ \A i \in taken :
             completed'[q[i].thread] = [condition |-> c, mutex |-> q[i].mutex,
                                        timed_out |-> i \notin live]
        /\ live # {} => \E i \in taken : \A j \in live : i \in live /\ i <= j

LEMMA StepReaches ==
  ASSUME IInv, [Next]_vars, NEW c \in Conditions
  PROVE  Reaches(c)
<1> DEFINE q == conditions[c].waiters
           live == {i \in DOMAIN q : ~WaiterExpired(q[i])}
           taken == {i \in DOMAIN q : /\ q[i].thread # sched.current
                                      /\ q[i].thread \notin WaitingThreads(c)'}
<1>1. CASE TakesNobody(c)
  <2>1. taken = {}
    BY <1>1 DEF TakesNobody, Elements
  <2> QED BY <2>1 DEF Reaches
<1>2. ASSUME NEW h \in Handles, NEW broadcast \in BOOLEAN, NEW later \in LaterTimes,
             SignalCondition(h, c, broadcast, later)
      PROVE  Reaches(c)
  <2> DEFINE n == TakenCount(q, broadcast)
             r == SubSeq(q, n + 1, Len(q))
  <2>1. /\ sched.current = h /\ sched.state[h] = "running" /\ call[h] = NoCall
        /\ conditions' = [conditions EXCEPT ![c].waiters = r]
        /\ completed' = Completions(c, n)
    BY <1>2 DEF SignalCondition, MayCall
  <2>2. /\ QueueOK(q) /\ q \in Seq(Waiters) /\ conditions[c] \in ConditionRecords
        /\ conditions \in [Conditions -> ConditionRecords]
    BY InvFacts, QueuesAreOK, ConditionFields DEF WaitTypes
  <2>3. /\ n \in 0 .. Len(q)
        /\ live # {} => \E i \in live : i <= n /\ \A j \in live : i <= j
    BY <2>2, TakenFacts
  <2>4. DOMAIN q = 1 .. Len(q) /\ Len(q) \in Nat
    BY <2>2
  <2> HIDE DEF n
  <2>5. Elements(r) = {q[i] : i \in (n + 1) .. Len(q)}
    BY <2>2, <2>3, QueueTake
  <2>6. conditions'[c].waiters = r
    BY <2>1, <2>2 DEF ConditionRecords
  <2>7. \A i \in DOMAIN q : q[i].thread # h
    <3>1. Alive(sched, h)
      BY <2>1, CallerFacts
    <3> QED BY <2>1, <3>1, CallerInNoWait DEF Elements
  <2> HIDE DEF r
  <2>8. taken = 1 .. n
    <3>1. ASSUME NEW i \in DOMAIN q
          PROVE  q[i].thread \in WaitingThreads(c)' <=> i \in (n + 1) .. Len(q)
      <4>1. q[i].thread \in WaitingThreads(c)' <=>
              \E j \in (n + 1) .. Len(q) : q[j].thread = q[i].thread
        BY <2>5, <2>6 DEF WaitingThreads
      <4>2. \A j \in (n + 1) .. Len(q) : j \in DOMAIN q
        BY <2>3, <2>4
      <4> QED BY <2>2, <4>1, <4>2 DEF QueueOK
    <3>2. \A i \in DOMAIN q : i \in taken <=> i \notin (n + 1) .. Len(q)
      BY <2>1, <2>7, <3>1
    <3>3. \A i \in DOMAIN q : i \notin (n + 1) .. Len(q) <=> i \in 1 .. n
      BY <2>3, <2>4
    <3>4. 1 .. n \subseteq DOMAIN q
      BY <2>3, <2>4
    <3> QED BY <3>2, <3>3, <3>4
  <2>9. ASSUME NEW i \in 1 .. n
        PROVE  completed'[q[i].thread] = [condition |-> c, mutex |-> q[i].mutex,
                                          timed_out |-> i \notin live]
    <3>1. completed'[q[i].thread] = [condition |-> c, mutex |-> q[i].mutex,
                                     timed_out |-> WaiterExpired(q[i])]
      BY <2>1, <2>3, CompletionFacts
    <3>2. i \in DOMAIN q
      BY <2>3, <2>4
    <3>3. WaiterExpired(q[i]) <=> i \notin live
      BY <3>2
    <3>4. WaiterExpired(q[i]) \in BOOLEAN
      BY DEF WaiterExpired
    <3>5. WaiterExpired(q[i]) = (i \notin live)
      <4> DEFINE b == WaiterExpired(q[i])
      <4> HIDE DEF b
      <4>1. b \in BOOLEAN /\ (b <=> i \notin live)
        BY <3>3, <3>4 DEF b
      <4> QED BY <4>1 DEF b
    <3> QED BY <3>1, <3>5
  <2>10. live # {} => \E i \in 1 .. n : \A j \in live : i \in live /\ i <= j
    <3> SUFFICES ASSUME live # {}
                 PROVE  \E i \in 1 .. n : \A j \in live : i \in live /\ i <= j
      OBVIOUS
    <3>1. PICK i \in live : i <= n /\ \A j \in live : i <= j
      BY <2>3
    <3>2. i \in 1 .. n
      BY <2>3, <2>4, <3>1
    <3> QED BY <3>1, <3>2
  <2> HIDE DEF taken, live
  <2> QED BY <2>8, <2>9, <2>10 DEF Reaches, taken, live
<1> QED BY <1>1, <1>2, OthersTakeNobody

\* SignalCondition wastes no signal on waits that have timed out, and completes
\* each wait it takes as its deadline says.
THEOREM SignalsReach == Spec => SignalReachesWaiter
<1>1. IInv /\ [Next]_vars =>
        [\A c \in Conditions :
           LET q     == conditions[c].waiters
               live  == {i \in DOMAIN q : ~WaiterExpired(q[i])}
               taken == {i \in DOMAIN q : /\ q[i].thread # sched.current
                                          /\ q[i].thread \notin WaitingThreads(c)'}
           IN  taken # {} =>
                 /\ \A i \in taken :
                      completed'[q[i].thread] =
                        [condition |-> c, mutex |-> q[i].mutex,
                         timed_out |-> i \notin live]
                 /\ live # {} => \E i \in taken : \A j \in live : i \in live /\ i <= j
        ]_vars
  BY StepReaches DEF Reaches
<1> QED BY <1>1, Invariance, PTL DEF Spec, SignalReachesWaiter
=============================================================================

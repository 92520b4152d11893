---------------------------- MODULE PthreadMutex ----------------------------
(***************************************************************************)
(* The mutexes and condition variables of kernel::PthreadService over the  *)
(* guest scheduler.  A contended lock queues its thread and blocks it; the  *)
(* unlock hands the mutex to the first waiter before it wakes it.  A        *)
(* condition wait releases its mutex, blocks, and must take the mutex again *)
(* before it returns, whether a signal or its deadline ended the wait.      *)
(***************************************************************************)
EXTENDS GuestThreads

CONSTANTS MaxMutex,      \* the mutex slots: guest arena slots are reused
          MaxCondition,  \* the condition slots
          MutexTypes,    \* the mutex types the guest asks for
          MaxRecursion,  \* the largest recursion_count
          Timeouts       \* the relative timeouts of the timed waits

Mutexes == 1 .. MaxMutex
Conditions == 1 .. MaxCondition
NoObject == 0    \* no mutex, no condition

ASSUME PthreadAssumption ==
  /\ MutexTypes \subseteq {"errorcheck", "recursive", "normal", "adaptive"}
  /\ MaxMutex \in Nat /\ MaxCondition \in Nat
  /\ MaxRecursion \in Nat \ {0}
  /\ Timeouts \subseteq Nat

VARIABLES mutexes,       \* mutexes_
          conditions,    \* conditions_
          completed      \* completed_condition_waits_

vars == <<sched, now, call, mutexes, conditions, completed>>

MutexWaitKey(m, h) == <<"pthread-mutex", m, h>>
ConditionWaitKey(c, h) == <<"pthread-condition", c, h>>

NoMutex == [type |-> "none", owner |-> NoThread, recursion_count |-> 0,
            waiters |-> <<>>, granted_waiters |-> {},
            condition_waiter_count |-> 0]
NewMutex(t) == [NoMutex EXCEPT !.type = t]
MutexLive(m) == mutexes[m].type # "none"

NoCondition == [live |-> FALSE, waiters |-> <<>>, active_waiter_count |-> 0]

\* A ConditionWaiter names its condition: so does the entry of a completed
\* wait, whose condition is NoCompletion.condition when there is none.
NoCompletion == [condition |-> NoObject, mutex |-> NoObject, timed_out |-> FALSE]

Init ==
  /\ Started
  /\ mutexes = [m \in Mutexes |-> NoMutex]
  /\ conditions = [c \in Conditions |-> NoCondition]
  /\ completed = [h \in Handles |-> NoCompletion]

-----------------------------------------------------------------------------
(* Locking and unlocking, as functions of one mutex's state x.             *)

Relocks(x, try_only) ==
  x.type = "recursive" \/ (x.type = "normal" /\ ~try_only)

LockStatus(x, h, try_only) ==
  CASE x.owner = NoThread                    -> "kOk"
    [] x.owner = h /\ h \in x.granted_waiters -> "kOk"
    [] x.owner = h /\ h \notin x.granted_waiters ->
         CASE Relocks(x, try_only) ->
                IF x.recursion_count = MaxRecursion THEN "kNoResources"
                                                    ELSE "kOk"
           [] x.type = "adaptive" /\ ~try_only -> "kOk"
           [] OTHER -> IF try_only THEN "kBusy" ELSE "kInvalidArgument"
    [] OTHER -> IF try_only THEN "kBusy" ELSE "kWouldBlock"

\* Variant for the checks: a thread blocks without being queued.
AfterLockNotQueued(x, h, try_only) ==
  CASE LockStatus(x, h, try_only) # "kOk" -> x
    [] x.owner = NoThread -> [x EXCEPT !.owner = h, !.recursion_count = 1]
    [] OTHER -> [x EXCEPT !.granted_waiters = @ \ {h}]

\* The mutex after the call.  Only a thread that blocks is queued, and once.
AfterLock(x, h, try_only) ==
  LET status == LockStatus(x, h, try_only)
  IN  CASE status = "kWouldBlock" ->
             [x EXCEPT !.waiters = IF \E i \in DOMAIN @ : @[i] = h
                                   THEN @ ELSE Append(@, h)]
        [] status \notin {"kOk", "kWouldBlock"} -> x
        [] status = "kOk" /\ x.owner = NoThread ->
             [x EXCEPT !.owner = h, !.recursion_count = 1]
        [] status = "kOk" /\ x.owner = h /\ h \in x.granted_waiters ->
             [x EXCEPT !.granted_waiters = @ \ {h}]
        [] OTHER -> IF Relocks(x, try_only)
                    THEN [x EXCEPT !.recursion_count = @ + 1] ELSE x

\* Variant for the checks: the mutex goes to the newest waiter.
ReleaseToNewest(x, h) ==
  LET n == Len(x.waiters)
  IN  IF n = 0
      THEN [x EXCEPT !.owner = NoThread, !.recursion_count = 0,
                     !.granted_waiters = @ \ {h}]
      ELSE [x EXCEPT !.owner = x.waiters[n], !.recursion_count = 1,
                     !.granted_waiters = (@ \ {h}) \cup {x.waiters[n]},
                     !.waiters = SubSeq(@, 1, n - 1)]

\* h gives the mutex up: GrantNextMutexWaiterLocked makes the first waiter
\* its owner at once.
Release(x, h) ==
  IF x.waiters = <<>>
  THEN [x EXCEPT !.owner = NoThread, !.recursion_count = 0,
                 !.granted_waiters = @ \ {h}]
  ELSE [x EXCEPT !.owner = Head(x.waiters), !.recursion_count = 1,
                 !.granted_waiters = (@ \ {h}) \cup {Head(x.waiters)},
                 !.waiters = Tail(@)]

UnlockStatus(x, h) ==
  IF x.owner # h THEN "kPermissionDenied"
  ELSE IF x.recursion_count = 0 THEN "kInvalidArgument" ELSE "kOk"

AfterUnlock(x, h) ==
  IF UnlockStatus(x, h) # "kOk" THEN x
  ELSE IF x.recursion_count > 1 THEN [x EXCEPT !.recursion_count = @ - 1]
  ELSE Release(x, h)

\* The key an unlock of m, in state x, by h must wake.
GrantKeys(m, x, h) ==
  IF UnlockStatus(x, h) = "kOk" /\ x.recursion_count = 1 /\ x.waiters # <<>>
  THEN <<MutexWaitKey(m, Release(x, h).owner)>> ELSE <<>>

-----------------------------------------------------------------------------
(* Operations on mutexes.                                                  *)

CreateMutex(h, m, t) ==
  /\ MayCall(h, NoCall)
  /\ ~MutexLive(m)
  /\ mutexes' = [mutexes EXCEPT ![m] = NewMutex(t)]
  /\ UNCHANGED <<sched, now, call, conditions, completed>>

\* Variant for the checks: the threads inside condition waits do not count.
DestroyMutexForgetsWaits(h, m) ==
  /\ MayCall(h, NoCall)
  /\ MutexLive(m)
  /\ mutexes[m].owner = NoThread
  /\ mutexes[m].waiters = <<>>
  /\ mutexes' = [mutexes EXCEPT ![m] = NoMutex]
  /\ UNCHANGED <<sched, now, call, conditions, completed>>

DestroyMutex(h, m) ==
  /\ MayCall(h, NoCall)
  /\ MutexLive(m)
  /\ mutexes[m].owner = NoThread
  /\ mutexes[m].waiters = <<>>
  /\ mutexes[m].granted_waiters = {}
  /\ mutexes[m].condition_waiter_count = 0
  /\ mutexes' = [mutexes EXCEPT ![m] = NoMutex]
  /\ UNCHANGED <<sched, now, call, conditions, completed>>

LockCall(m) == <<"lock", m>>

LockMutex(h, m, try_only) ==
  LET status == LockStatus(mutexes[m], h, try_only)
  IN  /\ MayCall(h, IF try_only THEN NoCall ELSE LockCall(m))
      /\ MutexLive(m)
      /\ mutexes' = [mutexes EXCEPT ![m] = AfterLock(@, h, try_only)]
      /\ sched' = IF status = "kWouldBlock"
                  THEN BlockCurrent(sched, MutexWaitKey(m, h)) ELSE sched
      /\ call' = CallAfter(h, LockCall(m), status)
      /\ UNCHANGED <<now, conditions, completed>>

UnlockMutex(h, m) ==
  /\ MayCall(h, NoCall)
  /\ MutexLive(m)
  /\ mutexes' = [mutexes EXCEPT ![m] = AfterUnlock(@, h)]
  /\ sched' = WakeInTurn(sched, GrantKeys(m, mutexes[m], h), now)
  /\ UNCHANGED <<now, call, conditions, completed>>

-----------------------------------------------------------------------------
(* Operations on conditions.                                               *)

CreateCondition(h, c) ==
  /\ MayCall(h, NoCall)
  /\ ~conditions[c].live
  /\ conditions' = [conditions EXCEPT ![c].live = TRUE]
  /\ UNCHANGED <<sched, now, call, mutexes, completed>>

DestroyCondition(h, c) ==
  /\ MayCall(h, NoCall)
  /\ conditions[c].live
  /\ conditions[c].active_waiter_count = 0
  /\ conditions[c].waiters = <<>>
  /\ conditions' = [conditions EXCEPT ![c] = NoCondition]
  /\ UNCHANGED <<sched, now, call, mutexes, completed>>

Waiter(h, m, deadline) == [thread |-> h, mutex |-> m, deadline |-> deadline]
WaitCall(c, m) == <<"wait", c, m>>

\* Variant for the checks: a timed wait blocks without its deadline.
StartWaitUntimed(h, c, m, deadline) ==
  LET x == mutexes[m]
  IN  /\ MayCall(h, NoCall)
      /\ conditions[c].live /\ MutexLive(m)
      /\ x.owner = h /\ x.recursion_count = 1
      /\ conditions' = [conditions EXCEPT
                          ![c].waiters = Append(@, Waiter(h, m, deadline)),
                          ![c].active_waiter_count = @ + 1]
      /\ mutexes' = [mutexes EXCEPT
                       ![m] = [AfterUnlock(x, h) EXCEPT
                                 !.condition_waiter_count = @ + 1]]
      /\ sched' = BlockCurrent(WakeInTurn(sched, GrantKeys(m, x, h), now),
                               ConditionWaitKey(c, h))
      /\ call' = CallAfter(h, WaitCall(c, m), "kWouldBlock")
      /\ UNCHANGED <<now, completed>>

\* First call: the thread is queued on the condition, gives the mutex up and
\* blocks.  A timed wait turns its timeout into a deadline on entry.
StartWait(h, c, m, deadline) ==
  LET x == mutexes[m]
  IN  /\ MayCall(h, NoCall)
      /\ completed[h] = NoCompletion
      /\ ~CurrentThreadTimedOut(sched, ConditionWaitKey(c, h))
      /\ conditions[c].live /\ MutexLive(m)
      /\ x.owner = h /\ x.recursion_count = 1
      /\ conditions' = [conditions EXCEPT
                          ![c].waiters = Append(@, Waiter(h, m, deadline)),
                          ![c].active_waiter_count = @ + 1]
      /\ mutexes' = [mutexes EXCEPT
                       ![m] = [AfterUnlock(x, h) EXCEPT
                                 !.condition_waiter_count = @ + 1]]
      /\ sched' = BlockCurrentUntil(
                    WakeInTurn(sched, GrantKeys(m, x, h), now),
                    ConditionWaitKey(c, h), deadline)
      /\ call' = CallAfter(h, WaitCall(c, m), "kWouldBlock")
      /\ UNCHANGED <<now, completed>>

IndexesOf(c, h, m) ==
  {i \in DOMAIN conditions[c].waiters :
     /\ conditions[c].waiters[i].thread = h
     /\ conditions[c].waiters[i].mutex = m}

WithoutIndex(q, i) == SubSeq(q, 1, i - 1) \o SubSeq(q, i + 1, Len(q))

\* What the repeated call finds: a wait a signal completed, or one whose
\* deadline woke the thread, which leaves the condition's queue here.
TimedOutHere(h, c, m) ==
  /\ completed[h] = NoCompletion
  /\ CurrentThreadTimedOut(sched, ConditionWaitKey(c, h))
  /\ \E i \in IndexesOf(c, h, m) :
       /\ conditions[c].waiters[i].deadline # NoDeadline
       /\ conditions[c].waiters[i].deadline <= now

\* Variant for the checks: the wait returns as soon as it is over, with the
\* mutex in whatever state it is.
FinishWaitUnlocked(h, c, m) ==
  LET s    == ConsumeCurrentThreadTimeout(sched, ConditionWaitKey(c, h))
      ours == completed[h].condition = c /\ completed[h].mutex = m
  IN  /\ MayCall(h, WaitCall(c, m)) /\ call[h] = WaitCall(c, m)
      /\ ours
      /\ conditions' = [conditions EXCEPT ![c].active_waiter_count = @ - 1]
      /\ mutexes' = [mutexes EXCEPT ![m].condition_waiter_count = @ - 1]
      /\ completed' = [completed EXCEPT ![h] = NoCompletion]
      /\ sched' = s
      /\ call' = CallAfter(h, WaitCall(c, m), "kOk")
      /\ UNCHANGED now

\* The repeated call.  It takes the mutex again, or queues for it and blocks;
\* it returns, and the counts that keep the two objects alive go down, only
\* with the mutex taken.
FinishWait(h, c, m) ==
  LET s      == ConsumeCurrentThreadTimeout(sched, ConditionWaitKey(c, h))
      expired == TimedOutHere(h, c, m)
      ours   == completed[h].condition = c /\ completed[h].mutex = m
      i      == CHOOSE i \in IndexesOf(c, h, m) : TRUE
      x      == mutexes[m]
      status == LockStatus(x, h, FALSE)
      done   == status = "kOk"
      cond   == IF ours THEN conditions[c]
                ELSE [conditions[c] EXCEPT !.waiters = WithoutIndex(@, i)]
  IN  /\ MayCall(h, WaitCall(c, m)) /\ call[h] = WaitCall(c, m)
      /\ ours \/ expired
      /\ conditions' = [conditions EXCEPT
                          ![c] = [cond EXCEPT !.active_waiter_count =
                                                IF done THEN @ - 1 ELSE @]]
      /\ mutexes' = [mutexes EXCEPT
                       ![m] = [AfterLock(x, h, FALSE) EXCEPT
                                 !.condition_waiter_count =
                                    IF done THEN @ - 1 ELSE @]]
      /\ completed' = [completed EXCEPT
                         ![h] = CASE done -> NoCompletion
                                  [] ~done /\ ours -> @
                                  [] OTHER -> [condition |-> c, mutex |-> m,
                                               timed_out |-> TRUE]]
      /\ sched' = IF status = "kWouldBlock"
                  THEN BlockCurrent(s, MutexWaitKey(m, h)) ELSE s
      /\ call' = CallAfter(h, WaitCall(c, m), status)
      /\ UNCHANGED now

WaiterExpired(w) == w.deadline # NoDeadline /\ w.deadline <= now

\* The first n waiters of c become completed waits.
Completions(c, n) ==
  LET q == conditions[c].waiters
  IN  [g \in Handles |->
         IF \E i \in 1 .. n : q[i].thread = g
         THEN LET w == q[CHOOSE i \in 1 .. n : q[i].thread = g]
              IN  [condition |-> c, mutex |-> w.mutex,
                   timed_out |-> WaiterExpired(w)]
         ELSE completed[g]]

\* How many waiters a signal takes from the front of the queue: every expired
\* one it passes, which times out, and the first that is not, or all of them.
TakenCount(q, broadcast) ==
  LET live == {i \in DOMAIN q : ~WaiterExpired(q[i])}
  IN  IF broadcast \/ live = {} THEN Len(q)
      ELSE CHOOSE i \in live : \A j \in live : i <= j

ConditionKeys(c, n) ==
  [i \in 1 .. n |-> ConditionWaitKey(c, conditions[c].waiters[i].thread)]

\* Variant for the checks: expired waiters use the signal up.
SignalTakesExpired(h, c, broadcast, later) ==
  LET q == conditions[c].waiters
      n == IF broadcast THEN Len(q) ELSE IF q = <<>> THEN 0 ELSE 1
  IN  /\ MayCall(h, NoCall)
      /\ conditions[c].live
      /\ conditions' = [conditions EXCEPT
                          ![c].waiters = SubSeq(q, n + 1, Len(q))]
      /\ completed' = Completions(c, n)
      /\ sched' = WakeInTurn(sched, ConditionKeys(c, n), later)
      /\ now' = later
      /\ UNCHANGED <<call, mutexes>>

\* Variant for the checks: an expired waiter is taken off the queue and its
\* wait is not recorded as completed.
SignalDropsExpired(h, c, broadcast, later) ==
  LET q == conditions[c].waiters
      n == TakenCount(q, broadcast)
  IN  /\ MayCall(h, NoCall)
      /\ conditions[c].live
      /\ conditions' = [conditions EXCEPT
                          ![c].waiters = SubSeq(q, n + 1, Len(q))]
      /\ completed' = [g \in Handles |-> IF Completions(c, n)[g].timed_out
                                         THEN completed[g]
                                         ELSE Completions(c, n)[g]]
      /\ sched' = WakeInTurn(sched, ConditionKeys(c, n), later)
      /\ now' = later
      /\ UNCHANGED <<call, mutexes>>

\* The waits taken off the queue are completed, then their threads are woken.
SignalCondition(h, c, broadcast, later) ==
  LET q == conditions[c].waiters
      n == TakenCount(q, broadcast)
  IN  /\ MayCall(h, NoCall)
      /\ conditions[c].live
      /\ conditions' = [conditions EXCEPT
                          ![c].waiters = SubSeq(q, n + 1, Len(q))]
      /\ completed' = Completions(c, n)
      /\ sched' = WakeInTurn(sched, ConditionKeys(c, n), later)
      /\ now' = later
      /\ UNCHANGED <<call, mutexes>>

-----------------------------------------------------------------------------
(* PthreadService::ExitCurrent: the exiting thread drops the wait it had    *)
(* been woken from, hands on every mutex it owns, and leaves.               *)

\* Variant for the checks: the mutexes of the thread stay locked.
ExitKeepsMutexes(h) ==
  /\ sched.current = h /\ sched.state[h] = "running"
  /\ sched' = ExitCurrent(sched)
  /\ call' = [call EXCEPT ![h] = NoCall]
  /\ UNCHANGED <<now, mutexes, conditions, completed>>

\* Mutex m after the completed wait of h that named it is dropped.
Dropped(h, m) ==
  IF completed[h].mutex = m /\ MutexLive(m)
  THEN [mutexes[m] EXCEPT !.condition_waiter_count = IF @ > 0 THEN @ - 1 ELSE @]
  ELSE mutexes[m]

Owned(h) == {m \in Mutexes : mutexes[m].owner = h}

\* The keys of the waiters that inherit, in the order of mutexes_.
ExitKeys(h) ==
  LET handed == InOrder({m \in Owned(h) : mutexes[m].waiters # <<>>})
  IN  [i \in DOMAIN handed |->
         MutexWaitKey(handed[i], Release(mutexes[handed[i]], h).owner)]

Exit(h) ==
  /\ sched.current = h /\ sched.state[h] = "running"
  /\ conditions' =
       [c \in Conditions |->
          IF completed[h].condition = c /\ conditions[c].live
          THEN [conditions[c] EXCEPT !.active_waiter_count =
                                       IF @ > 0 THEN @ - 1 ELSE @]
          ELSE conditions[c]]
  /\ mutexes' = [m \in Mutexes |-> IF m \in Owned(h)
                                   THEN Release(Dropped(h, m), h)
                                   ELSE Dropped(h, m)]
  /\ completed' = [completed EXCEPT ![h] = NoCompletion]
  /\ sched' = ExitCurrent(WakeInTurn(sched, ExitKeys(h), now))
  /\ call' = [call EXCEPT ![h] = NoCall]
  /\ UNCHANGED now

-----------------------------------------------------------------------------
(* A relative timeout, or an absolute one turned into what remains of it,   *)
(* becomes a deadline on entry.  The sum saturates: MaxTime stands for the   *)
(* largest 64-bit reading.                                                  *)
DeadlineAfter(t) == IF t > MaxTime - now THEN MaxTime ELSE now + t
Deadlines == {NoDeadline} \cup {DeadlineAfter(t) : t \in Timeouts}

Objects == UNCHANGED <<mutexes, conditions, completed>>

Operation(h) ==
  \/ Relinquish(h) /\ Objects
  \/ \E m \in Mutexes, t \in MutexTypes : CreateMutex(h, m, t)
  \/ \E m \in Mutexes : DestroyMutex(h, m)
  \/ \E m \in Mutexes, try_only \in BOOLEAN : LockMutex(h, m, try_only)
  \/ \E m \in Mutexes : UnlockMutex(h, m)
  \/ \E c \in Conditions : CreateCondition(h, c)
  \/ \E c \in Conditions : DestroyCondition(h, c)
  \/ \E c \in Conditions, m \in Mutexes, d \in Deadlines : StartWait(h, c, m, d)
  \/ \E c \in Conditions, m \in Mutexes : FinishWait(h, c, m)
  \/ \E c \in Conditions, broadcast \in BOOLEAN, later \in LaterTimes :
       SignalCondition(h, c, broadcast, later)
  \/ Exit(h)

Next ==
  \/ Dispatch /\ Objects
  \/ Tick /\ Objects
  \/ \E h \in Handles : Operation(h)

Spec == Init /\ [][Next]_vars

\* The host loop selects again and again and the clock runs; a resumed thread
\* repeats the call it was blocked in.
HostFairness ==
  /\ WF_vars(Dispatch /\ Objects)
  /\ WF_vars(Tick /\ Objects)
  /\ \A h \in Handles :
       WF_vars(\/ \E m \in Mutexes : call[h] = LockCall(m) /\ LockMutex(h, m, FALSE)
               \/ \E c \in Conditions, m \in Mutexes : FinishWait(h, c, m))

\* What only the guest program can promise: its threads come back to the host,
\* and a thread that owns a mutex lets go of it if it runs often enough.
GuestFairness ==
  \A h \in Handles :
    /\ WF_vars(Relinquish(h) /\ Objects)
    /\ \A m \in Mutexes :
         /\ SF_vars(UnlockMutex(h, m))
         /\ SF_vars(UnlockMutex(h, m) /\ mutexes[m].recursion_count = 1)

FairSpec == Spec /\ HostFairness /\ GuestFairness

-----------------------------------------------------------------------------
(* Properties.                                                             *)

WaitKeys ==
  {ThreadExitWaitKey(h) : h \in Handles}
  \cup {MutexWaitKey(m, h) : m \in Mutexes, h \in Handles}
  \cup {ConditionWaitKey(c, h) : c \in Conditions, h \in Handles}

Elements(q) == {q[i] : i \in DOMAIN q}
WaitingThreads(c) == {w.thread : w \in Elements(conditions[c].waiters)}

MutexRecords ==
  [type : MutexTypes \cup {"none"}, owner : Handles \cup {NoThread},
   recursion_count : 0 .. MaxRecursion, waiters : Seq(Handles),
   granted_waiters : SUBSET Handles, condition_waiter_count : 0 .. MaxHandle]

Waiters ==
  [thread : Handles, mutex : Mutexes, deadline : Nat \cup {NoDeadline}]
ConditionRecords ==
  [live : BOOLEAN, waiters : Seq(Waiters), active_waiter_count : 0 .. MaxHandle]

CompletedWaits ==
  [condition : Conditions, mutex : Mutexes, timed_out : BOOLEAN]

Calls ==
  {NoCall} \cup {LockCall(m) : m \in Mutexes}
  \cup {WaitCall(c, m) : c \in Conditions, m \in Mutexes}

TypeOK ==
  /\ SchedulerOK(sched, WaitKeys)
  /\ now \in 0 .. MaxTime
  /\ call \in [Handles -> Calls]
  /\ mutexes \in [Mutexes -> MutexRecords]
  /\ conditions \in [Conditions -> ConditionRecords]
  /\ completed \in [Handles -> CompletedWaits \cup {NoCompletion}]

\* A mutex is handed over whole: its queue waits only while it is owned, its
\* owner is alive, and an owner that was handed it is awake and will repeat the
\* call that takes it.  An unlock or an exit never leaves the mutex free with
\* threads queued, never hands it to a thread that is gone, and never to one
\* that does not learn of it.
MutexHandedOver ==
  \A m \in Mutexes :
    LET x == mutexes[m]
    IN  /\ x.owner = NoThread <=> x.recursion_count = 0
        /\ x.waiters # <<>> => x.owner # NoThread
        /\ x.owner # NoThread =>
             sched.state[x.owner] \in {"ready", "running", "blocked"}
        /\ x.granted_waiters \subseteq {x.owner}
        /\ \A h \in x.granted_waiters :
             /\ sched.state[h] \in {"ready", "running"}
             /\ call[h] \in {LockCall(m)} \cup {WaitCall(c, m) : c \in Conditions}

\* The queue of a mutex and the threads blocked on it are the same threads,
\* each once: none sleeps without being queued (it would never be woken), none
\* is queued without sleeping (it would be handed a mutex it does not expect).
WaitersAreBlocked ==
  \A m \in Mutexes :
    LET q == mutexes[m].waiters
    IN  /\ \A i, j \in DOMAIN q : q[i] = q[j] => i = j
        /\ Elements(q) =
             {h \in Handles : sched.wait_key[h] = MutexWaitKey(m, h)}

\* The counts that keep a condition and a mutex from being destroyed are
\* exactly the waits in progress on them, queued or already signalled, also
\* when waits time out, lose the race for the mutex, or die with their thread.
WaitsKeepObjectsAlive ==
  /\ \A c \in Conditions :
       conditions[c].active_waiter_count =
         Len(conditions[c].waiters)
         + Cardinality({h \in Handles : completed[h].condition = c})
  /\ \A m \in Mutexes :
       mutexes[m].condition_waiter_count =
         Cardinality({h \in Handles : completed[h].mutex = m})
         + Cardinality({e \in Conditions \X (1 .. MaxHandle) :
                          /\ e[2] \in DOMAIN conditions[e[1]].waiters
                          /\ conditions[e[1]].waiters[e[2]].mutex = m})

\* Whenever a thread inside a condition wait is awake, the call it repeats
\* finds why: a signal completed the wait, or its deadline woke it and it is
\* still queued.  Otherwise the repeated call would fail with the mutex
\* unlocked, and a signal that found no waiter would be lost.
WakeupHasReason ==
  \A h \in Handles, c \in Conditions, m \in Mutexes :
    (call[h] = WaitCall(c, m) /\ sched.state[h] \in {"ready", "running"}) =>
      \/ completed[h].condition = c /\ completed[h].mutex = m
      \/ /\ sched.timed_out[h] = ConditionWaitKey(c, h)
         /\ \E w \in Elements(conditions[c].waiters) :
              w.thread = h /\ w.mutex = m /\ w.deadline <= now

\* A condition wait returns to its thread only with its mutex locked by that
\* thread, once, however the wait ended.
WaitReturnsLocked ==
  [][\A h \in Handles, c \in Conditions, m \in Mutexes :
       (call[h] = WaitCall(c, m) /\ call'[h] = NoCall
          /\ sched'.state[h] = "running") =>
         /\ mutexes'[m].owner = h
         /\ mutexes'[m].recursion_count = 1
         /\ h \notin mutexes'[m].granted_waiters]_vars

\* A signal is not wasted: when it takes waits off the queue, the first one
\* whose deadline has not passed is among them, and each is completed as
\* signalled or as timed out according to its deadline, also when a timeout has
\* already woken its thread.
SignalReachesWaiter ==
  [][\A c \in Conditions :
       LET q     == conditions[c].waiters
           live  == {i \in DOMAIN q : ~WaiterExpired(q[i])}
           taken == {i \in DOMAIN q : /\ q[i].thread # sched.current
                                      /\ q[i].thread \notin WaitingThreads(c)'}
       IN  taken # {} =>
             /\ \A i \in taken :
                  completed'[q[i].thread] =
                    [condition |-> c, mutex |-> q[i].mutex,
                     timed_out |-> i \notin live]
             /\ live # {} => \E i \in taken : \A j \in live : i \in live /\ i <= j
    ]_vars

\* A thread that asks for a mutex gets an answer: no waiter is overtaken for
\* ever, and none waits for itself, as long as the owners unlock.
LockAnswered ==
  \A h \in Handles, m \in Mutexes :
    call[h] = LockCall(m) ~> call[h] # LockCall(m)

\* A condition wait with a deadline returns, signalled or not, also when it has
\* to queue for the mutex afterwards.
TimedWaitReturns ==
  \A h \in Handles, c \in Conditions :
    (\E w \in Elements(conditions[c].waiters) :
        w.thread = h /\ w.deadline # NoDeadline /\ sched.state[h] # "exited")
      ~> call[h] = NoCall
=============================================================================

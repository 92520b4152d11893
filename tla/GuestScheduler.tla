--------------------------- MODULE GuestScheduler ---------------------------
(***************************************************************************)
(* kernel::GuestScheduler as a component: any sequence of calls that the   *)
(* host loop (SelectNext), the running guest thread (yield, block, join,   *)
(* exit, consume a timeout) and whoever signals it (wake) may make, while   *)
(* the monotonic clock advances between the calls.  Each call holds mutex_  *)
(* from start to end, so each is one step.                                 *)
(***************************************************************************)
EXTENDS SchedulerState

CONSTANTS ServiceKeys,  \* the wait keys the kernel services block on
          MaxTime       \* the bound on the clock

ASSUME MaxTimeAssumption == MaxTime \in Nat
ASSUME ServiceKeysAssumption ==
  NoKey \notin ServiceKeys /\
  \A h \in Handles : ThreadExitWaitKey(h) \notin ServiceKeys

VARIABLES sched,        \* the scheduler
          now,          \* clock_.MonotonicNanoseconds()
          allocated     \* how many handles handles_.Insert has given out

vars == <<sched, now, allocated>>

WaitKeys == ServiceKeys \cup {ThreadExitWaitKey(h) : h \in Handles}

Init == /\ sched = EmptyScheduler
        /\ now = 0
        /\ allocated = 0

-----------------------------------------------------------------------------
(* Handles are given out in increasing order and never again, also after   *)
(* DiscardReadyThread removed the object.                                   *)

Create ==
  /\ allocated < MaxHandle
  /\ allocated' = allocated + 1
  /\ sched' = CreateThread(sched, allocated + 1)
  /\ UNCHANGED now

Discard(h) ==
  /\ sched.state[h] = "ready"
  /\ sched' = DiscardReadyThread(sched, h)
  /\ UNCHANGED <<now, allocated>>

Select ==
  /\ sched.current = NoThread
  /\ sched' = SelectNext(sched, now)
  /\ UNCHANGED <<now, allocated>>

Yield ==
  /\ CanLeave(sched)
  /\ sched' = YieldCurrent(sched)
  /\ UNCHANGED <<now, allocated>>

\* A service blocks the caller, with or without a deadline.  A deadline that
\* has passed by the time the thread blocks is allowed: the next wake-up scan
\* ends the wait.
Block(key, deadline) ==
  /\ CanLeave(sched)
  /\ sched' = BlockCurrentUntil(sched, key, deadline)
  /\ UNCHANGED <<now, allocated>>

Wake(key, maximum_count) ==
  /\ sched' = WakeBlockedThreads(sched, key, maximum_count, now)
  /\ UNCHANGED <<now, allocated>>

WakeOne(h, key) ==
  /\ sched' = WakeBlockedThread(sched, h, key, now)
  /\ UNCHANGED <<now, allocated>>

Join(h) ==
  /\ JoinMustWait(sched, h)
  /\ sched' = JoinThread(sched, h)
  /\ UNCHANGED <<now, allocated>>

Exit ==
  /\ CanLeave(sched)
  /\ sched' = ExitCurrent(sched)
  /\ UNCHANGED <<now, allocated>>

ConsumeTimeout(key) ==
  /\ CurrentThreadTimedOut(sched, key)
  /\ sched' = ConsumeCurrentThreadTimeout(sched, key)
  /\ UNCHANGED <<now, allocated>>

Tick ==
  /\ now < MaxTime
  /\ now' = now + 1
  /\ UNCHANGED <<sched, allocated>>

Deadlines == (0 .. MaxTime) \cup {NoDeadline}

Next ==
  \/ Create
  \/ \E h \in Handles : Discard(h)
  \/ Select
  \/ Yield
  \/ \E key \in ServiceKeys, d \in Deadlines : Block(key, d)
  \/ \E key \in ServiceKeys, n \in Handles : Wake(key, n)
  \/ \E h \in Handles, key \in ServiceKeys : WakeOne(h, key)
  \/ \E h \in Handles : Join(h)
  \/ Exit
  \/ \E key \in ServiceKeys : ConsumeTimeout(key)
  \/ Tick

Spec == Init /\ [][Next]_vars

\* The title loop calls RunNext, and so SelectNext, again and again.  The
\* clock keeps running.
HostFairness == WF_vars(Select) /\ WF_vars(Tick)

\* What the host cannot force: that the guest code of a running thread comes
\* back, by yielding, blocking, joining or exiting.
GuestComesBack ==
  WF_vars(\/ Yield \/ Exit
          \/ \E key \in ServiceKeys, d \in Deadlines : Block(key, d)
          \/ \E h \in Handles : Join(h))

FairSpec == Spec /\ HostFairness /\ GuestComesBack

-----------------------------------------------------------------------------
(* Properties.                                                             *)

TypeOK ==
  /\ sched \in SchedulerType(WaitKeys)
  /\ now \in 0 .. MaxTime
  /\ allocated \in 0 .. MaxHandle

\* No thread is lost by the ready queue or queued twice (QueueExact), by any
\* sequence of create, discard, select, yield, block, wake, join, exit and
\* timeout.
ReadyQueueExact == QueueExact(sched)

\* current_thread_ is the one thread in kRunning, if any (OneRunning).
CurrentIsRunning == OneRunning(sched)

\* Wait key, deadline and pending timeout agree with the state (WaitsOK).
WaitBookkeeping == WaitsOK(sched)

\* No joiner waits for a thread that has exited (NoJoinerMissed).
JoinersWoken == NoJoinerMissed(sched)

\* Handles are not reused: whatever was not allocated yet is absent.
UnallocatedAbsent ==
  \A h \in Handles : h > allocated => sched.state[h] = "absent"

\* When a wait's deadline has come, the thread leaves the wait as timed out,
\* also when a wake for its key arrives at the same instant or SelectNext runs it
\* at once; and it is marked timed out only then, with the key it was waiting on.
TimeoutWins ==
  [][\A h \in Handles :
       (sched.state[h] = "blocked" /\ sched'.state[h] # "blocked") =>
          sched'.timed_out[h] =
            IF h \in Expired(sched, now) THEN sched.wait_key[h] ELSE NoKey]_vars

\* No ready thread starves (it runs, or its creator discards it), as long as
\* running threads come back to the host.
ReadyThreadRuns ==
  \A h \in Handles :
    sched.state[h] = "ready" ~> sched.state[h] \in {"running", "absent"}

\* A wait with a deadline ends, whether or not anybody signals it.
TimedWaitEnds ==
  \A h \in Handles :
    sched.deadline[h] # NoDeadline ~> sched.state[h] # "blocked"
=============================================================================

------------------------------ MODULE Semaphore ------------------------------
(***************************************************************************)
(* kernel::SemaphoreService over the guest scheduler.  All the waiters of a *)
(* semaphore sleep under one wait key.  A signal adds to the count and      *)
(* wakes them all; each repeats its wait, takes its share if the count is   *)
(* still large enough and sleeps again if it is not.  KernelWaits puts the   *)
(* service beside the others that share the scheduler.                       *)
(***************************************************************************)
EXTENDS GuestThreads

CONSTANTS Semaphores,   \* the semaphore handles, never reused
          MaxCount      \* the largest maximum_count

ASSUME SemaphoreAssumption ==
  /\ Semaphores \subseteq Nat \ {0}
  /\ MaxCount \in Nat \ {0}

VARIABLE semaphores     \* the semaphore objects

SemaphoreWaitKey(s) == <<"semaphore", s>>
SemaphoreCall(s, n) == <<"semaphore", s, n>>

NewSemaphore == [state |-> "new", count |-> 0, maximum_count |-> 0]

SemaphoreInit == semaphores = [s \in Semaphores |-> NewSemaphore]

SemaphoreLive(s) == semaphores[s].state = "live"

-----------------------------------------------------------------------------
(* The service's operations.  A call whose argument the code refuses leaves  *)
(* everything as it is and is not a step.                                    *)

CreateSemaphore(h, s, initial_count, maximum_count) ==
  /\ MayCall(h, NoCall)
  /\ semaphores[s].state = "new"
  /\ initial_count <= maximum_count
  /\ semaphores' = [semaphores EXCEPT
                      ![s] = [state |-> "live", count |-> initial_count,
                              maximum_count |-> maximum_count]]
  /\ UNCHANGED <<sched, now, call>>

DeleteSemaphore(h, s) ==
  /\ MayCall(h, NoCall)
  /\ SemaphoreLive(s)
  /\ semaphores' = [semaphores EXCEPT ![s] = [NewSemaphore EXCEPT !.state = "deleted"]]
  /\ sched' = WakeAll(sched, SemaphoreWaitKey(s), now)
  /\ UNCHANGED <<now, call>>

\* Variant for the checks: the limit is compared with the signal alone.
SignalOverflows(h, s, n) ==
  /\ MayCall(h, NoCall)
  /\ SemaphoreLive(s)
  /\ n <= semaphores[s].maximum_count
  /\ semaphores' = [semaphores EXCEPT ![s].count = @ + n]
  /\ sched' = WakeAll(sched, SemaphoreWaitKey(s), now)
  /\ UNCHANGED <<now, call>>

\* Variant for the checks: a signal of n wakes n waiters.
SignalWakesCount(h, s, n) ==
  /\ MayCall(h, NoCall)
  /\ SemaphoreLive(s)
  /\ n <= semaphores[s].maximum_count - semaphores[s].count
  /\ semaphores' = [semaphores EXCEPT ![s].count = @ + n]
  /\ sched' = WakeBlockedThreads(sched, SemaphoreWaitKey(s), n, now)
  /\ UNCHANGED <<now, call>>

SignalSemaphore(h, s, n) ==
  /\ MayCall(h, NoCall)
  /\ SemaphoreLive(s)
  /\ n <= semaphores[s].maximum_count - semaphores[s].count
  /\ semaphores' = [semaphores EXCEPT ![s].count = @ + n]
  /\ sched' = WakeAll(sched, SemaphoreWaitKey(s), now)
  /\ UNCHANGED <<now, call>>

\* The outcome of Poll: kNotFound also for a semaphore deleted meanwhile.
TryAcquire(s, n) ==
  CASE ~SemaphoreLive(s) -> "kNotFound"
    [] SemaphoreLive(s) /\ n > semaphores[s].maximum_count -> "kInvalidArgument"
    [] OTHER -> IF semaphores[s].count < n THEN "kBusy" ELSE "kOk"

AfterTryAcquire(s, n) ==
  IF TryAcquire(s, n) = "kOk" THEN [semaphores EXCEPT ![s].count = @ - n]
                              ELSE semaphores

PollSemaphore(h, s, n) ==
  /\ MayCall(h, NoCall)
  /\ TryAcquire(s, n) = "kOk"
  /\ semaphores' = AfterTryAcquire(s, n)
  /\ UNCHANGED <<sched, now, call>>

\* The first wait and every repeated one.
WaitSemaphore(h, s, n) ==
  LET status == IF TryAcquire(s, n) = "kBusy" THEN "kWouldBlock"
                ELSE TryAcquire(s, n)
  IN  /\ MayCall(h, SemaphoreCall(s, n))
      /\ semaphores' = AfterTryAcquire(s, n)
      /\ sched' = IF status = "kWouldBlock"
                  THEN BlockCurrent(sched, SemaphoreWaitKey(s)) ELSE sched
      /\ call' = CallAfter(h, SemaphoreCall(s, n), status)
      /\ UNCHANGED now

-----------------------------------------------------------------------------
Needs == 1 .. MaxCount

SemaphoreOperation(h, s) ==
  \/ \E i \in 0 .. MaxCount, m \in Needs : CreateSemaphore(h, s, i, m)
  \/ DeleteSemaphore(h, s)
  \/ \E n \in Needs : SignalSemaphore(h, s, n)
  \/ \E n \in Needs : PollSemaphore(h, s, n)
  \/ \E n \in Needs : WaitSemaphore(h, s, n)

-----------------------------------------------------------------------------
(* Properties.                                                             *)

SemaphoreRecords ==
  [state : {"new", "live", "deleted"}, count : Nat, maximum_count : 0 .. MaxCount]

SemaphoreTypeOK ==
  /\ semaphores \in [Semaphores -> SemaphoreRecords]
  /\ \A s \in Semaphores : semaphores[s].count <= semaphores[s].maximum_count

\* No wake-up is lost, whatever was signalled, taken or barged past meanwhile:
\* a thread sleeps on a semaphore only while it exists and its count is below
\* what the thread needs, and only in the wait it will repeat.
NoSleeperBesideCount ==
  \A h \in Handles, s \in Semaphores :
    sched.wait_key[h] = SemaphoreWaitKey(s) =>
      /\ SemaphoreLive(s)
      /\ \E n \in Needs : call[h] = SemaphoreCall(s, n) /\ semaphores[s].count < n
=============================================================================

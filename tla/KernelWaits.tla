---------------------------- MODULE KernelWaits ------------------------------
(***************************************************************************)
(* The services whose waiters are woken all together and look again for     *)
(* themselves: semaphores, event flags and C++ guards.  They share one       *)
(* scheduler and the same threads, which go from one object to the next, so  *)
(* a wake by one service must reach its own sleepers and nobody else's.      *)
(***************************************************************************)
EXTENDS Semaphore, EventFlag, CxaGuard

vars == <<sched, now, call, semaphores, flags, words, owners>>

Init == Started /\ SemaphoreInit /\ EventFlagInit /\ GuardInit

Objects == UNCHANGED <<semaphores, flags, words, owners>>

Next ==
  \/ Dispatch /\ Objects
  \/ \E h \in Handles : Relinquish(h) /\ Objects
  \/ /\ \E h \in Handles, s \in Semaphores : SemaphoreOperation(h, s)
     /\ UNCHANGED <<flags, words, owners>>
  \/ /\ \E h \in Handles, f \in Flags : EventFlagOperation(h, f)
     /\ UNCHANGED <<semaphores, words, owners>>
  \/ /\ \E h \in Handles, a \in Guards : GuardOperation(h, a)
     /\ UNCHANGED <<semaphores, flags>>

Spec == Init /\ [][Next]_vars

-----------------------------------------------------------------------------
(* Properties.                                                             *)

WaitKeys ==
  {SemaphoreWaitKey(s) : s \in Semaphores}
  \cup {EventFlagWaitKey(f) : f \in Flags}
  \cup {GuardWaitKey(a) : a \in Guards}
  \cup {ThreadExitWaitKey(h) : h \in Handles}

Calls ==
  {NoCall}
  \cup {SemaphoreCall(s, n) : s \in Semaphores, n \in Needs}
  \cup {EventFlagCall(f, p, mode) : f \in Flags, p \in Patterns, mode \in Modes}
  \cup {AcquireCall(a) : a \in Guards}

TypeOK ==
  /\ SchedulerOK(sched, WaitKeys)
  /\ now \in 0 .. MaxTime
  /\ call \in [Handles -> Calls]
  /\ SemaphoreTypeOK
  /\ EventFlagTypeOK
  /\ GuardTypeOK

\* No wake-up is lost in any of the services: whoever sleeps on a semaphore, an
\* event flag or a guard has reason to, whatever the others signalled, took,
\* cleared, aborted or deleted meanwhile; so the scheduler need only run the
\* threads it has woken for every wait that can return to return.
NoLostWakeup == NoSleeperBesideCount /\ NoSleeperBesideBits /\ SleeperHasOwner
=============================================================================

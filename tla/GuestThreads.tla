---------------------------- MODULE GuestThreads ----------------------------
(***************************************************************************)
(* The guest threads a kernel service serves.  Guest threads run one at a  *)
(* time on one host thread; the host loop selects the next one when the     *)
(* running one has blocked, yielded or exited.  A service call runs to its  *)
(* end without another guest thread in between, so a call is one step.      *)
(*                                                                         *)
(* A call that must wait blocks its thread in the scheduler and answers     *)
(* kWouldBlock.  The thread makes the same call again when it is selected   *)
(* after its wake-up: NativeHleTrampoline::Dispatch keeps the arguments and *)
(* Resume dispatches them again (the exports that answer kBlocked), or the  *)
(* caller repeats the call itself.  call[h] is that call, NoCall when       *)
(* thread h is not in a call.                                               *)
(***************************************************************************)
EXTENDS SchedulerState

CONSTANT MaxTime    \* the bound on the clock

ASSUME MaxTimeAssumption == MaxTime \in Nat

VARIABLES sched,    \* the scheduler
          now,      \* clock_.MonotonicNanoseconds()
          call      \* the call each thread will repeat

NoCall == <<>>

\* MaxHandle threads, created in handle order, before the first selection.
Started ==
  /\ sched = [EmptyScheduler EXCEPT !.state = [h \in Handles |-> "ready"],
                                    !.ready = [i \in Handles |-> i]]
  /\ now = 0
  /\ call = [h \in Handles |-> NoCall]

\* Thread h executes and may make the call c: it is in no call, or c is the
\* call it was blocked in.
MayCall(h, c) ==
  /\ sched.current = h
  /\ sched.state[h] = "running"
  /\ call[h] \in {NoCall, c}

\* What the call c by h leaves in call: c itself when it answered kWouldBlock.
CallAfter(h, c, status) ==
  [call EXCEPT ![h] = IF status = "kWouldBlock" THEN c ELSE NoCall]

\* The clock while a call reads it again: it may have moved on since.
LaterTimes == now .. MaxTime

-----------------------------------------------------------------------------
(* Steps of the host and of a thread that is in no call.                   *)

Dispatch ==
  /\ sched.current = NoThread
  /\ sched' = SelectNext(sched, now)
  /\ UNCHANGED <<now, call>>

Relinquish(h) ==
  /\ MayCall(h, NoCall)
  /\ sched' = YieldCurrent(sched)
  /\ UNCHANGED <<now, call>>

Tick ==
  /\ now < MaxTime
  /\ now' = now + 1
  /\ UNCHANGED <<sched, call>>
=============================================================================

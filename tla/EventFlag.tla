------------------------------ MODULE EventFlag ------------------------------
(***************************************************************************)
(* kernel::EventFlagService over the guest scheduler.  The waiters of a     *)
(* flag sleep under one wait key.  A set adds bits and wakes them all; each  *)
(* repeats its wait, which looks at the bits again and may clear some, so a  *)
(* waiter that runs later may find its bits gone and sleep again.            *)
(* KernelWaits puts the service beside the others that share the scheduler.  *)
(***************************************************************************)
EXTENDS GuestThreads

CONSTANTS Flags,       \* the event flag handles, never reused
          Bits,        \* the bits of a pattern
          WaitModes    \* the wait_mode arguments of the guest

ASSUME EventFlagAssumption ==
  /\ Flags \subseteq Nat \ {0}
  /\ IsFiniteSet(Bits)
  /\ WaitModes \subseteq Nat

VARIABLE flags         \* the event flag objects

EventFlagWaitKey(f) == <<"event_flag", f>>
EventFlagCall(f, pattern, mode) == <<"event_flag", f, pattern, mode>>

NewFlag == [state |-> "new", bits |-> {}]

EventFlagInit == flags = [f \in Flags |-> NewFlag]

EventFlagLive(f) == flags[f].state = "live"

-----------------------------------------------------------------------------
(* The wait mode: the low four bits say all or any, the next four what a     *)
(* successful wait clears, and the mask 0x33 leaves no other bit.            *)

Condition(mode) == mode % 16
ClearMode(mode) == (mode \div 16) % 16

DecodeWaitMode(mode) ==
  /\ Condition(mode) \in {1, 2}
  /\ ClearMode(mode) \in {0, 1, 2}
  /\ mode < 64

Satisfied(bits, pattern, mode) ==
  IF Condition(mode) = 1 THEN pattern \subseteq bits
                         ELSE bits \cap pattern # {}

\* The bits after a poll.
Cleared(bits, pattern, mode) ==
  CASE ~Satisfied(bits, pattern, mode) \/ ClearMode(mode) = 0 -> bits
    [] Satisfied(bits, pattern, mode) /\ ClearMode(mode) = 1 -> {}
    [] OTHER -> bits \ pattern

-----------------------------------------------------------------------------
(* The service's operations.  A call the code refuses is not a step.         *)

CreateEventFlag(h, f, initial_pattern) ==
  /\ MayCall(h, NoCall)
  /\ flags[f].state = "new"
  /\ flags' = [flags EXCEPT ![f] = [state |-> "live", bits |-> initial_pattern]]
  /\ UNCHANGED <<sched, now, call>>

DeleteEventFlag(h, f) ==
  /\ MayCall(h, NoCall)
  /\ EventFlagLive(f)
  /\ flags' = [flags EXCEPT ![f] = [state |-> "deleted", bits |-> {}]]
  /\ sched' = WakeAll(sched, EventFlagWaitKey(f), now)
  /\ UNCHANGED <<now, call>>

SetEventFlag(h, f, pattern) ==
  /\ MayCall(h, NoCall)
  /\ EventFlagLive(f)
  /\ flags' = [flags EXCEPT ![f].bits = @ \cup pattern]
  /\ sched' = WakeAll(sched, EventFlagWaitKey(f), now)
  /\ UNCHANGED <<now, call>>

ClearEventFlag(h, f, mask) ==
  /\ MayCall(h, NoCall)
  /\ EventFlagLive(f)
  /\ flags' = [flags EXCEPT ![f].bits = @ \cap mask]
  /\ UNCHANGED <<sched, now, call>>

\* pattern is not empty and mode decodes: see EventFlagOperation.
FlagPollStatus(f, pattern, mode) ==
  CASE ~EventFlagLive(f) -> "kNotFound"
    [] OTHER -> IF Satisfied(flags[f].bits, pattern, mode) THEN "kOk" ELSE "kBusy"

AfterFlagPoll(f, pattern, mode) ==
  [flags EXCEPT ![f].bits = Cleared(@, pattern, mode)]

PollEventFlag(h, f, pattern, mode) ==
  /\ MayCall(h, NoCall)
  /\ EventFlagLive(f)
  /\ flags' = AfterFlagPoll(f, pattern, mode)
  /\ UNCHANGED <<sched, now, call>>

\* The first wait and every repeated one.
WaitEventFlag(h, f, pattern, mode) ==
  LET status == IF FlagPollStatus(f, pattern, mode) = "kBusy" THEN "kWouldBlock"
                ELSE FlagPollStatus(f, pattern, mode)
  IN  /\ MayCall(h, EventFlagCall(f, pattern, mode))
      /\ flags' = AfterFlagPoll(f, pattern, mode)
      /\ sched' = IF status = "kWouldBlock"
                  THEN BlockCurrent(sched, EventFlagWaitKey(f)) ELSE sched
      /\ call' = CallAfter(h, EventFlagCall(f, pattern, mode), status)
      /\ UNCHANGED now

-----------------------------------------------------------------------------
Patterns == SUBSET Bits \ {{}}
Modes == {mode \in WaitModes : DecodeWaitMode(mode)}

EventFlagOperation(h, f) ==
  \/ \E p \in SUBSET Bits : CreateEventFlag(h, f, p)
  \/ DeleteEventFlag(h, f)
  \/ \E p \in SUBSET Bits : SetEventFlag(h, f, p)
  \/ \E m \in SUBSET Bits : ClearEventFlag(h, f, m)
  \/ \E p \in Patterns, mode \in Modes : PollEventFlag(h, f, p, mode)
  \/ \E p \in Patterns, mode \in Modes : WaitEventFlag(h, f, p, mode)

-----------------------------------------------------------------------------
(* Properties.                                                             *)

EventFlagTypeOK ==
  flags \in [Flags -> [state : {"new", "live", "deleted"}, bits : SUBSET Bits]]

\* No wake-up is lost, whatever was set, cleared or taken by other waiters in
\* between: a thread sleeps on a flag that is live and whose bits do not
\* satisfy the wait it will repeat.
NoSleeperBesideBits ==
  \A h \in Handles, f \in Flags :
    sched.wait_key[h] = EventFlagWaitKey(f) =>
      /\ EventFlagLive(f)
      /\ \E p \in Patterns, mode \in Modes :
           /\ call[h] = EventFlagCall(f, p, mode)
           /\ ~Satisfied(flags[f].bits, p, mode)
=============================================================================

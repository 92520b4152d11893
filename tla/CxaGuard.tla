------------------------------ MODULE CxaGuard -------------------------------
(***************************************************************************)
(* The C++ static initialization guards: kernel::CxaGuardService and the    *)
(* HLE exports __cxa_guard_acquire, __cxa_guard_release and                  *)
(* __cxa_guard_abort.  A guard is known twice: as a word in guest memory     *)
(* that holds the complete and pending bits, and as an entry of owners_      *)
(* while a thread initializes.  An export reads the word, calls the service, *)
(* and writes the word, all before another guest thread runs.                *)
(***************************************************************************)
EXTENDS GuestThreads

CONSTANT Guards      \* the addresses of the guard words

ASSUME GuardsAssumption == Guards \subseteq Nat \ {0}

VARIABLES words,     \* the state in each guard word
          owners     \* owners_, NoThread when absent

GuardWaitKey(a) == <<"cxa-guard", a>>
AcquireCall(a) == <<"acquire", a>>

GuardInit ==
  /\ words = [a \in Guards |-> "clear"]
  /\ owners = [a \in Guards |-> NoThread]

-----------------------------------------------------------------------------
\* CxaGuardService::Acquire, given the complete bit of the word.
AcquireStatus(h, a) ==
  CASE words[a] = "complete" -> "kOk"
    [] words[a] # "complete" /\ owners[a] = NoThread -> "initialize"
    [] words[a] # "complete" /\ owners[a] = h -> "kOk"
    [] OTHER -> "kWouldBlock"

CxaGuardAcquire(h, a) ==
  LET status == AcquireStatus(h, a)
  IN  /\ MayCall(h, AcquireCall(a))
      /\ owners' = IF status = "initialize" THEN [owners EXCEPT ![a] = h] ELSE owners
      /\ words' = IF status = "initialize" THEN [words EXCEPT ![a] = "pending"]
                  ELSE words
      /\ sched' = IF status = "kWouldBlock"
                  THEN BlockCurrent(sched, GuardWaitKey(a)) ELSE sched
      /\ call' = CallAfter(h, AcquireCall(a), status)
      /\ UNCHANGED now

\* Variant for the checks: the fault leaves the owner in place.
AcquireFaultKeepsOwner(h, a) ==
  /\ MayCall(h, AcquireCall(a))
  /\ AcquireStatus(h, a) = "initialize"
  /\ owners' = [owners EXCEPT ![a] = h]
  /\ call' = CallAfter(h, AcquireCall(a), "kMemoryFault")
  /\ UNCHANGED <<sched, now, words>>

\* The word can be read and not written: the ownership
\* just taken is aborted, which wakes whoever sleeps on the guard.
AcquireFaults(h, a) ==
  /\ MayCall(h, AcquireCall(a))
  /\ AcquireStatus(h, a) = "initialize"
  /\ sched' = WakeAll(sched, GuardWaitKey(a), now)
  /\ call' = CallAfter(h, AcquireCall(a), "kMemoryFault")
  /\ UNCHANGED <<now, words, owners>>

\* CxaGuardService::Complete by thread h: a guard without an owner is completed
\* too, the guard of another thread is refused.
CompletedBy(h, a) ==
  /\ owners[a] \in {NoThread, h}
  /\ owners' = [owners EXCEPT ![a] = NoThread]
  /\ sched' = WakeAll(sched, GuardWaitKey(a), now)

\* The exports release (state complete) and abort (state clear).
CompleteGuard(h, a, state) ==
  /\ MayCall(h, NoCall)
  /\ CompletedBy(h, a)
  /\ words' = [words EXCEPT ![a] = state]
  /\ UNCHANGED <<now, call>>

-----------------------------------------------------------------------------
GuardOperation(h, a) ==
  \/ CxaGuardAcquire(h, a)
  \/ AcquireFaults(h, a)
  \/ \E state \in {"complete", "clear"} : CompleteGuard(h, a, state)

-----------------------------------------------------------------------------
(* Properties.                                                             *)

GuardTypeOK ==
  /\ words \in [Guards -> {"clear", "pending", "complete"}]
  /\ owners \in [Guards -> Handles \cup {NoThread}]

\* The guest's word and the service's entry agree: the word says pending
\* exactly while a thread owns the initialization, so a thread that finds the
\* complete bit never runs beside one that still initializes.
WordAgreesWithOwner ==
  \A a \in Guards : words[a] = "pending" <=> owners[a] # NoThread

\* No wake-up is lost: a thread sleeps on a guard only while another thread
\* owns the initialization, through releases, aborts and faults.
SleeperHasOwner ==
  \A h \in Handles, a \in Guards :
    sched.wait_key[h] = GuardWaitKey(a) =>
      call[h] = AcquireCall(a) /\ owners[a] \notin {NoThread, h}
=============================================================================

---------------------------- MODULE TitleSession ----------------------------
(***************************************************************************)
(* The life of a guest process: runtime::TitleSession, the process launcher *)
(* that runs its initialisers and starts main, the thread runner that gives *)
(* guest threads the processor one slice at a time, and the exit callbacks  *)
(* ProcessLifecycleService keeps.                                           *)
(*                                                                         *)
(* Every call of the life cycle (initialiser, main, exit callback,          *)
(* finaliser) is a guest thread of its own, served by the same scheduler as *)
(* the threads guest code creates.  TitleSession::Run is a loop of slices.  *)
(* BeginSlice is NativeGuestThreadRunner::RunNext up to the jump into guest *)
(* code; the guest's calls are steps of their own; the step that ends the   *)
(* slice is the rest of RunNext together with what the session does with    *)
(* its result.  One host thread does all of it.                            *)
(*                                                                         *)
(* executing is the thread whose code is in the executor.  It differs from  *)
(* the scheduler's current thread after pthread_exit and after a            *)
(* pthread_join that had to wait: both take the thread off the scheduler    *)
(* and answer kOk, so the guest code goes on.                               *)
(*                                                                         *)
(* Left out: the arguments and addresses of the calls, the exit value, the  *)
(* slice budgets of Run, HLE setup, and exit_request_, which nothing reads. *)
(* kExecutionLaneBusy cannot occur with one host thread, and SetThreadStack *)
(* cannot fail on a thread that was just registered.                        *)
(***************************************************************************)
EXTENDS SchedulerState

LOCAL INSTANCE SequencesExt

CONSTANTS MaxInitializers,   \* the longest plan of initialisers ...
          MaxFinalizers,     \* ... and of finalisers
          MaxCallbacks,      \* kMaximumProcessExitCallbacks
          MaxGuestCalls      \* the bound on the calls guest code makes

ASSUME SessionAssumption ==
  {MaxInitializers, MaxFinalizers, MaxCallbacks, MaxGuestCalls} \subseteq Nat

VARIABLES phase,          \* phase_
          plan,           \* the numbers of calls in lifecycle_plan_, NoPlan
                          \* until Configure
          attached,       \* module_runtime_ is set
          sched,          \* the guest scheduler
          threads,        \* the handles in the runner's threads_, each owning
                          \* its stack
          entry,          \* the call each thread runs
          executing,      \* the thread inside the executor
          startup,        \* startup_: next_lifecycle_call, active_initializer
          main_thread,    \* main_thread_
          finalization,   \* finalization_calls_, next_finalization_call_,
                          \* active_finalizer_
          atexit,         \* atexit_callbacks_, as registration numbers
          cxa,            \* cxa_destructors_, as registration numbers
          guest_calls,    \* calls made by guest code
          ended,          \* history: the life-cycle calls that came to their
                          \* end, in order
          owed            \* history: the callbacks registered when main ended

session == <<phase, startup, main_thread, finalization, ended, owed>>
runner == <<sched, threads, entry>>
vars == <<phase, plan, attached, sched, threads, entry, executing, startup,
          main_thread, finalization, atexit, cxa, guest_calls, ended, owed>>

Call(kind, index) == [kind |-> kind, index |-> index]
MainCall == Call("main", 1)
NoPlan == [initializers |-> -1, finalizers |-> -1]
NoStartup == [next |-> 0, active |-> NoThread]
NoFinalization == [calls |-> <<>>, next |-> 0, active |-> NoThread]
WaitKey == <<"wait", 0>>
Live == {"initializing", "running", "finalizing"}

Init ==
  /\ phase = "created"
  /\ plan = NoPlan
  /\ attached = FALSE
  /\ sched = EmptyScheduler
  /\ threads = {}
  /\ entry = [h \in Handles |-> Call("none", 0)]
  /\ executing = NoThread
  /\ startup = NoStartup
  /\ main_thread = NoThread
  /\ finalization = NoFinalization
  /\ atexit = <<>>
  /\ cxa = <<>>
  /\ guest_calls = 0
  /\ ended = <<>>
  /\ owed = {}

-----------------------------------------------------------------------------
(* Creating the thread of a life-cycle call.  s and R are the scheduler and *)
(* the runner's threads the code has reached when it creates the thread.    *)

\* Handles are given out in order and no handle is given out twice: a thread
\* is discarded only by a step that ends the session.
NewHandle(s) == Cardinality(Handles \ InState(s, "absent")) + 1

\* RegisterThreadEntry refuses a handle it already has and a thread that is not
\* ready; the threads it is called for here are neither.
Register(R, H) == R \cup H

Spawn(s, R, call) ==
  /\ NewHandle(s) \in Handles
  /\ sched' = CreateThread(s, NewHandle(s))
  /\ threads' = Register(R, {NewHandle(s)})
  /\ entry' = [entry EXCEPT ![NewHandle(s)] = call]

\* The thread was not created, or it got no stack and was discarded.
SpawnFails(s, R) ==
  /\ sched' \in {s} \cup {DiscardReadyThread(CreateThread(s, h), h) :
                            h \in {NewHandle(s)} \cap Handles}
  /\ threads' = R
  /\ UNCHANGED entry

StartNextInitializer(s, R, next) ==
  /\ \/ /\ Spawn(s, R, Call("initializer", next))
        /\ startup' = [next |-> next, active |-> NewHandle(s)]
        /\ phase' = "initializing"
     \/ /\ SpawnFails(s, R)
        /\ startup' = NoStartup
        /\ phase' = "failed"
  /\ UNCHANGED <<main_thread, finalization, owed>>

\* FinishStartup forgets the startup and launches main.
FinishStartup(s, R) ==
  /\ startup' = NoStartup
  /\ \/ /\ Spawn(s, R, MainCall)
        /\ main_thread' = NewHandle(s)
        /\ phase' = "running"
     \/ /\ SpawnFails(s, R)
        /\ phase' = "failed"
        /\ UNCHANGED main_thread
  /\ UNCHANGED <<finalization, owed>>

\* Variant for the checks: the session does not note which thread finalises.
StartFinalizerUntracked(s, R, calls, next) ==
  /\ Spawn(s, R, calls[next])
  /\ finalization' = [calls |-> calls, next |-> next, active |-> NoThread]
  /\ phase' = "finalizing"
  /\ UNCHANGED <<startup, main_thread>>

StartNextFinalizer(s, R, calls, next) ==
  /\ \/ /\ Spawn(s, R, calls[next])
        /\ finalization' = [calls |-> calls, next |-> next,
                            active |-> NewHandle(s)]
        /\ phase' = "finalizing"
     \/ /\ SpawnFails(s, R)
        /\ finalization' = [calls |-> calls, next |-> next,
                            active |-> NoThread]
        /\ phase' = "failed"
  /\ UNCHANGED <<startup, main_thread>>

\* Variant for the checks: the callbacks in the order of their registration.
PendingFirstInFirstOut(kind, registered) ==
  [i \in DOMAIN registered |-> Call(kind, registered[i])]

\* PendingAtexitCallbacks and PendingCxaDestructors: the last one first.
Pending(kind, registered) ==
  [i \in DOMAIN registered |-> Call(kind, Reverse(registered)[i])]

PrepareFinalization(s, R) ==
  LET calls == Pending("atexit", atexit) \o Pending("cxa", cxa)
                 \o [i \in 1 .. plan.finalizers |-> Call("finalizer", i)]
  IN  /\ owed' = {Call("atexit", atexit[i]) : i \in DOMAIN atexit}
                   \cup {Call("cxa", cxa[i]) : i \in DOMAIN cxa}
      /\ \/ /\ calls = <<>>
            /\ phase' = "exited"
            /\ finalization' = NoFinalization
            /\ sched' = s
            /\ threads' = R
            /\ UNCHANGED <<entry, startup, main_thread>>
         \/ /\ calls # <<>>
            /\ StartNextFinalizer(s, R, calls, 1)

-----------------------------------------------------------------------------
(* Setting up and starting.                                                *)

Configure ==
  /\ phase = "created"
  /\ plan = NoPlan
  /\ plan' \in [initializers : 0 .. MaxInitializers,
                finalizers : 0 .. MaxFinalizers]
  /\ UNCHANGED <<attached, executing, atexit, cxa, guest_calls>>
  /\ UNCHANGED <<session, runner>>

AttachModuleRuntime ==
  /\ phase = "created"
  /\ plan = NoPlan
  /\ ~attached
  /\ attached' = TRUE
  /\ UNCHANGED <<plan, executing, atexit, cxa, guest_calls>>
  /\ UNCHANGED <<session, runner>>

Start ==
  /\ phase = "created"
  /\ plan # NoPlan
  /\ \/ plan.initializers = 0 /\ FinishStartup(sched, threads)
     \/ plan.initializers > 0 /\ StartNextInitializer(sched, threads, 1)
  /\ UNCHANGED <<plan, attached, executing, atexit, cxa, guest_calls, ended>>

\* The TLS templates of the module runtime are not accepted.
StartRefused ==
  /\ phase = "created"
  /\ plan # NoPlan
  /\ attached
  /\ phase' = "failed"
  /\ UNCHANGED <<plan, attached, executing, atexit, cxa, guest_calls>>
  /\ UNCHANGED <<startup, main_thread, finalization, ended, owed>>
  /\ UNCHANGED runner

-----------------------------------------------------------------------------
(* RunNext before the guest code.                                          *)

\* The threads guest code created since the last slice have no stack yet.
Unprepared == InState(sched, "ready") \ threads

BeginSlice ==
  /\ phase \in Live
  /\ executing = NoThread
  /\ threads' = Register(threads, Unprepared)
  /\ sched' = SelectNext(sched, 0)
  /\ executing' = sched'.current
  /\ UNCHANGED <<plan, attached, entry, atexit, cxa, guest_calls>>
  /\ UNCHANGED session

\* PrepareReadyPthreads found no stack for h, after those before h.
PrepareFails ==
  /\ phase \in Live
  /\ executing = NoThread
  /\ \E h \in Unprepared :
       threads' = Register(threads, {g \in Unprepared : g < h})
  /\ phase' = "failed"
  /\ UNCHANGED <<plan, attached, executing, sched, entry, atexit, cxa,
                 guest_calls>>
  /\ UNCHANGED <<startup, main_thread, finalization, ended, owed>>

-----------------------------------------------------------------------------
(* The end of a slice of the executing thread, and what the session does    *)
(* with it.                                                                *)

\* Every status that is not an exit, a block or a yield ends the session.
\* The launcher forgets the startup when the thread was its initialiser.
FinishFailure(s, R) ==
  /\ phase' = "failed"
  /\ startup' = IF executing = startup.active THEN NoStartup ELSE startup
  /\ sched' = s
  /\ threads' = R
  /\ UNCHANGED <<entry, main_thread, finalization, ended, owed>>

ReleaseThread == threads \ {executing}

\* The thread exited and is not the one whose end the session waits for.
AnotherThread(s) ==
  /\ sched' = s
  /\ threads' = ReleaseThread
  /\ UNCHANGED <<entry, session>>

Note(h) == ended' = Append(ended, entry[h])

\* ContinueStartup: an initialiser must return 0.
InitializerExited(s, status, value) ==
  /\ executing = startup.active
  /\ \/ /\ status = "kOk" /\ value = 0
        /\ Note(executing)
        /\ \/ /\ startup.next < plan.initializers
              /\ StartNextInitializer(s, ReleaseThread, startup.next + 1)
           \/ /\ startup.next = plan.initializers
              /\ FinishStartup(s, ReleaseThread)
     \/ /\ status # "kOk" \/ value # 0
        /\ FinishFailure(s, ReleaseThread)

MainExited(s) ==
  /\ executing = main_thread
  /\ Note(executing)
  /\ PrepareFinalization(s, ReleaseThread)

FinalizerExited(s) ==
  /\ executing = finalization.active
  /\ Note(executing)
  /\ \/ /\ finalization.next < Len(finalization.calls)
        /\ StartNextFinalizer(s, ReleaseThread, finalization.calls,
                              finalization.next + 1)
        /\ UNCHANGED owed
     \/ /\ finalization.next = Len(finalization.calls)
        /\ phase' = "exited"
        /\ finalization' = [finalization EXCEPT !.next = @ + 1,
                                                !.active = NoThread]
        /\ sched' = s
        /\ threads' = ReleaseThread
        /\ UNCHANGED <<entry, startup, main_thread, owed>>

\* RunNext answered kThreadExited with this execution status and value.
ThreadExited(s, status, value) ==
  \/ /\ phase = "initializing"
     /\ \/ InitializerExited(s, status, value)
        \/ executing # startup.active /\ AnotherThread(s)
  \/ /\ phase = "running"
     /\ \/ MainExited(s)
        \/ executing # main_thread /\ AnotherThread(s)
  \/ /\ phase = "finalizing"
     /\ status = "kOk"
     /\ \/ FinalizerExited(s)
        \/ executing # finalization.active /\ AnotherThread(s)
  \/ /\ phase = "finalizing"
     /\ status # "kOk"
     /\ FinishFailure(s, ReleaseThread)

\* A slice of the executing thread ends; the callbacks do not change.
SliceEnds ==
  /\ executing # NoThread
  /\ executing' = NoThread
  /\ UNCHANGED <<plan, attached, atexit, cxa>>

\* The thread's function returns.  A thread that has left the scheduler
\* inside its slice cannot be exited again: kSchedulerUpdateFailed.  Unmapping
\* its stack may fail when guest code has unmapped part of it.
GuestReturn(value) ==
  /\ SliceEnds
  /\ \/ /\ sched.current = executing
        /\ \/ ThreadExited(ExitCurrent(sched), "kOk", value)
           \/ FinishFailure(ExitCurrent(sched), ReleaseThread)
     \/ /\ sched.current = NoThread
        /\ FinishFailure(sched, threads)
  /\ UNCHANGED guest_calls

\* exit and catchReturnFromMain stop the guest code and leave its thread
\* running in the scheduler, where RunNext expects it to have exited.
GuestExit ==
  /\ SliceEnds
  /\ \/ /\ sched.state[executing] = "exited"
        /\ ThreadExited(sched, "kGuestExit", 0)
     \/ /\ sched.state[executing] # "exited"
        /\ FinishFailure(sched, threads)
  /\ UNCHANGED guest_calls

\* A fault of the guest code, or a call that answers anything but kOk.
GuestFault ==
  /\ SliceEnds
  /\ FinishFailure(ExitCurrent(sched), ReleaseThread)
  /\ UNCHANGED guest_calls

-----------------------------------------------------------------------------
(* Calls of the executing guest code.                                      *)

GuestCall ==
  /\ executing # NoThread
  /\ guest_calls < MaxGuestCalls
  /\ guest_calls' = guest_calls + 1
  /\ UNCHANGED <<plan, attached>>
  /\ UNCHANGED session

\* pthread_yield, and a call that must wait and answers kBlocked.
GuestYield ==
  /\ GuestCall
  /\ sched.current = executing
  /\ sched' = YieldCurrent(sched)
  /\ executing' = NoThread
  /\ UNCHANGED <<threads, entry, atexit, cxa>>

GuestWait ==
  /\ GuestCall
  /\ sched.current = executing
  /\ sched' = BlockCurrent(sched, WaitKey)
  /\ executing' = NoThread
  /\ UNCHANGED <<threads, entry, atexit, cxa>>

GuestWake ==
  /\ GuestCall
  /\ BlockedOn(sched, WaitKey) # {}
  /\ sched' = WakeAll(sched, WaitKey, 0)
  /\ UNCHANGED <<threads, entry, executing, atexit, cxa>>

\* pthread_create: the thread gets its stack before the next slice.
GuestCreateThread ==
  /\ GuestCall
  /\ NewHandle(sched) \in Handles
  /\ sched' = CreateThread(sched, NewHandle(sched))
  /\ entry' = [entry EXCEPT ![NewHandle(sched)] = Call("pthread", 0)]
  /\ UNCHANGED <<threads, executing, atexit, cxa>>

\* pthread_exit answers kOk: the guest code goes on.
GuestPthreadExit ==
  /\ GuestCall
  /\ sched.current = executing
  /\ sched' = ExitCurrent(sched)
  /\ UNCHANGED <<threads, entry, executing, atexit, cxa>>

\* So does a pthread_join that blocks the thread in the scheduler.
GuestJoin ==
  /\ GuestCall
  /\ \E h \in Handles :
       /\ JoinMustWait(sched, h)
       /\ sched' = JoinThread(sched, h)
  /\ UNCHANGED <<threads, entry, executing, atexit, cxa>>

Registered == Len(atexit) + Len(cxa)

\* RegisterAtexit and RegisterCxaDestructor.  At the limit the export stops
\* the guest code with kResourceLimit: see GuestFault.
GuestAtexit ==
  /\ GuestCall
  /\ Registered < MaxCallbacks
  /\ atexit' = Append(atexit, Registered + 1)
  /\ UNCHANGED <<runner, executing, cxa>>

GuestCxaAtexit ==
  /\ GuestCall
  /\ Registered < MaxCallbacks
  /\ cxa' = Append(cxa, Registered + 1)
  /\ UNCHANGED <<runner, executing, atexit>>

Next ==
  \/ Configure
  \/ AttachModuleRuntime
  \/ Start
  \/ StartRefused
  \/ BeginSlice
  \/ PrepareFails
  \/ \E value \in {0, 1} : GuestReturn(value)
  \/ GuestExit
  \/ GuestFault
  \/ GuestYield
  \/ GuestWait
  \/ GuestWake
  \/ GuestCreateThread
  \/ GuestPthreadExit
  \/ GuestJoin
  \/ GuestAtexit
  \/ GuestCxaAtexit

\* The host goes on calling Run while it answers kPending, kBlocked or
\* kSliceLimitReached, and guest functions return: guest code that loops for
\* ever is not the session's to end.
Fairness ==
  /\ WF_vars(BeginSlice)
  /\ WF_vars(\E value \in {0, 1} : GuestReturn(value))

Spec == Init /\ [][Next]_vars /\ Fairness

-----------------------------------------------------------------------------

\* Call a may come to its end before call b.
Before(a, b) ==
  LET rank == [initializer |-> 1, main |-> 2, atexit |-> 3, cxa |-> 4,
               finalizer |-> 5]
  IN  \/ rank[a.kind] < rank[b.kind]
      \/ /\ a.kind = b.kind
         /\ IF a.kind \in {"atexit", "cxa"} THEN a.index > b.index
                                            ELSE a.index < b.index

\* The calls of a process come to their ends in the order its life cycle
\* promises, each of them once: the initialisers in plan order, then main, then
\* the exit callbacks last in, first out (atexit before __cxa_atexit), then the
\* finalisers in plan order.  No thread runs a call whose predecessors have not
\* ended, whatever other guest threads do meanwhile, and a process that exited
\* has run every initialiser, every callback main left behind and every
\* finaliser.
CallsInOrder ==
  /\ \A i, j \in DOMAIN ended : i < j => Before(ended[i], ended[j])
  /\ \A h \in threads : entry[h].kind # "pthread" /\ phase \in Live =>
       \/ entry[h] \notin ToSet(ended)
            /\ \A i \in DOMAIN ended : Before(ended[i], entry[h])
       \/ sched.state[h] = "exited" /\ h = executing
  /\ "main" \in {entry[h].kind : h \in threads} =>
       Len(ended) >= plan.initializers
  /\ phase = "exited" =>
       ToSet(ended) =
         {Call("initializer", i) : i \in 1 .. plan.initializers}
           \cup {MainCall} \cup owed
           \cup {Call("finalizer", i) : i \in 1 .. plan.finalizers}

\* Once main has ended the session does not stop halfway: it exits or fails,
\* or every thread that could go on waits, the running finaliser among them.
\* No finaliser's end is missed, in any order of slices of the other threads.
FinalizationEnds ==
  phase = "finalizing" ~>
    \/ phase \in {"exited", "failed"}
    \/ /\ executing = NoThread
       /\ InState(sched, "ready") = {}
       /\ finalization.active # NoThread
       /\ sched.state[finalization.active] = "blocked"
=============================================================================

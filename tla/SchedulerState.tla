--------------------------- MODULE SchedulerState ---------------------------
(***************************************************************************)
(* The state of kernel::GuestScheduler and its operations as operators:    *)
(* each takes a scheduler state s (and the clock reading now, where the    *)
(* code reads it) and returns the scheduler state the call leaves.  Every  *)
(* kernel service holds a reference to one scheduler and calls these, often *)
(* several within one service call, so the services' modules compose them.  *)
(*                                                                         *)
(* A scheduler state is a record of arrays over the handles:               *)
(*   state[h]      thread life cycle, "absent" when h is not in threads_    *)
(*   wait_key[h]   what a blocked thread waits for, NoKey when nothing      *)
(*   deadline[h]   wait_deadline_nanoseconds, NoDeadline when nullopt       *)
(*   timed_out[h]  timed_out_wait_key, NoKey when empty                     *)
(*   ready         ready_threads_, the FIFO deque of handles                *)
(*   current       current_thread_, NoThread when nullopt                   *)
(* Names, priorities, entry addresses and exit values are data no operation *)
(* of the scheduler decides on, and are left out.                           *)
(***************************************************************************)
EXTENDS Integers, Sequences, FiniteSets

CONSTANT MaxHandle    \* the bound on the handles given to threads

ASSUME MaxHandleAssumption == MaxHandle \in Nat \ {0}

Handles == 1 .. MaxHandle
NoThread == 0
NoKey == <<>>
NoDeadline == -1

ThreadStates == {"absent", "ready", "running", "blocked", "exited"}

ThreadExitWaitKey(h) == <<"thread-exit", h>>

\* The scheduler states whose wait keys are drawn from the set K.
SchedulerType(K) ==
  [state     : [Handles -> ThreadStates],
   wait_key  : [Handles -> K \cup {NoKey}],
   deadline  : [Handles -> Nat \cup {NoDeadline}],
   timed_out : [Handles -> K \cup {NoKey}],
   ready     : Seq(Handles),
   current   : Handles \cup {NoThread}]

\* A scheduler before the first CreateThread.
EmptyScheduler ==
  [state     |-> [h \in Handles |-> "absent"],
   wait_key  |-> [h \in Handles |-> NoKey],
   deadline  |-> [h \in Handles |-> NoDeadline],
   timed_out |-> [h \in Handles |-> NoKey],
   ready     |-> <<>>,
   current   |-> NoThread]

InState(s, st) == {h \in Handles : s.state[h] = st}

-----------------------------------------------------------------------------
(* threads_ is a std::map keyed by handle: the loops that wake threads walk *)
(* it in increasing handle order and push each woken handle onto the ready  *)
(* queue as they go.  std::erase keeps the order of what it leaves.         *)

InOrder(S) ==
  CHOOSE q \in [1 .. Cardinality(S) -> S] :
     /\ \A i, j \in DOMAIN q : i < j => q[i] < q[j]
     /\ \A h \in S : \E i \in DOMAIN q : q[i] = h

\* The entries of q at the positions I, in their order.
EntriesAt(q, I) ==
  LET kept == InOrder(I)
  IN  [k \in DOMAIN kept |-> q[kept[k]]]

Erase(q, h) == EntriesAt(q, {i \in DOMAIN q : q[i] # h})

\* Variant for the checks: waking forgets wait_deadline_nanoseconds.reset().
MakeReadyKeepsDeadline(s, W, timeout) ==
  [state     |-> [h \in Handles |-> IF h \in W THEN "ready" ELSE s.state[h]],
   wait_key  |-> [h \in Handles |-> IF h \in W THEN NoKey ELSE s.wait_key[h]],
   deadline  |-> s.deadline,
   timed_out |-> [h \in Handles |-> IF h \in W THEN timeout[h]
                                              ELSE s.timed_out[h]],
   ready     |-> s.ready \o InOrder(W),
   current   |-> s.current]

\* The threads of W become ready.  timeout[h] is what each one's
\* timed_out_wait_key becomes.
MakeReady(s, W, timeout) ==
  [state     |-> [h \in Handles |-> IF h \in W THEN "ready" ELSE s.state[h]],
   wait_key  |-> [h \in Handles |-> IF h \in W THEN NoKey ELSE s.wait_key[h]],
   deadline  |-> [h \in Handles |-> IF h \in W THEN NoDeadline
                                              ELSE s.deadline[h]],
   timed_out |-> [h \in Handles |-> IF h \in W THEN timeout[h]
                                              ELSE s.timed_out[h]],
   ready     |-> s.ready \o InOrder(W),
   current   |-> s.current]

NoTimeout == [h \in Handles |-> NoKey]

BlockedOn(s, key) ==
  {h \in Handles : s.state[h] = "blocked" /\ s.wait_key[h] = key}

Expired(s, now) ==
  {h \in Handles : /\ s.state[h] = "blocked"
                   /\ s.deadline[h] # NoDeadline
                   /\ s.deadline[h] <= now}

WakeExpiredThreads(s, now) == MakeReady(s, Expired(s, now), s.wait_key)

-----------------------------------------------------------------------------
(* The operations.  A call the code refuses returns s itself.              *)

CreateThread(s, h) ==
  [s EXCEPT !.state[h] = "ready", !.ready = Append(@, h)]

\* Variant for the checks: the discarded handle stays queued.
DiscardKeepsQueueEntry(s, h) ==
  IF s.state[h] # "ready" THEN s
  ELSE [s EXCEPT !.state[h] = "absent", !.timed_out[h] = NoKey]

DiscardReadyThread(s, h) ==
  IF s.state[h] # "ready" THEN s
  ELSE [s EXCEPT !.state[h] = "absent",
                 !.timed_out[h] = NoKey,
                 !.ready = Erase(@, h)]

\* Variant for the checks: selection does not look at deadlines.
SelectIgnoresDeadlines(s, now) ==
  IF s.current # NoThread \/ s.ready = <<>> THEN s
  ELSE [s EXCEPT !.state[Head(s.ready)] = "running",
                 !.ready = Tail(@),
                 !.current = Head(s.ready)]

\* SelectNext wakes what has expired, then pops entries until one names a
\* thread that is ready.  Entries that do not are dropped.
SelectNext(s, now) ==
  IF s.current # NoThread THEN s
  ELSE LET w    == WakeExpiredThreads(s, now)
           live == {i \in DOMAIN w.ready : w.state[w.ready[i]] = "ready"}
       IN  IF live = {} THEN [w EXCEPT !.ready = <<>>]
           ELSE LET i == CHOOSE i \in live : \A j \in live : i <= j
                IN  [w EXCEPT !.state[w.ready[i]] = "running",
                              !.ready = SubSeq(w.ready, i + 1, Len(w.ready)),
                              !.current = w.ready[i]]

CanLeave(s) == s.current # NoThread /\ s.state[s.current] = "running"

\* Variant for the checks: the yielding thread goes to the front.
YieldToFront(s) ==
  IF ~CanLeave(s) THEN s
  ELSE [s EXCEPT !.state[s.current] = "ready",
                 !.ready = <<s.current>> \o @,
                 !.current = NoThread]

YieldCurrent(s) ==
  IF ~CanLeave(s) THEN s
  ELSE [s EXCEPT !.state[s.current] = "ready",
                 !.ready = Append(@, s.current),
                 !.current = NoThread]

BlockCurrentUntil(s, key, deadline) ==
  IF key = NoKey \/ ~CanLeave(s) THEN s
  ELSE [s EXCEPT !.state[s.current] = "blocked",
                 !.wait_key[s.current] = key,
                 !.deadline[s.current] = deadline,
                 !.timed_out[s.current] = NoKey,
                 !.current = NoThread]

BlockCurrent(s, key) == BlockCurrentUntil(s, key, NoDeadline)

\* Variant for the checks: a wake does not retire expired waits first.
WakeBeforeExpiry(s, key, maximum_count, now) ==
  IF key = NoKey \/ maximum_count = 0 THEN s
  ELSE LET B == BlockedOn(s, key)
           W == {h \in B : Cardinality({g \in B : g < h}) < maximum_count}
       IN  MakeReady(s, W, NoTimeout)

WakeBlockedThreads(s, key, maximum_count, now) ==
  IF key = NoKey \/ maximum_count = 0 THEN s
  ELSE LET w == WakeExpiredThreads(s, now)
           B == BlockedOn(w, key)
           W == {h \in B : Cardinality({g \in B : g < h}) < maximum_count}
       IN  MakeReady(w, W, NoTimeout)

\* Waking every waiter is the default argument of WakeBlockedThreads.
WakeAll(s, key, now) == WakeBlockedThreads(s, key, MaxHandle, now)

WakeBlockedThread(s, h, key, now) ==
  IF h = NoThread \/ key = NoKey THEN s
  ELSE LET w == WakeExpiredThreads(s, now)
       IN  MakeReady(w, BlockedOn(w, key) \cap {h}, NoTimeout)

\* A service that wakes chosen threads gives each its own wait key, ending in
\* the thread, and wakes the keys one after the other with a limit of one.
\* Every wake retires the expired waits first.
KeyThread(key) == key[Len(key)]

WakeInTurn(s, keys, now) ==
  IF keys = <<>> THEN s
  ELSE LET w       == WakeExpiredThreads(s, now)
           threads == [i \in DOMAIN keys |-> KeyThread(keys[i])]
           found   == {i \in DOMAIN keys : w.wait_key[threads[i]] = keys[i]}
       IN  [MakeReady(w, {threads[i] : i \in found}, NoTimeout)
              EXCEPT !.ready = w.ready \o EntriesAt(threads, found)]

\* The sequences parts[1], parts[2], ... one after the other.
Joined(parts) ==
  LET upTo[i \in 0 .. Len(parts)] ==
        IF i = 0 THEN <<>> ELSE upTo[i - 1] \o parts[i]
  IN  upTo[Len(parts)]

\* JoinThread on h by the current thread, once the checks that answer at once
\* (unknown, exited, self) are past.
JoinMustWait(s, h) ==
  /\ s.state[h] \notin {"absent", "exited"}
  /\ s.current # h
  /\ CanLeave(s)

JoinThread(s, h) ==
  IF ~JoinMustWait(s, h) THEN s
  ELSE BlockCurrent(s, ThreadExitWaitKey(h))

\* Variant for the checks: the exit wakes no joiner.
ExitWakesNobody(s) ==
  IF ~CanLeave(s) THEN s
  ELSE [s EXCEPT !.state[s.current] = "exited",
                 !.timed_out[s.current] = NoKey,
                 !.current = NoThread]

ExitCurrent(s) ==
  IF ~CanLeave(s) THEN s
  ELSE LET e == [s EXCEPT !.state[s.current] = "exited",
                          !.wait_key[s.current] = NoKey,
                          !.deadline[s.current] = NoDeadline,
                          !.timed_out[s.current] = NoKey,
                          !.current = NoThread]
       IN  MakeReady(e, BlockedOn(s, ThreadExitWaitKey(s.current)), NoTimeout)

CurrentThreadTimedOut(s, key) ==
  /\ key # NoKey
  /\ CanLeave(s)
  /\ s.timed_out[s.current] = key

ConsumeCurrentThreadTimeout(s, key) ==
  IF CurrentThreadTimedOut(s, key)
  THEN [s EXCEPT !.timed_out[s.current] = NoKey]
  ELSE s

-----------------------------------------------------------------------------
(* What every reachable scheduler state satisfies, as predicates of s so   *)
(* that each service that owns a scheduler can state and prove it.         *)

\* No thread is lost by the ready queue or queued twice: ready_threads_ holds
\* each ready thread exactly once and nothing else, through every path that
\* makes a thread ready (create, yield, wake by key, wake by handle, timeout,
\* exit of a joined thread) and every path that takes it out.
QueueExact(s) ==
  /\ \A i, j \in DOMAIN s.ready : s.ready[i] = s.ready[j] => i = j
  /\ \A i \in DOMAIN s.ready : s.state[s.ready[i]] = "ready"
  /\ \A h \in Handles : s.state[h] = "ready" =>
                          \E i \in DOMAIN s.ready : s.ready[i] = h

\* One guest thread at most executes: current_thread_ is the one thread in
\* kRunning, and there is none when it is empty.
OneRunning(s) ==
  \A h \in Handles : s.state[h] = "running" <=> s.current = h

\* The wait bookkeeping of a thread agrees with its state: exactly a blocked
\* thread has a wait key, only a blocked one has a deadline, and a timeout is
\* left to be consumed only by a thread that is ready or running.
WaitsOK(s) ==
  \A h \in Handles :
    /\ s.state[h] = "blocked" <=> s.wait_key[h] # NoKey
    /\ s.deadline[h] # NoDeadline => s.state[h] = "blocked"
    /\ s.timed_out[h] # NoKey => s.state[h] \in {"ready", "running"}

\* A joiner is never left waiting for a thread that has already exited: the
\* exit wakes every joiner, and a later join does not block.
NoJoinerMissed(s) ==
  \A h, g \in Handles :
    s.wait_key[g] = ThreadExitWaitKey(h) => s.state[h] # "exited"

SchedulerOK(s, K) ==
  /\ s \in SchedulerType(K)
  /\ QueueExact(s)
  /\ OneRunning(s)
  /\ WaitsOK(s)
  /\ NoJoinerMissed(s)
=============================================================================

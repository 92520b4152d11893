----------------------------- MODULE EventQueue -----------------------------
(***************************************************************************)
(* kernel::EventQueueService over the guest scheduler.  A queue holds       *)
(* registrations and pending events; a trigger queues an event and at once  *)
(* reserves pending events for the threads that wait, each under its own    *)
(* waiter entry, so that the thread finds them when it repeats the call.    *)
(* Between the reservation and the repeated call the registration may be    *)
(* changed or removed, the queue deleted, or the deadline reached.          *)
(***************************************************************************)
EXTENDS GuestThreads

CONSTANTS MaxQueue,       \* the bound on the queue handles
          Idents,         \* the event identifiers
          Counts,         \* the maximum_count of the waits and polls
          MaxGeneration,  \* the largest registration generation
          MaxTriggers,    \* the bound on the triggers
          Timeouts        \* the relative timeouts

ASSUME EventQueueAssumption ==
  /\ MaxQueue \in Nat
  /\ Counts \subseteq Nat \ {0}
  /\ MaxGeneration \in Nat \ {0}
  /\ MaxTriggers \in Nat
  /\ Timeouts \subseteq Nat \ {0}

Queues == 1 .. MaxQueue    \* the queue handles, never reused

VARIABLES queues,     \* the queue objects
          waiters,    \* waiters_
          triggers,   \* how many events were triggered: each has its number
          received    \* how often edge event n of queue q was returned

vars == <<sched, now, call, queues, waiters, triggers, received>>

WaitKey(q) == <<"event_queue", q>>

NewQueue == [state |-> "new", registrations |-> <<>>, pending |-> <<>>,
             next_generation |-> 1, exhausted |-> FALSE]

NoWaiter == [queue |-> 0, maximum_count |-> 0, deadline |-> NoDeadline,
             completion |-> "none", events |-> <<>>]

Init ==
  /\ Started
  /\ queues = [q \in Queues |-> NewQueue]
  /\ waiters = [h \in Handles |-> NoWaiter]
  /\ triggers = 0
  /\ received = [q \in Queues |-> [n \in 1 .. MaxTriggers |-> 0]]

Live(q) == queues[q].state = "live"

-----------------------------------------------------------------------------
(* One queue object x.  A registration has an ident, a filter, what the     *)
(* caller asked for (edge or level in a user event's flags; of another       *)
(* filter edge tells two values of user_data apart), and the generation that *)
(* tells it from an earlier one with the same ident.                         *)

Matches(r, ident, filter) == r.ident = ident /\ r.filter = filter

\* The registrations or events s without those of ident and filter.
Without(s, ident, filter) ==
  EntriesAt(s, {i \in DOMAIN s : ~Matches(s[i], ident, filter)})

Positions(x, ident, filter) ==
  {i \in DOMAIN x.registrations : Matches(x.registrations[i], ident, filter)}

Registered(x, ident, filter, edge) ==
  LET r == [ident |-> ident, filter |-> filter, edge |-> edge,
            generation |-> x.next_generation]
      found == Positions(x, ident, filter)
      same == \E i \in found : x.registrations[i].edge = edge
  IN  IF same \/ x.exhausted THEN x
      ELSE [x EXCEPT
              !.registrations = IF found = {} THEN Append(@, r)
                                ELSE [@ EXCEPT ![CHOOSE i \in found : TRUE] = r],
              !.next_generation = IF @ = MaxGeneration THEN @ ELSE @ + 1,
              !.exhausted = x.next_generation = MaxGeneration,
              !.pending = Without(@, ident, filter)]

\* Variant for the checks: the pending events of a registration outlive it.
UnregisteredKeepsPending(x, ident, filter) ==
  [x EXCEPT !.registrations = Without(@, ident, filter)]

Unregistered(x, ident, filter) ==
  [x EXCEPT
     !.registrations = Without(@, ident, filter),
     !.pending = Without(@, ident, filter)]

IsCurrent(x, e) ==
  \E i \in DOMAIN x.registrations :
    /\ Matches(x.registrations[i], e.ident, e.filter)
    /\ x.registrations[i].generation = e.generation

\* The registration r fires: an event still pending for it is replaced.
Triggered(s, r, number) ==
  LET e == [ident |-> r.ident, filter |-> r.filter, generation |-> r.generation,
            persistent |-> r.filter = "user" /\ ~r.edge, number |-> number]
      old == {i \in DOMAIN s : /\ Matches(s[i], r.ident, r.filter)
                               /\ s[i].generation = r.generation}
  IN  IF old = {} THEN Append(s, e)
      ELSE [s EXCEPT ![CHOOSE i \in old : TRUE] = e]

\* What a poll for n of the events s takes.
TakeCount(s, n) == IF n < Len(s) THEN n ELSE Len(s)
Taken(s, n) == SubSeq(s, 1, TakeCount(s, n))

\* Variant for the checks: a poll copies the events and leaves them queued.
AfterPollKeepsEvents(s, n) == s

\* The events after the poll: the level ones it took go back to the end.
AfterPoll(s, n) ==
  LET taken == Taken(s, n)
  IN  SubSeq(s, TakeCount(s, n) + 1, Len(s))
        \o EntriesAt(taken, {i \in DOMAIN taken : taken[i].persistent})

-----------------------------------------------------------------------------
(* Reserving.  The waiters are visited in handle order; each that waits on  *)
(* the queue and has time left takes what it asked for, until none is left.  *)

CanReserve(q, w) ==
  /\ w.queue = q
  /\ w.completion = "waiting"
  /\ w.deadline = NoDeadline \/ w.deadline > now

\* The visit to the waiters of queue q with the events s pending: what is left
\* pending after the waiters up to h.
Leftover(q, s) ==
  LET left[h \in 0 .. MaxHandle] ==
        IF h = 0 THEN s
        ELSE IF CanReserve(q, waiters[h])
             THEN AfterPoll(left[h - 1], waiters[h].maximum_count)
             ELSE left[h - 1]
  IN  left

\* WakeBlockedThread for each of the threads, one after the other, under the
\* key of the queue it waits for.  Every wake retires the expired waits first.
WakeWaiters(threads, time) ==
  LET w      == WakeExpiredThreads(sched, time)
      asleep == {i \in DOMAIN threads :
                   w.wait_key[threads[i]] = WaitKey(waiters[threads[i]].queue)}
  IN  IF threads = <<>> THEN sched
      ELSE [MakeReady(w, {threads[i] : i \in asleep}, NoTimeout)
              EXCEPT !.ready = w.ready \o EntriesAt(threads, asleep)]

\* In each queue q of DOMAIN r the registration r[q] fires, one queue after the
\* other, and the waiters of the queue are visited.  A thread waits on one
\* queue, so no visit depends on another.  The code reads the clock for each
\* waiter; here one reading serves them all, and a deadline that comes between two
\* visits is not followed.
Fire(r, later) ==
  LET left == [q \in DOMAIN r |->
                 Leftover(q, Triggered(queues[q].pending, r[q], triggers + 1))]
      reserving(q) == {h \in Handles : /\ CanReserve(q, waiters[h])
                                       /\ left[q][h - 1] # <<>>}
      visits == InOrder(DOMAIN r)
  IN  /\ triggers < MaxTriggers
      /\ triggers' = triggers + 1
      /\ queues' = [q \in Queues |->
                      IF q \in DOMAIN r
                      THEN [queues[q] EXCEPT !.pending = left[q][MaxHandle]]
                      ELSE queues[q]]
      /\ waiters' = [h \in Handles |->
                       LET w == waiters[h]
                       IN  IF w.queue \in DOMAIN r /\ h \in reserving(w.queue)
                           THEN [w EXCEPT !.completion = "reserved",
                                          !.events = Taken(left[w.queue][h - 1],
                                                           w.maximum_count)]
                           ELSE w]
      /\ sched' = WakeWaiters(
                    Joined([i \in DOMAIN visits |-> InOrder(reserving(visits[i]))]),
                    later)
      /\ now' = later

-----------------------------------------------------------------------------
(* The service's operations.                                               *)

Create(h, q) ==
  /\ MayCall(h, NoCall)
  /\ queues[q].state = "new"
  /\ queues' = [queues EXCEPT ![q].state = "live"]
  /\ UNCHANGED <<sched, now, call, waiters, triggers, received>>

\* Variant for the checks: the deletion marks the entries and wakes nobody.
DeleteMarksOnly(h, q) ==
  /\ MayCall(h, NoCall)
  /\ Live(q)
  /\ queues' = [queues EXCEPT ![q] = [NewQueue EXCEPT !.state = "deleted"]]
  /\ waiters' = [g \in Handles |->
                   IF waiters[g].queue = q
                   THEN [waiters[g] EXCEPT !.completion = "deleted", !.events = <<>>]
                   ELSE waiters[g]]
  /\ UNCHANGED <<sched, now, call, triggers, received>>

Delete(h, q) ==
  LET mine == {g \in Handles : waiters[g].queue = q}
  IN  /\ MayCall(h, NoCall)
      /\ Live(q)
      /\ queues' = [queues EXCEPT ![q] = [NewQueue EXCEPT !.state = "deleted"]]
      /\ waiters' = [g \in Handles |->
                       IF g \in mine
                       THEN [waiters[g] EXCEPT !.completion = "deleted",
                                               !.events = <<>>]
                       ELSE waiters[g]]
      /\ sched' = WakeWaiters(
                    InOrder({g \in mine : waiters[g].completion = "waiting"}), now)
      /\ UNCHANGED <<now, call, triggers, received>>

Register(h, q, ident, filter, edge) ==
  /\ MayCall(h, NoCall)
  /\ Live(q)
  /\ queues' = [queues EXCEPT ![q] = Registered(@, ident, filter, edge)]
  /\ UNCHANGED <<sched, now, call, waiters, triggers, received>>

DeleteEvent(h, q, ident, filter) ==
  /\ MayCall(h, NoCall)
  /\ Live(q)
  /\ Positions(queues[q], ident, filter) # {}
  /\ queues' = [queues EXCEPT ![q] = Unregistered(@, ident, filter)]
  /\ UNCHANGED <<sched, now, call, waiters, triggers, received>>

\* A guest thread triggers a user event.
TriggerUserEvent(h, q, ident, later) ==
  LET found == Positions(queues[q], ident, "user")
  IN  /\ MayCall(h, NoCall)
      /\ Live(q)
      /\ found # {}
      /\ Fire([p \in {q} |-> queues[p].registrations[CHOOSE i \in found : TRUE]],
              later)
      /\ UNCHANGED <<call, received>>

\* A GPU submission (or a flip) completes inside a guest call: in every queue,
\* in handle order, the first registration of the filter fires.
TriggerGraphicsEvents(h, later) ==
  LET graphics(q) == {i \in DOMAIN queues[q].registrations :
                        queues[q].registrations[i].filter = "graphics"}
      targets == {q \in Queues : Live(q) /\ graphics(q) # {}}
  IN  /\ MayCall(h, NoCall)
      /\ targets # {}
      /\ Fire([q \in targets |->
                 queues[q].registrations[
                   CHOOSE i \in graphics(q) : \A j \in graphics(q) : i <= j]],
              later)
      /\ UNCHANGED <<call, received>>

\* The bookkeeping of the edge events among the events s of queue q that a
\* call returns.
Receive(q, s) ==
  [received EXCEPT ![q] =
     [n \in 1 .. MaxTriggers |->
        @[n] + Cardinality({i \in DOMAIN s : /\ s[i].number = n
                                             /\ ~s[i].persistent})]]

CurrentEvents(x, s) == EntriesAt(s, {i \in DOMAIN s : IsCurrent(x, s[i])})

PollCurrent(q, n) == CurrentEvents(queues[q], Taken(queues[q].pending, n))

Poll(h, q, n) ==
  /\ MayCall(h, NoCall)
  /\ Live(q)
  /\ queues' = [queues EXCEPT ![q].pending = AfterPoll(@, n)]
  /\ received' = Receive(q, PollCurrent(q, n))
  /\ UNCHANGED <<sched, now, call, waiters, triggers>>

WaitCall(q) == <<"wait", q>>

DeadlineAfter(t) == IF t > MaxTime - now THEN MaxTime ELSE now + t

\* Variant for the checks: the thread blocks without its deadline.
WaitUntimed(h, q, n, deadline) ==
  LET events == PollCurrent(q, n)
  IN  /\ MayCall(h, NoCall)
      /\ waiters[h] = NoWaiter
      /\ Live(q)
      /\ events = <<>>
      /\ queues' = [queues EXCEPT ![q].pending = AfterPoll(@, n)]
      /\ waiters' = [waiters EXCEPT
                       ![h] = [queue |-> q, maximum_count |-> n,
                               deadline |-> deadline,
                               completion |-> "waiting", events |-> <<>>]]
      /\ sched' = BlockCurrent(sched, WaitKey(q))
      /\ call' = CallAfter(h, WaitCall(q), "kWouldBlock")
      /\ UNCHANGED <<now, triggers, received>>

\* The first call takes what is pending, or leaves a waiter entry and blocks.
Wait(h, q, n, deadline) ==
  LET events == PollCurrent(q, n)
  IN  /\ MayCall(h, NoCall)
      /\ waiters[h] = NoWaiter
      /\ Live(q)
      /\ queues' = [queues EXCEPT ![q].pending = AfterPoll(@, n)]
      /\ received' = Receive(q, events)
      /\ \/ /\ events # <<>>
            /\ UNCHANGED <<sched, call, waiters>>
         \/ /\ events = <<>>
            /\ waiters' = [waiters EXCEPT
                             ![h] = [queue |-> q, maximum_count |-> n,
                                     deadline |-> deadline,
                                     completion |-> "waiting", events |-> <<>>]]
            /\ sched' = BlockCurrentUntil(sched, WaitKey(q), deadline)
            /\ call' = CallAfter(h, WaitCall(q), "kWouldBlock")
      /\ UNCHANGED <<now, triggers>>

Answer(h, q) ==
  /\ waiters' = [waiters EXCEPT ![h] = NoWaiter]
  /\ call' = CallAfter(h, WaitCall(q), "kOk")

\* The repeated call, one disjunct per answer: the queue was deleted; reserved
\* events that are still current are returned; the wait timed out; events that
\* came in meanwhile are returned; the thread blocks again.
Repeats(h, q) == MayCall(h, WaitCall(q)) /\ call[h] = WaitCall(q)

FindsDeleted(h, q) ==
  /\ Repeats(h, q)
  /\ waiters[h].completion = "deleted"
  /\ Answer(h, q)
  /\ UNCHANGED <<sched, now, queues, triggers, received>>

\* Variant for the checks: reserved events are returned as they were reserved.
FindsReservedUnchecked(h, q) ==
  /\ Repeats(h, q)
  /\ waiters[h].completion = "reserved"
  /\ received' = Receive(q, waiters[h].events)
  /\ Answer(h, q)
  /\ UNCHANGED <<sched, now, queues, triggers>>

FindsReserved(h, q) ==
  LET events == CurrentEvents(queues[q], waiters[h].events)
  IN  /\ Repeats(h, q)
      /\ waiters[h].completion = "reserved"
      /\ events # <<>>
      /\ received' = Receive(q, events)
      /\ Answer(h, q)
      /\ UNCHANGED <<sched, now, queues, triggers>>

\* Nothing reserved, or nothing of it current any more.
NothingReserved(h, q) ==
  \/ waiters[h].completion = "waiting"
  \/ /\ waiters[h].completion = "reserved"
     /\ CurrentEvents(queues[q], waiters[h].events) = <<>>

FindsTimeout(h, q) ==
  /\ Repeats(h, q)
  /\ NothingReserved(h, q)
  /\ CurrentThreadTimedOut(sched, WaitKey(q))
  /\ sched' = ConsumeCurrentThreadTimeout(sched, WaitKey(q))
  /\ Answer(h, q)
  /\ UNCHANGED <<now, queues, triggers, received>>

PollsAgain(h, q) ==
  LET n      == waiters[h].maximum_count
      events == PollCurrent(q, n)
  IN  /\ Repeats(h, q)
      /\ NothingReserved(h, q)
      /\ ~CurrentThreadTimedOut(sched, WaitKey(q))
      /\ queues' = [queues EXCEPT ![q].pending = AfterPoll(@, n)]
      /\ received' = Receive(q, events)
      /\ \/ events # <<>> /\ Answer(h, q) /\ UNCHANGED sched
         \/ /\ events = <<>>
            /\ waiters' = [waiters EXCEPT ![h].completion = "waiting",
                                          ![h].events = <<>>]
            /\ sched' = BlockCurrentUntil(sched, WaitKey(q), waiters[h].deadline)
            /\ UNCHANGED call
      /\ UNCHANGED <<now, triggers>>

-----------------------------------------------------------------------------
Objects == UNCHANGED <<queues, waiters, triggers, received>>

Filters == {"user", "graphics"}
Deadlines == {NoDeadline} \cup {DeadlineAfter(t) : t \in Timeouts}

RepeatWait(h, q) ==
  \/ FindsDeleted(h, q)
  \/ FindsReserved(h, q)
  \/ FindsTimeout(h, q)
  \/ PollsAgain(h, q)

Operation(h, q) ==
  \/ Create(h, q)
  \/ Delete(h, q)
  \/ \E ident \in Idents, filter \in Filters, edge \in BOOLEAN :
       Register(h, q, ident, filter, edge)
  \/ \E ident \in Idents, filter \in Filters :
       DeleteEvent(h, q, ident, filter)
  \/ \E ident \in Idents, later \in LaterTimes :
       TriggerUserEvent(h, q, ident, later)
  \/ \E n \in Counts : Poll(h, q, n)
  \/ \E n \in Counts, d \in Deadlines : Wait(h, q, n, d)
  \/ RepeatWait(h, q)

Next ==
  \/ Dispatch /\ Objects
  \/ Tick /\ Objects
  \/ \E h \in Handles : Relinquish(h) /\ Objects
  \/ \E h \in Handles, later \in LaterTimes : TriggerGraphicsEvents(h, later)
  \/ \E h \in Handles, q \in Queues : Operation(h, q)

Spec == Init /\ [][Next]_vars

\* The host loop selects, the clock runs, threads come back to the host, and a
\* resumed thread repeats its call.
FairSpec ==
  /\ Spec
  /\ WF_vars(Dispatch /\ Objects)
  /\ WF_vars(Tick /\ Objects)
  /\ \A h \in Handles :
       /\ WF_vars(Relinquish(h) /\ Objects)
       /\ WF_vars(\E q \in Queues : RepeatWait(h, q))

-----------------------------------------------------------------------------
(* Properties.                                                             *)

WaitKeys == {WaitKey(q) : q \in Queues}

RegistrationType ==
  [ident : Idents, filter : Filters, edge : BOOLEAN, generation : 1 .. MaxGeneration]
EventType ==
  [ident : Idents, filter : Filters, generation : 1 .. MaxGeneration,
   persistent : BOOLEAN, number : 1 .. MaxTriggers]
QueueType ==
  [state : {"new", "live", "deleted"}, registrations : Seq(RegistrationType),
   pending : Seq(EventType), next_generation : 1 .. MaxGeneration,
   exhausted : BOOLEAN]
WaiterType ==
  [queue : Queues, maximum_count : Counts, deadline : Nat \cup {NoDeadline},
   completion : {"waiting", "reserved", "deleted"}, events : Seq(EventType)]
Calls == {NoCall} \cup {WaitCall(q) : q \in Queues}

TypeOK ==
  /\ SchedulerOK(sched, WaitKeys)
  /\ now \in 0 .. MaxTime
  /\ call \in [Handles -> Calls]
  /\ queues \in [Queues -> QueueType]
  /\ waiters \in [Handles -> WaiterType \cup {NoWaiter}]
  /\ triggers \in 0 .. MaxTriggers
  /\ received \in [Queues -> [1 .. MaxTriggers -> Nat]]

\* An edge event has one destination: it is pending, reserved for one waiter or
\* received, never two of these, whoever polls, waits, times out or triggers.
EdgeEventOnce ==
  \A q \in Queues, n \in 1 .. MaxTriggers :
    LET edge(e)    == e.number = n /\ ~e.persistent
        pendingAt  == {i \in DOMAIN queues[q].pending : edge(queues[q].pending[i])}
        reservedBy == {h \in Handles :
                         /\ waiters[h].queue = q
                         /\ \E i \in DOMAIN waiters[h].events :
                              edge(waiters[h].events[i])}
    IN  Cardinality(pendingAt) + Cardinality(reservedBy) + received[q][n] <= 1

\* No wake-up is lost: while an event is pending, no thread with time left
\* sleeps on the queue, whatever was triggered, registered anew or taken back
\* from a reservation meanwhile.
NoSleeperBesideEvents ==
  \A h \in Handles, q \in Queues :
    (sched.wait_key[h] = WaitKey(q) /\ CanReserve(q, waiters[h])) =>
      queues[q].pending = <<>>

\* A waiter entry and its thread agree: a thread sleeps only under an entry
\* that waits, an entry with an answer has an awake thread that repeats the
\* call, and a waiting entry whose thread is awake was timed out.
WaiterAgreesWithThread ==
  \A h \in Handles :
    LET w == waiters[h]
    IN  /\ sched.state[h] = "blocked" <=>
             (w.completion = "waiting" /\ sched.wait_key[h] = WaitKey(w.queue))
        /\ w.completion # "none" <=> call[h] # NoCall
        /\ w.completion # "none" => call[h] = WaitCall(w.queue)
        /\ (w.completion = "waiting" /\ sched.state[h] # "blocked") =>
             /\ sched.timed_out[h] = WaitKey(w.queue)
             /\ w.deadline # NoDeadline /\ w.deadline <= now

\* A wait never returns an event whose registration was removed or changed
\* since the event was reserved for it, nor one of a deleted queue.
ReceivedIsCurrent ==
  [][\A h \in Handles : \A i \in DOMAIN waiters[h].events :
       LET e == waiters[h].events[i]
           q == waiters[h].queue
       IN  (received'[q][e.number] > received[q][e.number]
              /\ waiters'[h] = NoWaiter /\ sched.current = h) =>
             Live(q) /\ IsCurrent(queues[q], e)]_vars

\* A wait ends when its deadline comes or its queue is deleted, with events or
\* without.
WaitsEnd ==
  \A h \in Handles :
    (waiters[h].deadline # NoDeadline \/
       \E q \in Queues : waiters[h].queue = q /\ queues[q].state = "deleted")
      ~> waiters[h] = NoWaiter
=============================================================================

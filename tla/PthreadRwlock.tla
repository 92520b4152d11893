---------------------------- MODULE PthreadRwlock ---------------------------
(***************************************************************************)
(* The read-write locks of kernel::PthreadService over the guest           *)
(* scheduler.  A lock call that cannot be served at once joins one queue of *)
(* readers and writers; whoever leaves the lock empty hands it to the front *)
(* of the queue: one writer, or every reader up to the next writer.         *)
(***************************************************************************)
EXTENDS GuestThreads

CONSTANTS MaxRwlock,     \* the bound on the rwlock handles
          MaxReadCount   \* the largest count of one reader's acquisitions

ASSUME RwlockAssumption ==
  /\ MaxRwlock \in Nat \ {0}
  /\ MaxReadCount \in Nat \ {0}

Rwlocks == 1 .. MaxRwlock    \* the slots of the guest arena, reused

VARIABLE rwlocks         \* rwlocks_

vars == <<sched, now, call, rwlocks>>

RwlockWaitKey(l, h) == <<"pthread-rwlock", l, h>>

\* readers[h] is the acquisition count of h, 0 when h is not in the map.
NoRwlock == [live |-> FALSE, writer |-> NoThread,
             readers |-> [h \in Handles |-> 0], waiters |-> <<>>,
             granted_readers |-> {}, granted_writer |-> NoThread]

Init == Started /\ rwlocks = [l \in Rwlocks |-> NoRwlock]

Reading(x) == {h \in Handles : x.readers[h] > 0}
Free(x) == x.writer = NoThread /\ Reading(x) = {}
QueuedThreads(x) == {x.waiters[i].thread : i \in DOMAIN x.waiters}

-----------------------------------------------------------------------------
(* The operations as functions of one rwlock's state x.                    *)

\* Variant for the checks: a lock that is free is taken past the queue, and a
\* reader joins the readers past a queued writer.
StatusReadersBarge(x, h, write, try_only) ==
  CASE write /\ x.writer = h /\ x.granted_writer = h -> "kOk"
    [] ~write /\ h \in x.granted_readers -> "kOk"
    [] ~write /\ x.writer # h -> "kOk"
    [] x.writer = h \/ x.readers[h] > 0 -> "kInvalidArgument"
    [] Free(x) -> "kOk"
    [] OTHER -> IF try_only THEN "kBusy" ELSE "kWouldBlock"

RwlockStatus(x, h, write, try_only) ==
  CASE write /\ x.writer = h /\ x.granted_writer = h -> "kOk"
    [] ~write /\ h \in x.granted_readers -> "kOk"
    [] /\ write /\ ~(x.writer = h /\ x.granted_writer = h)
       /\ x.writer = h \/ x.readers[h] > 0 -> "kInvalidArgument"
    [] ~write /\ h \notin x.granted_readers /\ x.readers[h] > 0 ->
         IF x.readers[h] = MaxReadCount THEN "kNoResources" ELSE "kOk"
    [] /\ ~write /\ h \notin x.granted_readers /\ x.readers[h] = 0
       /\ x.writer = h -> "kInvalidArgument"
    [] OTHER -> IF Free(x) /\ x.waiters = <<>> THEN "kOk"
                ELSE IF try_only THEN "kBusy" ELSE "kWouldBlock"

\* Variant for the checks: the repeated call leaves its grant in place.
AfterLockKeepsGrant(x, h, write, try_only) ==
  LET status == RwlockStatus(x, h, write, try_only)
  IN  CASE status = "kWouldBlock" ->
             IF h \in QueuedThreads(x) THEN x
             ELSE [x EXCEPT !.waiters =
                              Append(@, [thread |-> h, write |-> write])]
        [] status = "kOk" /\ write -> [x EXCEPT !.writer = h]
        [] status = "kOk" /\ ~write /\ h \notin x.granted_readers ->
             [x EXCEPT !.readers[h] = @ + 1]
        [] OTHER -> x

AfterLock(x, h, write, try_only) ==
  LET status == RwlockStatus(x, h, write, try_only)
  IN  CASE status = "kWouldBlock" ->
             IF h \in QueuedThreads(x) THEN x
             ELSE [x EXCEPT !.waiters =
                              Append(@, [thread |-> h, write |-> write])]
        [] status = "kOk" /\ write /\ x.writer = h ->
             [x EXCEPT !.granted_writer = NoThread]
        [] status = "kOk" /\ write /\ x.writer # h ->
             [x EXCEPT !.writer = h]
        [] status = "kOk" /\ ~write /\ h \in x.granted_readers ->
             [x EXCEPT !.granted_readers = @ \ {h}]
        [] status = "kOk" /\ ~write /\ h \notin x.granted_readers ->
             [x EXCEPT !.readers[h] = @ + 1]
        [] OTHER -> x

\* How many queue entries are handed an empty lock.
GrantCount(x) ==
  LET writers == {i \in DOMAIN x.waiters : x.waiters[i].write}
  IN  CASE ~Free(x) \/ x.waiters = <<>> -> 0
        [] Free(x) /\ 1 \in writers -> 1
        [] OTHER -> IF writers = {} THEN Len(x.waiters)
                    ELSE (CHOOSE i \in writers : \A j \in writers : i <= j) - 1

\* Variant for the checks: the newest entry of the queue is handed the lock.
GrantNewest(x) ==
  LET n == Len(x.waiters)
  IN  IF ~Free(x) \/ n = 0 THEN x
      ELSE [x EXCEPT !.writer = x.waiters[n].thread,
                     !.granted_writer = x.waiters[n].thread,
                     !.waiters = SubSeq(@, 1, n - 1)]

\* GrantRwlockWaitersLocked.
GrantWaiters(x) ==
  LET n == GrantCount(x)
      G == {x.waiters[i].thread : i \in 1 .. n}
  IN  CASE n = 0 -> x
        [] n > 0 /\ x.waiters[1].write ->
             [x EXCEPT !.writer = x.waiters[1].thread,
                       !.granted_writer = x.waiters[1].thread,
                       !.waiters = Tail(@)]
        [] OTHER ->
             [x EXCEPT !.readers = [h \in Handles |-> IF h \in G THEN 1 ELSE @[h]],
                       !.granted_readers = @ \cup G,
                       !.waiters = SubSeq(@, n + 1, Len(@))]

\* The wake-ups that go with it.
GrantKeys(l, x) ==
  [i \in 1 .. GrantCount(x) |-> RwlockWaitKey(l, x.waiters[i].thread)]

\* The lock after h gave one acquisition up, before it is handed on.
Unlocked(x, h) ==
  IF x.writer = h THEN [x EXCEPT !.writer = NoThread]
                  ELSE [x EXCEPT !.readers[h] = @ - 1]

\* The lock after the exiting h dropped all it had, before it is handed on.
Abandoned(x, h) ==
  [x EXCEPT
     !.writer = IF @ = h THEN NoThread ELSE @,
     !.granted_writer = IF x.writer = h THEN NoThread ELSE @,
     !.readers[h] = 0,
     !.granted_readers = IF x.readers[h] > 0 THEN @ \ {h} ELSE @,
     !.waiters = EntriesAt(@, {i \in DOMAIN @ : @[i].thread # h})]

Held(x, h) == x.writer = h \/ x.readers[h] > 0

-----------------------------------------------------------------------------
(* The operations.                                                         *)

CreateRwlock(h, l) ==
  /\ MayCall(h, NoCall)
  /\ ~rwlocks[l].live
  /\ rwlocks' = [rwlocks EXCEPT ![l] = [NoRwlock EXCEPT !.live = TRUE]]
  /\ UNCHANGED <<sched, now, call>>

DestroyRwlock(h, l) ==
  /\ MayCall(h, NoCall)
  /\ rwlocks[l].live
  /\ Free(rwlocks[l])
  /\ rwlocks[l].waiters = <<>>
  /\ rwlocks[l].granted_readers = {}
  /\ rwlocks[l].granted_writer = NoThread
  /\ rwlocks' = [rwlocks EXCEPT ![l] = NoRwlock]
  /\ UNCHANGED <<sched, now, call>>

LockCall(l, write) == <<"rwlock", l, write>>

LockRwlock(h, l, write, try_only) ==
  LET status == RwlockStatus(rwlocks[l], h, write, try_only)
  IN  /\ MayCall(h, IF try_only THEN NoCall ELSE LockCall(l, write))
      /\ rwlocks[l].live
      /\ rwlocks' = [rwlocks EXCEPT ![l] = AfterLock(@, h, write, try_only)]
      /\ sched' = IF status = "kWouldBlock"
                  THEN BlockCurrent(sched, RwlockWaitKey(l, h)) ELSE sched
      /\ call' = CallAfter(h, LockCall(l, write), status)
      /\ UNCHANGED now

UnlockRwlock(h, l) ==
  LET x == Unlocked(rwlocks[l], h)
  IN  /\ MayCall(h, NoCall)
      /\ rwlocks[l].live
      /\ Held(rwlocks[l], h)
      /\ rwlocks' = [rwlocks EXCEPT ![l] = GrantWaiters(x)]
      /\ sched' = WakeInTurn(sched, GrantKeys(l, x), now)
      /\ UNCHANGED <<now, call>>

\* Variant for the checks: the exit frees the lock and hands it to nobody.
ExitKeepsQueue(h) ==
  /\ sched.current = h /\ sched.state[h] = "running"
  /\ rwlocks' = [l \in Rwlocks |-> Abandoned(rwlocks[l], h)]
  /\ sched' = ExitCurrent(sched)
  /\ call' = [call EXCEPT ![h] = NoCall]
  /\ UNCHANGED now

\* PthreadService::ExitCurrent, for the rwlocks: it hands on each one that the
\* thread held and that is now empty.
Exit(h) ==
  LET left(l)   == Abandoned(rwlocks[l], h)
      handed    == InOrder({l \in Rwlocks : /\ Held(rwlocks[l], h)
                                            /\ GrantCount(left(l)) > 0})
      keys      == Joined([i \in DOMAIN handed |->
                             GrantKeys(handed[i], left(handed[i]))])
  IN  /\ sched.current = h /\ sched.state[h] = "running"
      /\ rwlocks' = [l \in Rwlocks |-> IF Held(rwlocks[l], h)
                                       THEN GrantWaiters(left(l)) ELSE left(l)]
      /\ sched' = ExitCurrent(WakeInTurn(sched, keys, now))
      /\ call' = [call EXCEPT ![h] = NoCall]
      /\ UNCHANGED now

Operation(h) ==
  \/ Relinquish(h) /\ UNCHANGED rwlocks
  \/ \E l \in Rwlocks : CreateRwlock(h, l)
  \/ \E l \in Rwlocks : DestroyRwlock(h, l)
  \/ \E l \in Rwlocks, write, try_only \in BOOLEAN :
       LockRwlock(h, l, write, try_only)
  \/ \E l \in Rwlocks : UnlockRwlock(h, l)
  \/ Exit(h)

Next ==
  \/ Dispatch /\ UNCHANGED rwlocks
  \/ \E h \in Handles : Operation(h)

Spec == Init /\ [][Next]_vars

-----------------------------------------------------------------------------
(* Properties.                                                             *)

WaitKeys ==
  {ThreadExitWaitKey(h) : h \in Handles}
  \cup {RwlockWaitKey(l, h) : l \in Rwlocks, h \in Handles}

Waiters == [thread : Handles, write : BOOLEAN]
RwlockRecords ==
  [live : BOOLEAN, writer : Handles \cup {NoThread},
   readers : [Handles -> 0 .. MaxReadCount], waiters : Seq(Waiters),
   granted_readers : SUBSET Handles, granted_writer : Handles \cup {NoThread}]

Calls == {NoCall} \cup {LockCall(l, write) : l \in Rwlocks, write \in BOOLEAN}

TypeOK ==
  /\ SchedulerOK(sched, WaitKeys)
  /\ now \in 0 .. MaxTime
  /\ call \in [Handles -> Calls]
  /\ rwlocks \in [Rwlocks -> RwlockRecords]

\* A writer is alone: the lock calls, the grants and the exits of any mix of
\* threads never let a writer hold the lock with a reader or after it is gone.
WriterExcludes ==
  \A l \in Rwlocks :
    LET x == rwlocks[l]
    IN  /\ x.writer # NoThread => Reading(x) = {}
        /\ \A h \in Handles : Held(x, h) => sched.state[h] # "exited"

\* The queue serves: exactly the queued threads sleep on the lock, each queued
\* once, and never beside a free lock; whoever empties it, by unlock or by exit,
\* hands it on in the same step.
WaitersAreBlocked ==
  \A l \in Rwlocks :
    LET q == rwlocks[l].waiters
    IN  /\ \A i, j \in DOMAIN q : q[i].thread = q[j].thread => i = j
        /\ QueuedThreads(rwlocks[l]) =
             {h \in Handles : sched.wait_key[h] = RwlockWaitKey(l, h)}
        /\ q # <<>> => ~Free(rwlocks[l])

\* A grant belongs to a thread that holds what it was granted, is awake and
\* will repeat the matching call: no unlock leaves a grant behind that would
\* let a later lock call in without a lock, or keep the object from being
\* destroyed.
GrantIsTaken ==
  \A l \in Rwlocks :
    LET x == rwlocks[l]
    IN  /\ x.granted_writer # NoThread =>
             /\ x.writer = x.granted_writer
             /\ call[x.writer] = LockCall(l, TRUE)
             /\ sched.state[x.writer] \in {"ready", "running"}
        /\ \A h \in x.granted_readers :
             /\ x.readers[h] > 0
             /\ call[h] = LockCall(l, FALSE)
             /\ sched.state[h] \in {"ready", "running"}

\* The queue is served in order: a thread that is queued holds the lock later
\* only after every writer in front of it left the queue, and a writer only
\* after everybody in front of it did.
ServedInOrder ==
  [][\A l \in Rwlocks :
       LET q == rwlocks[l].waiters
       IN  \A i, j \in DOMAIN q :
             (i < j /\ (q[i].write \/ q[j].write)
                /\ Held(rwlocks'[l], q[j].thread)) =>
               q[i].thread \notin QueuedThreads(rwlocks'[l])]_vars
=============================================================================

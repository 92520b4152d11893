-------------------------- MODULE EventQueueProofs --------------------------
(***************************************************************************)
(* The event queues are correct for any number of threads, queues,          *)
(* identifiers, generations and triggers: an edge event has one destination, *)
(* nobody with time left sleeps beside a pending event, waiter entries and   *)
(* threads agree, and a wait returns only events that are current.           *)
(*                                                                         *)
(* The events of a queue are spread over places: the pending list and the   *)
(* waiter entries they are reserved in (Places).  EventsOK says of them that *)
(* a number names one event, that an edge event is at one place at most, and *)
(* at none once it was received.  Every step moves events from place to      *)
(* place, drops some, or adds one with a new number (Flows).                 *)
(***************************************************************************)
EXTENDS EventQueue, SchedulerLemmas, FiniteSetTheorems

-----------------------------------------------------------------------------
(* The inductive invariant.                                                 *)

\* The places of the events of queue q: at 0 those pending, s, and at h those
\* reserved in the entry of thread h.
Places(q, s, ws) ==
  [k \in 0 .. MaxHandle |-> IF k = 0 THEN s
                            ELSE IF ws[k].queue = q THEN ws[k].events ELSE <<>>]

\* The events c of a queue, of which rec[n] copies of edge event n were received,
\* after t triggers.
EventsOK(c, rec, t) ==
  /\ \A k, l \in DOMAIN c : \A i \in DOMAIN c[k], j \in DOMAIN c[l] :
       c[k][i].number = c[l][j].number =>
         c[k][i] = c[l][j] /\ (c[k][i].persistent \/ (k = l /\ i = j))
  /\ \A k \in DOMAIN c : \A i \in DOMAIN c[k] :
       /\ c[k][i].number <= t
       /\ ~c[k][i].persistent => rec[c[k][i].number] = 0
  /\ \A n \in DOMAIN rec : rec[n] \in {0, 1} /\ (rec[n] = 1 => n <= t)

\* A queue that is not live is empty, and what is pending is current.
QueueOK(x) ==
  /\ x.state # "live" => x.registrations = <<>> /\ x.pending = <<>>
  /\ \A i \in DOMAIN x.pending : IsCurrent(x, x.pending[i])

\* The entry w of thread h, under the scheduler s and the calls c.
WaiterOK(h, w, s, c, time) ==
  /\ s.state[h] \in {"ready", "running", "blocked"}
  /\ w.events # <<>> => w.completion = "reserved"
  /\ c[h] = IF w.completion = "none" THEN NoCall ELSE WaitCall(w.queue)
  /\ s.wait_key[h] # NoKey =>
       /\ w.completion = "waiting" /\ s.wait_key[h] = WaitKey(w.queue)
       /\ s.deadline[h] = w.deadline
  /\ w.completion = "waiting" /\ s.wait_key[h] = NoKey =>
       /\ s.timed_out[h] = WaitKey(w.queue)
       /\ w.deadline # NoDeadline /\ w.deadline <= time

\* An entry with time left waits on a queue with nothing pending.
Served(x, q, ws, time) ==
  \A h \in Handles :
    ws[h].queue = q /\ ws[h].completion = "waiting"
      /\ (ws[h].deadline = NoDeadline \/ ws[h].deadline > time) => x.pending = <<>>

IInv ==
  /\ TypeOK
  /\ \A h \in Handles : WaiterOK(h, waiters[h], sched, call, now)
  /\ \A q \in Queues :
       /\ QueueOK(queues[q])
       /\ Served(queues[q], q, waiters, now)
       /\ EventsOK(Places(q, queues[q].pending, waiters), received[q], triggers)

-----------------------------------------------------------------------------
(* Keys, calls and small sets.                                              *)

\* The wait keys of the queues differ, and are no thread's exit key.
LEMMA KeyFacts ==
  /\ \A q : WaitKey(q) # NoKey /\ WaitCall(q) # NoCall
  /\ \A q, p : WaitKey(q) = WaitKey(p) => q = p
  /\ \A q, p : WaitCall(q) = WaitCall(p) => q = p
  /\ \A q, h : WaitKey(q) # ThreadExitWaitKey(h)
BY DEF WaitKey, WaitCall, NoKey, NoCall, ThreadExitWaitKey

LEMMA NoKeyNotWaitKey == NoKey \notin WaitKeys
BY KeyFacts DEF WaitKeys

\* A set with at most one element.
LEMMA AtMostOne ==
  ASSUME NEW S, \A x, y \in S : x = y
  PROVE  /\ Cardinality(S) \in {0, 1}
         /\ Cardinality(S) = 0 => S = {}
<1>1. CASE S = {}
  BY <1>1, FS_EmptySet
<1>2. CASE S # {}
  <2>1. PICK x : x \in S
    BY <1>2
  <2>2. S = {x}
    BY <2>1
  <2>3. Cardinality({x}) = 1
    BY FS_Singleton
  <2> QED BY <1>2, <2>2, <2>3
<1> QED BY <1>1, <1>2

-----------------------------------------------------------------------------
(* What the operators on sequences of events take, keep and drop.           *)

LEMMA EmptySeq ==
  ASSUME NEW S, NEW s \in Seq(S), DOMAIN s = {}
  PROVE  s = <<>>
<1>1. Len(s) \in Nat /\ DOMAIN s = 1 .. Len(s)
  OBVIOUS
<1>2. Len(s) = 0
  <2>1. ~(1 \in 1 .. Len(s))
    BY <1>1
  <2> QED BY <1>1, <2>1
<1> QED BY <1>2

\* The entries of r are entries of s, each from a place of its own, idx.
Draws(s, r, idx) ==
  /\ idx \in [DOMAIN r -> DOMAIN s]
  /\ \A k \in DOMAIN r : r[k] = s[idx[k]]
  /\ \A k, l \in DOMAIN r : idx[k] = idx[l] => k = l

\* EntriesAt draws its entries from the positions it is given.
LEMMA EntriesDraw ==
  ASSUME NEW S, NEW s \in Seq(S), NEW I \in SUBSET DOMAIN s
  PROVE  LET r == EntriesAt(s, I)
         IN  /\ r \in Seq(S)
             /\ \E idx : Draws(s, r, idx) /\ \A k \in DOMAIN r : idx[k] \in I
             /\ r = <<>> => I = {}
<1> DEFINE r == EntriesAt(s, I)
<1>1. r \in Seq(S) /\ Picks(s, I, r)
  BY EntriesAtFacts
<1> HIDE DEF r
<1>2. PICK idx \in [DOMAIN r -> I] :
         /\ \A k \in DOMAIN r : r[k] = s[idx[k]]
         /\ \A k, l \in DOMAIN r : idx[k] = idx[l] => k = l
         /\ \A i \in I : \E k \in DOMAIN r : idx[k] = i
  BY <1>1 DEF Picks
<1>3. Draws(s, r, idx) /\ \A k \in DOMAIN r : idx[k] \in I
  BY <1>2 DEF Draws
<1>4. r = <<>> => I = {}
  <2>1. r = <<>> => DOMAIN r = {}
    BY <1>1
  <2> QED BY <1>2, <2>1
<1> QED BY <1>1, <1>3, <1>4 DEF r

\* A poll takes a beginning of the list, not an empty one when there is
\* something to take.
LEMMA TakenFacts ==
  ASSUME NEW s \in Seq(EventType), NEW n \in Nat
  PROVE  /\ TakeCount(s, n) \in 0 .. Len(s)
         /\ Taken(s, n) \in Seq(EventType)
         /\ DOMAIN Taken(s, n) = 1 .. TakeCount(s, n)
         /\ \A i \in 1 .. TakeCount(s, n) : i \in DOMAIN s /\ Taken(s, n)[i] = s[i]
         /\ n # 0 /\ s # <<>> => Taken(s, n) # <<>> /\ 1 \in DOMAIN Taken(s, n)
<1> DEFINE c == TakeCount(s, n)
<1>1. c \in 0 .. Len(s) /\ Len(s) \in Nat
  BY DEF TakeCount
<1>2. Taken(s, n) = SubSeq(s, 1, c)
  BY DEF Taken
<1>3. n # 0 /\ s # <<>> => c # 0
  BY DEF TakeCount
<1> HIDE DEF c
<1>4. /\ SubSeq(s, 1, c) \in Seq(EventType)
      /\ DOMAIN SubSeq(s, 1, c) = 1 .. c
      /\ \A i \in 1 .. c : i \in DOMAIN s /\ SubSeq(s, 1, c)[i] = s[i]
  BY <1>1
<1>5. c # 0 => SubSeq(s, 1, c) # <<>> /\ 1 \in DOMAIN SubSeq(s, 1, c)
  BY <1>1, <1>4
<1> QED BY <1>1, <1>2, <1>3, <1>4, <1>5 DEF c

\* What a poll leaves was there before; of what it took, only level events go
\* back.
LEMMA PollDraws ==
  ASSUME NEW s \in Seq(EventType), NEW n \in Nat
  PROVE  LET r == AfterPoll(s, n)
         IN  /\ r \in Seq(EventType)
             /\ \E idx : /\ Draws(s, r, idx)
                         /\ \A k \in DOMAIN r : idx[k] <= TakeCount(s, n) =>
                                                  r[k].persistent
<1> DEFINE c == TakeCount(s, n)
           a == SubSeq(s, c + 1, Len(s))
           m == Len(a)
           taken == Taken(s, n)
           I == {i \in DOMAIN taken : taken[i].persistent}
           b == EntriesAt(taken, I)
           r == AfterPoll(s, n)
<1>1. /\ c \in 0 .. Len(s) /\ Len(s) \in Nat
      /\ taken \in Seq(EventType) /\ DOMAIN taken = 1 .. c
      /\ \A i \in 1 .. c : i \in DOMAIN s /\ taken[i] = s[i]
  <2>1. Len(s) \in Nat
    OBVIOUS
  <2> QED BY <2>1, TakenFacts, Zenon
<1>2. r = a \o b
  BY DEF AfterPoll
<1>3. /\ a \in Seq(EventType) /\ m = Len(s) - c /\ DOMAIN a = 1 .. m
      /\ \A i \in 1 .. m : c + i \in DOMAIN s /\ a[i] = s[c + i]
  <2> HIDE DEF c
  <2> QED BY <1>1
<1>4. b \in Seq(EventType)
  <2> HIDE DEF taken
  <2> QED BY <1>1, EntriesDraw
<1>5. PICK idb : Draws(taken, b, idb) /\ \A k \in DOMAIN b : idb[k] \in I
  <2> HIDE DEF taken
  <2> QED BY <1>1, EntriesDraw
<1> HIDE DEF a, b, r, taken, c
<1>6. \A k \in DOMAIN b : /\ idb[k] \in 1 .. c /\ idb[k] \in DOMAIN s
                          /\ b[k] = s[idb[k]] /\ b[k].persistent
  BY <1>1, <1>5 DEF Draws
<1>7. /\ r \in Seq(EventType) /\ Len(b) \in Nat
      /\ DOMAIN r = 1 .. (m + Len(b)) /\ DOMAIN b = 1 .. Len(b)
      /\ \A i \in 1 .. m : r[i] = a[i]
      /\ \A i \in 1 .. Len(b) : r[m + i] = b[i]
  BY <1>2, <1>3, <1>4, ConcatFacts
<1> DEFINE idx == [k \in DOMAIN r |-> IF k <= m THEN c + k ELSE idb[k - m]]
<1>8. ASSUME NEW k \in DOMAIN r
      PROVE  \/ /\ k \in 1 .. m /\ idx[k] = c + k /\ idx[k] \in DOMAIN s
                /\ r[k] = s[idx[k]] /\ ~(idx[k] <= c)
             \/ /\ k - m \in DOMAIN b /\ idx[k] = idb[k - m]
                /\ idx[k] \in DOMAIN s /\ idx[k] <= c
                /\ r[k] = s[idx[k]] /\ r[k].persistent
  <2>1. CASE k <= m
    BY <1>1, <1>3, <1>7, <2>1
  <2>2. CASE ~(k <= m)
    <3>1. k - m \in 1 .. Len(b) /\ k = m + (k - m) /\ m \in Nat
      BY <1>1, <1>3, <1>7, <2>2
    <3>2. r[k] = b[k - m] /\ idx[k] = idb[k - m]
      BY <3>1, <1>7, <2>2
    <3>3. idb[k - m] \in 1 .. c /\ idb[k - m] <= c
      BY <3>1, <1>1, <1>6, <1>7
    <3> QED BY <3>1, <3>2, <3>3, <1>6, <1>7
  <2> QED BY <2>1, <2>2
<1>9. \A k, l \in DOMAIN r : idx[k] = idx[l] => k = l
  <2> SUFFICES ASSUME NEW k \in DOMAIN r, NEW l \in DOMAIN r, idx[k] = idx[l]
               PROVE  k = l
    OBVIOUS
  <2>1. k \in Int /\ l \in Int /\ m \in Int /\ c \in Int
    BY <1>1, <1>3, <1>7
  <2> HIDE DEF idx
  <2>2. CASE k \in 1 .. m /\ idx[k] = c + k /\ ~(idx[k] <= c)
    <3>1. l \in 1 .. m /\ idx[l] = c + l
      BY <1>8, <2>2
    <3>2. c + k = c + l
      BY <2>2, <3>1
    <3> QED BY <2>1, <3>2
  <2>3. CASE k - m \in DOMAIN b /\ idx[k] = idb[k - m] /\ idx[k] <= c
    <3>1. l - m \in DOMAIN b /\ idx[l] = idb[l - m]
      BY <1>8, <2>3
    <3>2. k - m = l - m
      BY <2>3, <3>1, <1>5 DEF Draws
    <3> QED BY <2>1, <3>2
  <2>4. \/ k \in 1 .. m /\ idx[k] = c + k /\ ~(idx[k] <= c)
        \/ k - m \in DOMAIN b /\ idx[k] = idb[k - m] /\ idx[k] <= c
    BY <1>8, Zenon
  <2> QED BY <2>2, <2>3, <2>4, Zenon
<1>10. idx \in [DOMAIN r -> DOMAIN s]
  BY <1>8
<1>11. Draws(s, r, idx) /\ \A k \in DOMAIN r : idx[k] <= c => r[k].persistent
  <2> HIDE DEF idx
  <2> QED BY <1>8, <1>9, <1>10 DEF Draws
<1> QED BY <1>7, <1>11 DEF r, c
-----------------------------------------------------------------------------
(* Events move from place to place.                                         *)

Spread == [0 .. MaxHandle -> Seq(EventType)]

\* Place 0 is the pending list, the others are the threads'.
LEMMA PlaceFacts ==
  /\ 0 \in 0 .. MaxHandle /\ 0 \notin Handles /\ MaxHandle \in Handles
  /\ \A l \in 0 .. MaxHandle : l = 0 \/ l \in Handles
  /\ \A l \in Handles : l \in 0 .. MaxHandle /\ l - 1 \in 0 .. MaxHandle
BY MaxHandleAssumption DEF Handles

\* The events d are events of c: those at place l come from place K[l] of c,
\* from the positions P[l], and two come from one position only when they are
\* copies of a level event.
Flows(c, d, K, P) ==
  /\ \A l \in DOMAIN d : K[l] \in DOMAIN c
  /\ \A l \in DOMAIN d : \A i \in DOMAIN d[l] :
       P[l][i] \in DOMAIN c[K[l]] /\ d[l][i] = c[K[l]][P[l][i]]
  /\ \A l, m \in DOMAIN d : \A i \in DOMAIN d[l], j \in DOMAIN d[m] :
       K[l] = K[m] /\ P[l][i] = P[m][j] =>
         d[l][i].persistent \/ (l = m /\ i = j)

\* Moving events keeps EventsOK.
LEMMA FlowsKeep ==
  ASSUME NEW c, NEW rec, NEW t, EventsOK(c, rec, t), NEW d, NEW K, NEW P,
         Flows(c, d, K, P)
  PROVE  EventsOK(d, rec, t)
<1>1. ASSUME NEW l \in DOMAIN d, NEW m \in DOMAIN d,
             NEW i \in DOMAIN d[l], NEW j \in DOMAIN d[m],
             d[l][i].number = d[m][j].number
      PROVE  d[l][i] = d[m][j] /\ (d[l][i].persistent \/ (l = m /\ i = j))
  <2>1. /\ K[l] \in DOMAIN c /\ P[l][i] \in DOMAIN c[K[l]]
        /\ d[l][i] = c[K[l]][P[l][i]]
        /\ K[m] \in DOMAIN c /\ P[m][j] \in DOMAIN c[K[m]]
        /\ d[m][j] = c[K[m]][P[m][j]]
    BY DEF Flows
  <2>2. /\ d[l][i] = d[m][j]
        /\ d[l][i].persistent \/ (K[l] = K[m] /\ P[l][i] = P[m][j])
    BY <1>1, <2>1 DEF EventsOK
  <2> QED BY <2>2 DEF Flows
<1>2. ASSUME NEW l \in DOMAIN d, NEW i \in DOMAIN d[l]
      PROVE  /\ d[l][i].number <= t
             /\ ~d[l][i].persistent => rec[d[l][i].number] = 0
  BY DEF Flows, EventsOK
<1>3. \A n \in DOMAIN rec : rec[n] \in {0, 1} /\ (rec[n] = 1 => n <= t)
  BY DEF EventsOK
<1> QED BY <1>1, <1>2, <1>3 DEF EventsOK

\* What the events that are kept draw from: dropping events keeps EventsOK.
LEMMA DropKeeps ==
  ASSUME NEW c \in Spread, NEW rec, NEW t, EventsOK(c, rec, t),
         NEW d \in Spread,
         \A l \in 0 .. MaxHandle : \E idx : Draws(c[l], d[l], idx)
  PROVE  EventsOK(d, rec, t)
<1> DEFINE P == [l \in 0 .. MaxHandle |-> CHOOSE idx : Draws(c[l], d[l], idx)]
           K == [l \in 0 .. MaxHandle |-> l]
<1>1. \A l \in 0 .. MaxHandle : Draws(c[l], d[l], P[l])
  OBVIOUS
<1>2. \A l \in 0 .. MaxHandle : K[l] = l
  OBVIOUS
<1>3. DOMAIN c = 0 .. MaxHandle /\ DOMAIN d = 0 .. MaxHandle
  BY DEF Spread
<1> HIDE DEF P, K
<1>4. Flows(c, d, K, P)
  BY <1>1, <1>2, <1>3 DEF Flows, Draws
<1> QED BY <1>4, FlowsKeep

LEMMA DrawsAll ==
  ASSUME NEW s \in Seq(EventType)
  PROVE  /\ \E idx : Draws(s, s, idx)
         /\ \E idx : Draws(s, <<>>, idx)
<1>1. Draws(s, s, [i \in DOMAIN s |-> i])
  BY DEF Draws
<1>2. Draws(s, <<>>, [i \in DOMAIN <<>> |-> i])
  BY DEF Draws
<1> QED BY <1>1, <1>2

\* What a call that returns the events ev of queue q adds to what was received.
Received(rec, ev) ==
  [n \in 1 .. MaxTriggers |->
     rec[n] + Cardinality({i \in DOMAIN ev : ev[i].number = n /\ ~ev[i].persistent})]

\* Events are received that were at place k, from the positions X, and that no
\* place of d holds any more.
LEMMA ReceiveKeeps ==
  ASSUME NEW c \in Spread, NEW rec \in [1 .. MaxTriggers -> Nat],
         NEW t \in Nat, EventsOK(c, rec, t),
         NEW d \in Spread, EventsOK(d, rec, t),
         NEW ev \in Seq(EventType), NEW k \in 0 .. MaxHandle,
         NEW X, Draws(c[k], ev, X),
         \A l \in 0 .. MaxHandle : \A i \in DOMAIN d[l], j \in DOMAIN ev :
           d[l][i].number = ev[j].number => d[l][i].persistent
  PROVE  /\ EventsOK(d, Received(rec, ev), t)
         /\ Received(rec, ev) \in [1 .. MaxTriggers -> Nat]
<1> DEFINE r == Received(rec, ev)
           Of(n) == {i \in DOMAIN ev : ev[i].number = n /\ ~ev[i].persistent}
<1>1. DOMAIN c = 0 .. MaxHandle /\ DOMAIN d = 0 .. MaxHandle
  BY DEF Spread
<1>2. \A i \in DOMAIN ev : /\ X[i] \in DOMAIN c[k] /\ ev[i] = c[k][X[i]]
                           /\ ev[i].number <= t
                           /\ ~ev[i].persistent => rec[ev[i].number] = 0
  BY <1>1 DEF Draws, EventsOK
<1>3. ASSUME NEW n \in 1 .. MaxTriggers, NEW i \in Of(n), NEW j \in Of(n)
      PROVE  i = j
  <2>1. i \in DOMAIN ev /\ j \in DOMAIN ev /\ ev[i].number = ev[j].number
        /\ ~ev[i].persistent
    OBVIOUS
  <2> HIDE DEF Of
  <2>2. X[i] = X[j]
    BY <2>1, <1>1, <1>2 DEF EventsOK
  <2> QED BY <2>1, <2>2 DEF Draws
<1>4. ASSUME NEW n \in 1 .. MaxTriggers
      PROVE  /\ Cardinality(Of(n)) \in {0, 1}
             /\ Cardinality(Of(n)) = 0 => Of(n) = {}
  <2>1. \A i, j \in Of(n) : i = j
    BY <1>3
  <2> HIDE DEF Of
  <2> QED BY <2>1, AtMostOne
<1>5. \A n \in 1 .. MaxTriggers : r[n] = rec[n] + Cardinality(Of(n))
  BY DEF Received
<1>6. \A n \in 1 .. MaxTriggers : rec[n] \in {0, 1} /\ (rec[n] = 1 => n <= t)
  BY DEF EventsOK
<1>7. DOMAIN r = 1 .. MaxTriggers /\ r = [n \in 1 .. MaxTriggers |-> r[n]]
  BY DEF Received
<1>8. \A n \in 1 .. MaxTriggers :
         Of(n) # {} => /\ rec[n] = 0 /\ n <= t
                       /\ \E i \in DOMAIN ev : ev[i].number = n
  BY <1>2
<1>9. \A n \in 1 .. MaxTriggers : \A i \in DOMAIN ev : i \in Of(n) => ev[i].number = n
  OBVIOUS
<1> HIDE DEF Of, r
<1>10. \A n \in 1 .. MaxTriggers :
         /\ r[n] \in {0, 1} /\ (r[n] = 1 => n <= t)
         /\ \/ Of(n) = {} /\ r[n] = rec[n]
            \/ Of(n) # {} /\ r[n] = 1
  <2> TAKE n \in 1 .. MaxTriggers
  <2>1. CASE Of(n) = {}
    <3>1. Cardinality(Of(n)) = 0
      BY <2>1, FS_EmptySet
    <3>2. r[n] = rec[n]
      BY <3>1, <1>5, <1>6
    <3> QED BY <3>2, <2>1, <1>6
  <2>2. CASE Of(n) # {}
    <3>1. Cardinality(Of(n)) = 1
      BY <2>2, <1>4
    <3>2. r[n] = 1
      BY <3>1, <2>2, <1>5, <1>8
    <3> QED BY <3>2, <2>2, <1>8
  <2> QED BY <2>1, <2>2
<1>11. ASSUME NEW l \in 0 .. MaxHandle, NEW i \in DOMAIN d[l], ~d[l][i].persistent
       PROVE  r[d[l][i].number] = 0
  <2>1. d[l][i].number \in 1 .. MaxTriggers
    <3>1. d[l] \in Seq(EventType)
      BY DEF Spread
    <3>2. d[l][i] \in EventType
      BY <3>1
    <3> QED BY <3>2 DEF EventType
  <2>2. rec[d[l][i].number] = 0
    BY <1>1, <1>11 DEF EventsOK
  <2>3. Of(d[l][i].number) = {}
    BY <1>11, <2>1, <1>8
  <2> QED BY <2>1, <2>2, <2>3, <1>10
<1>12. EventsOK(d, r, t)
  <2>1. \A n \in DOMAIN r : r[n] \in {0, 1} /\ (r[n] = 1 => n <= t)
    BY <1>7, <1>10
  <2>2. \A l \in DOMAIN d : \A i \in DOMAIN d[l] :
          /\ d[l][i].number <= t
          /\ ~d[l][i].persistent => r[d[l][i].number] = 0
    <3>1. \A l \in DOMAIN d : \A i \in DOMAIN d[l] : d[l][i].number <= t
      BY DEF EventsOK
    <3> QED BY <3>1, <1>1, <1>11, Zenon
  <2>3. \A l, m \in DOMAIN d : \A i \in DOMAIN d[l], j \in DOMAIN d[m] :
          d[l][i].number = d[m][j].number =>
            d[l][i] = d[m][j] /\ (d[l][i].persistent \/ (l = m /\ i = j))
    BY DEF EventsOK
  <2> QED BY <2>1, <2>2, <2>3 DEF EventsOK
<1>13. r \in [1 .. MaxTriggers -> Nat]
  BY <1>7, <1>10
<1> QED BY <1>12, <1>13 DEF r

\* A poll drops what it takes, up to the level events, and returns some of it.
LEMMA PollKeeps ==
  ASSUME NEW c \in Spread, NEW rec \in [1 .. MaxTriggers -> Nat],
         NEW t \in Nat, EventsOK(c, rec, t), NEW n \in Nat,
         NEW d \in Spread, d[0] = AfterPoll(c[0], n),
         \A l \in Handles : d[l] = c[l] \/ d[l] = <<>>,
         NEW I \in SUBSET DOMAIN Taken(c[0], n)
  PROVE  LET ev == EntriesAt(Taken(c[0], n), I)
         IN  /\ EventsOK(d, Received(rec, ev), t)
             /\ Received(rec, ev) \in [1 .. MaxTriggers -> Nat]
<1> DEFINE s == c[0]
           m == TakeCount(s, n)
           taken == Taken(s, n)
           ev == EntriesAt(taken, I)
<1>1. /\ s \in Seq(EventType) /\ 0 \in 0 .. MaxHandle
      /\ \A l \in 0 .. MaxHandle : l = 0 \/ l \in Handles
      /\ \A l \in 0 .. MaxHandle : c[l] \in Seq(EventType)
      /\ DOMAIN c = 0 .. MaxHandle
  BY PlaceFacts DEF Spread
<1>2. PICK idx : /\ Draws(s, d[0], idx)
                 /\ \A k \in DOMAIN d[0] : idx[k] <= m => d[0][k].persistent
  <2> HIDE DEF s
  <2>1. d[0] = AfterPoll(s, n)
    BY DEF s
  <2> QED BY <1>1, <2>1, PollDraws
<1>3. \A l \in 0 .. MaxHandle : \E x : Draws(c[l], d[l], x)
  <2> TAKE l \in 0 .. MaxHandle
  <2>1. CASE l = 0
    BY <2>1, <1>2
  <2>2. CASE l \in Handles
    <3>1. c[l] \in Seq(EventType)
      BY <1>1
    <3>2. CASE d[l] = c[l]
      BY <3>1, <3>2, DrawsAll
    <3>3. CASE d[l] = <<>>
      BY <3>1, <3>3, DrawsAll
    <3> QED BY <2>2, <3>2, <3>3
  <2> QED BY <1>1, <2>1, <2>2
<1>4. EventsOK(d, rec, t)
  BY <1>3, DropKeeps
<1>5. /\ taken \in Seq(EventType) /\ DOMAIN taken = 1 .. m /\ m \in Nat
      /\ \A i \in 1 .. m : i \in DOMAIN s /\ taken[i] = s[i]
  <2> HIDE DEF s
  <2>1. /\ taken \in Seq(EventType) /\ DOMAIN taken = 1 .. m /\ m \in 0 .. Len(s)
        /\ \A i \in 1 .. m : i \in DOMAIN s /\ taken[i] = s[i]
    BY <1>1, TakenFacts
  <2> QED BY <2>1, <1>1
<1> HIDE DEF taken, m, s
<1>6. ev \in Seq(EventType) /\ \E X : Draws(taken, ev, X)
  BY <1>5, EntriesDraw DEF taken, s
<1>7. PICK X : Draws(taken, ev, X)
  BY <1>6
<1> HIDE DEF ev
<1>8. /\ Draws(s, ev, X)
      /\ \A j \in DOMAIN ev : X[j] <= m
  <2>1. \A j \in DOMAIN ev : X[j] \in 1 .. m /\ X[j] \in DOMAIN s /\ ev[j] = s[X[j]]
    BY <1>5, <1>7 DEF Draws
  <2>2. X \in [DOMAIN ev -> DOMAIN s]
    BY <2>1, <1>7 DEF Draws
  <2>3. \A j \in DOMAIN ev : X[j] <= m
    BY <2>1, <1>5
  <2> QED BY <2>1, <2>2, <2>3, <1>7 DEF Draws
<1>9. ASSUME NEW l \in 0 .. MaxHandle, NEW i \in DOMAIN d[l], NEW j \in DOMAIN ev,
             d[l][i].number = ev[j].number
      PROVE  d[l][i].persistent
  <2>1. X[j] \in DOMAIN c[0] /\ ev[j] = c[0][X[j]] /\ X[j] <= m
    BY <1>8 DEF Draws, s
  <2>2. CASE l = 0
    <3>1. idx[i] \in DOMAIN c[0] /\ d[l][i] = c[0][idx[i]]
      BY <2>2, <1>2 DEF Draws, s
    <3>2. c[0][idx[i]].persistent \/ idx[i] = X[j]
      BY <1>1, <1>9, <2>1, <3>1 DEF EventsOK
    <3>3. CASE idx[i] = X[j]
      BY <3>3, <2>1, <2>2, <1>2
    <3> QED BY <3>1, <3>2, <3>3
  <2>3. CASE l \in Handles
    <3>1. d[l] # <<>>
      OBVIOUS
    <3>2. d[l] = c[l] /\ l # 0
      BY <2>3, <3>1 DEF Handles
    <3> QED BY <1>1, <1>9, <2>1, <3>2 DEF EventsOK
  <2> QED BY <1>1, <2>2, <2>3
<1>10. \A l \in 0 .. MaxHandle : \A i \in DOMAIN d[l], j \in DOMAIN ev :
         d[l][i].number = ev[j].number => d[l][i].persistent
  BY <1>9, Zenon
<1>11. /\ EventsOK(d, Received(rec, ev), t)
       /\ Received(rec, ev) \in [1 .. MaxTriggers -> Nat]
  <2>1. Draws(c[0], ev, X)
    BY <1>8 DEF s
  <2>2. ev \in Seq(EventType) /\ 0 \in 0 .. MaxHandle
    BY <1>1, <1>6
  <2> QED BY <1>4, <1>10, <2>1, <2>2, ReceiveKeeps
<1> QED BY <1>11 DEF ev, taken, s

\* The repeated call returns some of the events reserved for it and clears its
\* entry.
LEMMA ReturnKeeps ==
  ASSUME NEW c \in Spread, NEW rec \in [1 .. MaxTriggers -> Nat],
         NEW t \in Nat, EventsOK(c, rec, t), NEW h \in Handles,
         NEW d \in Spread, d[h] = <<>>,
         \A l \in 0 .. MaxHandle : l # h => d[l] = c[l],
         NEW I \in SUBSET DOMAIN c[h]
  PROVE  LET ev == EntriesAt(c[h], I)
         IN  /\ EventsOK(d, Received(rec, ev), t)
             /\ Received(rec, ev) \in [1 .. MaxTriggers -> Nat]
<1> DEFINE ev == EntriesAt(c[h], I)
<1>1. /\ h \in 0 .. MaxHandle /\ DOMAIN c = 0 .. MaxHandle
      /\ \A l \in 0 .. MaxHandle : c[l] \in Seq(EventType)
  BY PlaceFacts DEF Spread
<1>2. \A l \in 0 .. MaxHandle : \E x : Draws(c[l], d[l], x)
  <2> TAKE l \in 0 .. MaxHandle
  <2>1. c[l] \in Seq(EventType)
    BY <1>1
  <2>2. d[l] = c[l] \/ d[l] = <<>>
    OBVIOUS
  <2> QED BY <2>1, <2>2, DrawsAll
<1>3. EventsOK(d, rec, t)
  BY <1>2, DropKeeps
<1>4. ev \in Seq(EventType) /\ \E X : Draws(c[h], ev, X)
  BY <1>1, EntriesDraw
<1> HIDE DEF ev
<1>5. PICK X : Draws(c[h], ev, X)
  BY <1>4
<1>6. ASSUME NEW l \in 0 .. MaxHandle, NEW i \in DOMAIN d[l], NEW j \in DOMAIN ev,
             d[l][i].number = ev[j].number
      PROVE  d[l][i].persistent
  <2>1. X[j] \in DOMAIN c[h] /\ ev[j] = c[h][X[j]]
    BY <1>5 DEF Draws
  <2>2. d[l] # <<>>
    OBVIOUS
  <2>3. l # h /\ d[l] = c[l]
    BY <2>2
  <2>4. c[l][i].persistent \/ l = h
    BY <1>1, <1>6, <2>1, <2>3 DEF EventsOK
  <2> QED BY <2>3, <2>4, Zenon
<1>7. \A l \in 0 .. MaxHandle : \A i \in DOMAIN d[l], j \in DOMAIN ev :
        d[l][i].number = ev[j].number => d[l][i].persistent
  BY <1>6, Zenon
<1>8. /\ EventsOK(d, Received(rec, ev), t)
      /\ Received(rec, ev) \in [1 .. MaxTriggers -> Nat]
  BY <1>1, <1>3, <1>4, <1>5, <1>7, ReceiveKeeps
<1> QED BY <1>8 DEF ev

\* A waiter with nothing reserved is visited: what the poll takes is reserved
\* for it.
LEMMA ReserveKeeps ==
  ASSUME NEW c \in Spread, NEW rec, NEW t, EventsOK(c, rec, t), NEW n \in Nat,
         NEW h \in Handles, c[h] = <<>>,
         NEW d \in Spread, d[0] = AfterPoll(c[0], n), d[h] = Taken(c[0], n),
         \A l \in Handles : l # h => d[l] = c[l]
  PROVE  EventsOK(d, rec, t)
<1> DEFINE s == c[0]
           m == TakeCount(s, n)
<1>1. /\ s \in Seq(EventType) /\ 0 \in 0 .. MaxHandle /\ h \in 0 .. MaxHandle
      /\ \A l \in 0 .. MaxHandle : l = 0 \/ l \in Handles
      /\ 0 \notin Handles /\ \A l \in Handles : l \in 0 .. MaxHandle
      /\ DOMAIN c = 0 .. MaxHandle /\ DOMAIN d = 0 .. MaxHandle
  BY PlaceFacts DEF Spread
<1> HIDE DEF s
<1>2. PICK idx : /\ Draws(s, d[0], idx)
                 /\ \A k \in DOMAIN d[0] : idx[k] <= m => d[0][k].persistent
  <2>1. d[0] = AfterPoll(s, n)
    BY DEF s
  <2> QED BY <1>1, <2>1, PollDraws
<1>3. /\ DOMAIN d[h] = 1 .. m /\ m \in Nat
      /\ \A i \in 1 .. m : i \in DOMAIN s /\ d[h][i] = s[i]
  <2>1. d[h] = Taken(s, n)
    BY DEF s
  <2>2. DOMAIN d[h] = 1 .. m /\ m \in 0 .. Len(s)
        /\ \A i \in 1 .. m : i \in DOMAIN s /\ d[h][i] = s[i]
    BY <1>1, <2>1, TakenFacts
  <2> QED BY <2>2, <1>1
<1> HIDE DEF m
<1> DEFINE K == [l \in 0 .. MaxHandle |-> IF l = h THEN 0 ELSE l]
           P == [l \in 0 .. MaxHandle |-> IF l = 0 THEN idx ELSE [i \in DOMAIN d[l] |-> i]]
<1>4. /\ \A l \in 0 .. MaxHandle : K[l] = IF l = h THEN 0 ELSE l
      /\ P[0] = idx
      /\ \A l \in Handles : \A i \in DOMAIN d[l] : P[l][i] = i
  BY <1>1
<1> HIDE DEF K, P
<1>5. ASSUME NEW l \in 0 .. MaxHandle, NEW i \in DOMAIN d[l]
      PROVE  P[l][i] \in DOMAIN c[K[l]] /\ d[l][i] = c[K[l]][P[l][i]]
  <2>1. CASE l = 0
    BY <2>1, <1>1, <1>2, <1>4 DEF Draws, s
  <2>2. CASE l = h
    BY <2>2, <1>1, <1>3, <1>4 DEF s
  <2>3. CASE l \in Handles /\ l # h
    BY <2>3, <1>1, <1>4
  <2> QED BY <1>1, <2>1, <2>2, <2>3
<1>6. ASSUME NEW l \in 0 .. MaxHandle, NEW k \in 0 .. MaxHandle,
             NEW i \in DOMAIN d[l], NEW j \in DOMAIN d[k],
             K[l] = K[k], P[l][i] = P[k][j]
      PROVE  d[l][i].persistent \/ (l = k /\ i = j)
  <2>1. CASE l = 0 /\ k = h
    <3>1. idx[i] = j /\ j \in 1 .. m
      BY <2>1, <1>1, <1>3, <1>4, <1>6
    <3>2. idx[i] <= m
      BY <3>1, <1>3
    <3> QED BY <3>2, <2>1, <1>2, Zenon
  <2>2. CASE l = h /\ k = 0
    <3>1. idx[j] = i /\ i \in 1 .. m
      BY <2>2, <1>1, <1>3, <1>4, <1>6
    <3>2. idx[j] <= m
      BY <3>1, <1>3
    <3>3. d[0][j].persistent
      BY <3>2, <2>2, <1>2, Zenon
    <3>4. d[l][i] = d[0][j]
      BY <1>5, <1>6, <2>2, <1>1
    <3> QED BY <3>3, <3>4, Zenon
  <2>3. CASE l = k
    <3>1. CASE l = 0
      BY <3>1, <2>3, <1>2, <1>4, <1>6 DEF Draws
    <3>2. CASE l \in Handles
      BY <3>2, <2>3, <1>4, <1>6
    <3> QED BY <1>1, <3>1, <3>2
  <2>4. l = k \/ (l = 0 /\ k = h) \/ (l = h /\ k = 0)
    BY <1>1, <1>4, <1>6
  <2> QED BY <2>1, <2>2, <2>3, <2>4
<1>7. \A l \in 0 .. MaxHandle : K[l] \in 0 .. MaxHandle
  BY <1>1, <1>4
<1>8. \A l, k \in 0 .. MaxHandle : \A i \in DOMAIN d[l], j \in DOMAIN d[k] :
        K[l] = K[k] /\ P[l][i] = P[k][j] => d[l][i].persistent \/ (l = k /\ i = j)
  BY <1>6
<1>9. Flows(c, d, K, P)
  <2>1. \A l \in DOMAIN d : K[l] \in DOMAIN c
    BY <1>1, <1>7
  <2>2. \A l \in DOMAIN d : \A i \in DOMAIN d[l] :
          P[l][i] \in DOMAIN c[K[l]] /\ d[l][i] = c[K[l]][P[l][i]]
    BY <1>1, <1>5
  <2> QED BY <1>1, <1>8, <2>1, <2>2, Zenon DEF Flows
<1> QED BY <1>9, FlowsKeep

\* A registration that fires puts its new event at one position of the list and
\* leaves the rest.
LEMMA TriggeredFacts ==
  ASSUME NEW s \in Seq(EventType), NEW r \in RegistrationType,
         NEW number \in 1 .. MaxTriggers
  PROVE  LET u == Triggered(s, r, number)
         IN  /\ u \in Seq(EventType)
             /\ \E p \in DOMAIN u :
                  /\ u[p].ident = r.ident /\ u[p].filter = r.filter
                  /\ u[p].generation = r.generation /\ u[p].number = number
                  /\ \A i \in DOMAIN u : i # p => i \in DOMAIN s /\ u[i] = s[i]
<1> DEFINE e == [ident |-> r.ident, filter |-> r.filter,
                 generation |-> r.generation,
                 persistent |-> (r.filter = "user" /\ ~r.edge), number |-> number]
           old == {i \in DOMAIN s : /\ Matches(s[i], r.ident, r.filter)
                                    /\ s[i].generation = r.generation}
           u == Triggered(s, r, number)
<1>1. e \in EventType
  <2>1. (r.filter = "user" /\ ~r.edge) \in BOOLEAN
    OBVIOUS
  <2> HIDE DEF e
  <2>2. e = [ident |-> r.ident, filter |-> r.filter,
             generation |-> r.generation,
             persistent |-> (r.filter = "user" /\ ~r.edge), number |-> number]
    BY DEF e
  <2>3. /\ r.ident \in Idents /\ r.filter \in Filters
        /\ r.generation \in 1 .. MaxGeneration
    BY DEF RegistrationType
  <2> QED BY <2>1, <2>2, <2>3 DEF EventType
<1>2. /\ e.ident = r.ident /\ e.filter = r.filter
      /\ e.generation = r.generation /\ e.number = number
  OBVIOUS
<1>3. u = IF old = {} THEN Append(s, e) ELSE [s EXCEPT ![CHOOSE i \in old : TRUE] = e]
  BY DEF Triggered
<1> HIDE DEF e, u
<1>4. \E p \in DOMAIN u : /\ u \in Seq(EventType) /\ u[p] = e
                          /\ \A i \in DOMAIN u : i # p => i \in DOMAIN s /\ u[i] = s[i]
  <2>1. CASE old = {}
    <3>1. u = Append(s, e)
      BY <2>1, <1>3
    <3>2. /\ u \in Seq(EventType) /\ DOMAIN u = 1 .. (Len(s) + 1) /\ Len(s) \in Nat
          /\ u[Len(s) + 1] = e
          /\ \A i \in 1 .. Len(s) : u[i] = s[i]
      BY <3>1, <1>1
    <3>3. Len(s) + 1 \in DOMAIN u
      BY <3>2
    <3>4. \A i \in DOMAIN u : i # Len(s) + 1 => i \in DOMAIN s /\ u[i] = s[i]
      BY <3>2
    <3> QED BY <3>2, <3>3, <3>4
  <2>2. CASE old # {}
    <3> DEFINE p == CHOOSE i \in old : TRUE
    <3>1. p \in old
      BY <2>2
    <3>2. p \in DOMAIN s
      BY <3>1
    <3>3. u = [s EXCEPT ![p] = e]
      BY <2>2, <1>3
    <3> HIDE DEF p, old
    <3>4. u \in Seq(EventType) /\ DOMAIN u = DOMAIN s /\ u[p] = e
      BY <3>2, <3>3, <1>1
    <3>5. \A i \in DOMAIN u : i # p => i \in DOMAIN s /\ u[i] = s[i]
      BY <3>2, <3>3
    <3> QED BY <3>2, <3>4, <3>5
  <2> QED BY <2>1, <2>2
<1> HIDE DEF old
<1> QED BY <1>2, <1>4 DEF u

\* A trigger adds an event with a new number, perhaps in place of an older one.
LEMMA TriggerKeeps ==
  ASSUME NEW c \in Spread, NEW rec \in [1 .. MaxTriggers -> Nat],
         NEW t \in Nat, EventsOK(c, rec, t), t + 1 \in 1 .. MaxTriggers,
         NEW r \in RegistrationType,
         NEW d \in Spread, d[0] = Triggered(c[0], r, t + 1),
         \A l \in Handles : d[l] = c[l]
  PROVE  EventsOK(d, rec, t + 1)
<1>1. /\ c[0] \in Seq(EventType) /\ 0 \in 0 .. MaxHandle
      /\ \A l \in 0 .. MaxHandle : l = 0 \/ l \in Handles
      /\ 0 \notin Handles
      /\ DOMAIN c = 0 .. MaxHandle /\ DOMAIN d = 0 .. MaxHandle
  BY PlaceFacts DEF Spread
<1>2. PICK p \in DOMAIN d[0] :
         /\ d[0][p].number = t + 1
         /\ \A i \in DOMAIN d[0] : i # p => i \in DOMAIN c[0] /\ d[0][i] = c[0][i]
  BY <1>1, TriggeredFacts
<1>3. ASSUME NEW l \in 0 .. MaxHandle, NEW i \in DOMAIN d[l]
      PROVE  \/ l = 0 /\ i = p
             \/ i \in DOMAIN c[l] /\ d[l][i] = c[l][i]
  BY <1>1, <1>2
<1>4. \A l \in 0 .. MaxHandle : \A i \in DOMAIN c[l] : c[l][i].number # t + 1
  <2> TAKE l \in 0 .. MaxHandle
  <2> TAKE i \in DOMAIN c[l]
  <2>1. c[l][i].number <= t
    BY <1>1 DEF EventsOK
  <2> QED BY <2>1
<1>5. ASSUME NEW l \in 0 .. MaxHandle, NEW k \in 0 .. MaxHandle,
             NEW i \in DOMAIN d[l], NEW j \in DOMAIN d[k],
             d[l][i].number = d[k][j].number
      PROVE  d[l][i] = d[k][j] /\ (d[l][i].persistent \/ (l = k /\ i = j))
  <2>1. CASE l = 0 /\ i = p
    <3>1. k = 0 /\ j = p
      BY <2>1, <1>2, <1>3, <1>4, <1>5
    <3> QED BY <2>1, <3>1
  <2>2. CASE k = 0 /\ j = p
    <3>1. l = 0 /\ i = p
      BY <2>2, <1>2, <1>3, <1>4, <1>5
    <3> QED BY <2>2, <3>1
  <2>3. CASE ~(l = 0 /\ i = p) /\ ~(k = 0 /\ j = p)
    <3>1. /\ i \in DOMAIN c[l] /\ d[l][i] = c[l][i]
          /\ j \in DOMAIN c[k] /\ d[k][j] = c[k][j]
      BY <2>3, <1>3
    <3> QED BY <3>1, <1>1, <1>5 DEF EventsOK
  <2> QED BY <2>1, <2>2, <2>3
<1>6. \A n \in 1 .. MaxTriggers : rec[n] \in {0, 1} /\ (rec[n] = 1 => n <= t)
  BY DEF EventsOK
<1>7. ASSUME NEW l \in 0 .. MaxHandle, NEW i \in DOMAIN d[l]
      PROVE  /\ d[l][i].number <= t + 1
             /\ ~d[l][i].persistent => rec[d[l][i].number] = 0
  <2>1. CASE l = 0 /\ i = p
    <3>1. d[l][i].number = t + 1
      BY <2>1, <1>2
    <3>2. rec[t + 1] = 0
      BY <1>6
    <3> QED BY <3>1, <3>2
  <2>2. CASE i \in DOMAIN c[l] /\ d[l][i] = c[l][i]
    <3>1. c[l][i].number <= t /\ (~c[l][i].persistent => rec[c[l][i].number] = 0)
      BY <2>2, <1>1 DEF EventsOK
    <3>2. c[l] \in Seq(EventType)
      BY DEF Spread
    <3>3. c[l][i] \in EventType
      BY <2>2, <3>2
    <3>4. c[l][i].number \in 1 .. MaxTriggers
      BY <3>3 DEF EventType
    <3>5. c[l][i].number <= t + 1
      BY <3>1, <3>4, EventQueueAssumption
    <3> QED BY <2>2, <3>1, <3>5
  <2> QED BY <1>3, <2>1, <2>2
<1>8. \A n \in DOMAIN rec : rec[n] \in {0, 1} /\ (rec[n] = 1 => n <= t + 1)
  BY <1>6
<1>9. \A l \in DOMAIN d : \A i \in DOMAIN d[l] :
         /\ d[l][i].number <= t + 1
         /\ ~d[l][i].persistent => rec[d[l][i].number] = 0
  BY <1>1, <1>7, Zenon
<1>10. \A l, k \in DOMAIN d : \A i \in DOMAIN d[l], j \in DOMAIN d[k] :
          d[l][i].number = d[k][j].number =>
            d[l][i] = d[k][j] /\ (d[l][i].persistent \/ (l = k /\ i = j))
  BY <1>1, <1>5
<1> QED BY <1>8, <1>9, <1>10 DEF EventsOK

\* Triggers elsewhere change nothing here.
LEMMA LaterKeeps ==
  ASSUME NEW c \in Spread, NEW rec \in [1 .. MaxTriggers -> Nat],
         NEW t \in Nat, EventsOK(c, rec, t)
  PROVE  EventsOK(c, rec, t + 1)
<1>1. DOMAIN c = 0 .. MaxHandle /\ DOMAIN rec = 1 .. MaxTriggers
  BY DEF Spread
<1>2. ASSUME NEW l \in 0 .. MaxHandle, NEW i \in DOMAIN c[l]
      PROVE  c[l][i].number <= t + 1
  <2>1. c[l] \in Seq(EventType)
    BY DEF Spread
  <2>2. c[l][i] \in EventType
    BY <2>1
  <2>3. c[l][i].number \in 1 .. MaxTriggers
    BY <2>2 DEF EventType
  <2>4. c[l][i].number <= t
    BY <1>1 DEF EventsOK
  <2> QED BY <2>3, <2>4
<1>3. \A n \in DOMAIN rec : rec[n] \in {0, 1} /\ (rec[n] = 1 => n <= t + 1)
  BY <1>1 DEF EventsOK
<1>4. \A l \in DOMAIN c : \A i \in DOMAIN c[l] :
         /\ c[l][i].number <= t + 1
         /\ ~c[l][i].persistent => rec[c[l][i].number] = 0
  <2>1. \A l \in DOMAIN c : \A i \in DOMAIN c[l] :
           ~c[l][i].persistent => rec[c[l][i].number] = 0
    BY DEF EventsOK
  <2> QED BY <1>1, <1>2, <2>1, Zenon
<1>5. \A l, k \in DOMAIN c : \A i \in DOMAIN c[l], j \in DOMAIN c[k] :
          c[l][i].number = c[k][j].number =>
            c[l][i] = c[k][j] /\ (c[l][i].persistent \/ (l = k /\ i = j))
  BY DEF EventsOK
<1> QED BY <1>3, <1>4, <1>5 DEF EventsOK

-----------------------------------------------------------------------------
(* The visit to the waiters.                                                *)

\* f[h] is what is left of s after the waiters up to h, for every h up to n.
VisitsUpTo(f, q, s, n) ==
  f = [h \in 0 .. n |->
         IF h = 0 THEN s
         ELSE IF CanReserve(q, waiters[h])
              THEN AfterPoll(f[h - 1], waiters[h].maximum_count)
              ELSE f[h - 1]]

\* The recursion that defines Leftover has a solution.
LEMMA VisitsExist ==
  ASSUME NEW q, NEW s, NEW n \in Nat
  PROVE  \E f : VisitsUpTo(f, q, s, n)
<1> DEFINE Step(x, h) == IF CanReserve(q, waiters[h])
                         THEN AfterPoll(x, waiters[h].maximum_count) ELSE x
           Bad == {m \in Nat : ~ \E f : VisitsUpTo(f, q, s, m)}
<1>1. \A f, m : VisitsUpTo(f, q, s, m) <=>
                  f = [h \in 0 .. m |-> IF h = 0 THEN s ELSE Step(f[h - 1], h)]
  BY DEF VisitsUpTo
<1> HIDE DEF Step
<1>2. SUFFICES ASSUME Bad # {} PROVE FALSE
  BY <1>2
<1>3. PICK m \in Bad : \A k \in Bad : m <= k
  BY <1>2, LeastElement
<1>4. m \in Nat /\ ~ \E f : VisitsUpTo(f, q, s, m)
  BY <1>3
<1>5. CASE m = 0
  <2> DEFINE f == [h \in 0 .. 0 |-> s]
  <2>1. f = [h \in 0 .. 0 |-> IF h = 0 THEN s ELSE Step(f[h - 1], h)]
    OBVIOUS
  <2> HIDE DEF f
  <2>2. VisitsUpTo(f, q, s, 0)
    BY <1>1, <2>1
  <2> QED BY <2>2, <1>4, <1>5
<1>6. CASE m # 0
  <2>1. m - 1 \in Nat /\ ~(m <= m - 1)
    BY <1>4, <1>6
  <2>2. PICK f : VisitsUpTo(f, q, s, m - 1)
    BY <2>1, <1>3
  <2> DEFINE g == [h \in 0 .. m |-> IF h = m THEN Step(f[m - 1], m) ELSE f[h]]
  <2>3. \A h \in 0 .. (m - 1) : f[h] = IF h = 0 THEN s ELSE Step(f[h - 1], h)
    BY <2>2, <1>1
  <2>4. ASSUME NEW h \in 0 .. m
        PROVE  g[h] = IF h = 0 THEN s ELSE Step(g[h - 1], h)
    <3>1. CASE h = m
      <4>1. g[h] = Step(f[m - 1], m) /\ g[h - 1] = f[m - 1]
        BY <3>1, <2>1, <1>4
      <4> QED BY <3>1, <4>1, <1>6
    <3>2. CASE h # m /\ h # 0
      <4>1. h \in 0 .. (m - 1) /\ h - 1 \in 0 .. m /\ h - 1 # m
        BY <3>2, <1>4
      <4>2. g[h] = f[h] /\ g[h - 1] = f[h - 1]
        BY <3>2, <4>1
      <4> QED BY <3>2, <4>1, <4>2, <2>3
    <3>3. CASE h # m /\ h = 0
      <4>1. h \in 0 .. (m - 1)
        BY <3>3, <1>4
      <4>2. g[h] = f[h]
        BY <3>3
      <4> QED BY <3>3, <4>1, <4>2, <2>3
    <3> QED BY <3>1, <3>2, <3>3
  <2>5. g = [h \in 0 .. m |-> g[h]]
    OBVIOUS
  <2>6. g = [h \in 0 .. m |-> IF h = 0 THEN s ELSE Step(g[h - 1], h)]
    <3> HIDE DEF g
    <3> QED BY <2>4, <2>5
  <2>7. VisitsUpTo(g, q, s, m)
    <3> HIDE DEF g
    <3> QED BY <2>6, <1>1
  <2> QED BY <2>7, <1>4
<1> QED BY <1>5, <1>6

\* What is left after each waiter, from what was left after the one before.
Visits(left, q, s) ==
  /\ left[0] = s
  /\ \A h \in Handles :
       left[h] = IF CanReserve(q, waiters[h])
                 THEN AfterPoll(left[h - 1], waiters[h].maximum_count)
                 ELSE left[h - 1]

LEMMA LeftoverVisits ==
  ASSUME NEW q, NEW s
  PROVE  Visits(Leftover(q, s), q, s)
<1> DEFINE f == CHOOSE g : VisitsUpTo(g, q, s, MaxHandle)
<1>1. VisitsUpTo(f, q, s, MaxHandle)
  BY VisitsExist, MaxHandleAssumption
<1>2. Leftover(q, s) = f
  BY DEF Leftover, VisitsUpTo
<1> HIDE DEF f
<1>3. \A h \in 0 .. MaxHandle :
         f[h] = IF h = 0 THEN s
                ELSE IF CanReserve(q, waiters[h])
                     THEN AfterPoll(f[h - 1], waiters[h].maximum_count)
                     ELSE f[h - 1]
  BY <1>1 DEF VisitsUpTo
<1>4. Visits(f, q, s)
  <2>1. f[0] = s
    BY <1>3, PlaceFacts
  <2>2. \A h \in Handles : h \in 0 .. MaxHandle /\ h # 0
    BY PlaceFacts
  <2> QED BY <1>3, <2>1, <2>2 DEF Visits
<1> QED BY <1>2, <1>4

\* The events of queue q, first at the places c, after the waiters up to g were
\* visited.
Stage(q, c, left, g) ==
  [l \in 0 .. MaxHandle |->
     IF l = 0 THEN left[g]
     ELSE IF l <= g /\ CanReserve(q, waiters[l])
          THEN Taken(left[l - 1], waiters[l].maximum_count)
          ELSE c[l]]

\* After every visit the events are where they should be, what is left was
\* there at first, and once nothing is left nothing is.
StageOK(q, c, left, rec, t, g) ==
  /\ left[g] \in Seq(EventType)
  /\ Stage(q, c, left, g) \in Spread
  /\ EventsOK(Stage(q, c, left, g), rec, t)
  /\ \A i \in DOMAIN left[g] : \E j \in DOMAIN c[0] : left[g][i] = c[0][j]
  /\ \A k \in 0 .. g : left[k] = <<>> => left[g] = <<>>

LEMMA VisitStep ==
  ASSUME NEW q, NEW c \in Spread, NEW rec, NEW t,
         NEW left, Visits(left, q, c[0]),
         \A h \in Handles : CanReserve(q, waiters[h]) =>
           waiters[h].maximum_count \in Nat \ {0} /\ c[h] = <<>>,
         NEW g \in Handles, StageOK(q, c, left, rec, t, g - 1)
  PROVE  StageOK(q, c, left, rec, t, g)
<1> DEFINE s == left[g - 1]
           C == Stage(q, c, left, g - 1)
           D == Stage(q, c, left, g)
           n == waiters[g].maximum_count
<1>1. /\ s \in Seq(EventType) /\ C \in Spread /\ EventsOK(C, rec, t)
      /\ \A i \in DOMAIN s : \E j \in DOMAIN c[0] : s[i] = c[0][j]
      /\ \A k \in 0 .. (g - 1) : left[k] = <<>> => s = <<>>
  BY DEF StageOK
<1>2. \A l \in 0 .. MaxHandle :
         /\ l \in Int
         /\ l # g => (l <= g <=> l <= g - 1)
         /\ ~(g <= g - 1) /\ g <= g /\ g \in Int /\ g # 0
  BY MaxHandleAssumption DEF Handles
<1>3. g \in 0 .. MaxHandle /\ 0 \in 0 .. MaxHandle
  BY PlaceFacts
<1>4. \A k \in 0 .. g : k \in 0 .. (g - 1) \/ k = g
  BY <1>2, <1>3
<1>5. \A l \in 0 .. MaxHandle : l # 0 /\ l # g => D[l] = C[l]
  BY <1>2 DEF Stage
<1>6. /\ C[0] = s /\ D[0] = left[g]
      /\ C[g] = c[g]
      /\ D[g] = IF CanReserve(q, waiters[g]) THEN Taken(s, n) ELSE c[g]
  BY <1>2, <1>3 DEF Stage
<1>7. left[g] = IF CanReserve(q, waiters[g]) THEN AfterPoll(s, n) ELSE s
  BY DEF Visits
<1>8. D = [l \in 0 .. MaxHandle |-> D[l]] /\ C = [l \in 0 .. MaxHandle |-> C[l]]
  BY DEF Stage
<1>9. CASE CanReserve(q, waiters[g])
  <2>1. n \in Nat \ {0} /\ C[g] = <<>>
    BY <1>6, <1>9
  <2> HIDE DEF C, D, s, n
  <2>2. /\ AfterPoll(s, n) \in Seq(EventType)
        /\ \E idx : Draws(s, AfterPoll(s, n), idx)
    BY <1>1, <2>1, PollDraws
  <2>3. Taken(s, n) \in Seq(EventType)
    BY <1>1, <2>1, TakenFacts
  <2>4. D \in Spread
    <3>1. ASSUME NEW l \in 0 .. MaxHandle PROVE D[l] \in Seq(EventType)
      <4>1. CASE l = 0
        BY <4>1, <1>6, <1>7, <1>9, <2>2
      <4>2. CASE l = g
        BY <4>2, <1>6, <1>9, <2>3
      <4>3. CASE l # 0 /\ l # g
        BY <4>3, <1>1, <1>5 DEF Spread
      <4> QED BY <4>1, <4>2, <4>3
    <3> QED BY <3>1, <1>8 DEF Spread
  <2>5. \A l \in Handles : l # g => D[l] = C[l]
    BY <1>5, PlaceFacts
  <2>6. EventsOK(D, rec, t)
    BY <1>1, <1>6, <1>7, <1>9, <2>1, <2>4, <2>5, ReserveKeeps
  <2>7. \A i \in DOMAIN left[g] : \E j \in DOMAIN c[0] : left[g][i] = c[0][j]
    BY <1>1, <1>7, <1>9, <2>2 DEF Draws
  <2>8. s = <<>> => left[g] = <<>>
    <3> SUFFICES ASSUME s = <<>> PROVE left[g] = <<>>
      OBVIOUS
    <3>1. left[g] \in Seq(EventType) /\ DOMAIN s = {}
      BY <1>7, <1>9, <2>2
    <3>2. PICK idx : Draws(s, left[g], idx)
      BY <1>7, <1>9, <2>2
    <3>3. DOMAIN left[g] = {}
      BY <3>1, <3>2 DEF Draws
    <3> QED BY <3>1, <3>3, EmptySeq
  <2>9. \A k \in 0 .. g : left[k] = <<>> => left[g] = <<>>
    BY <1>1, <1>4, <2>8
  <2>10. left[g] \in Seq(EventType)
    BY <1>7, <1>9, <2>2
  <2> QED BY <2>4, <2>6, <2>7, <2>9, <2>10 DEF StageOK, D
<1>10. CASE ~CanReserve(q, waiters[g])
  <2>1. left[g] = s
    BY <1>7, <1>10
  <2>2. D = C
    <3>1. \A l \in 0 .. MaxHandle : D[l] = C[l]
      BY <1>5, <1>6, <1>10, <2>1
    <3> HIDE DEF C, D
    <3> QED BY <3>1, <1>8
  <2> HIDE DEF C, D, s
  <2>3. \A k \in 0 .. g : left[k] = <<>> => left[g] = <<>>
    BY <1>1, <1>4, <2>1
  <2> QED BY <1>1, <2>1, <2>2, <2>3 DEF StageOK, D
<1> QED BY <1>9, <1>10

\* The whole visit.
LEMMA VisitKeeps ==
  ASSUME NEW q, NEW c \in Spread, NEW rec, NEW t, EventsOK(c, rec, t),
         NEW left, Visits(left, q, c[0]),
         \A h \in Handles : CanReserve(q, waiters[h]) =>
           waiters[h].maximum_count \in Nat \ {0} /\ c[h] = <<>>,
         NEW g \in 0 .. MaxHandle
  PROVE  StageOK(q, c, left, rec, t, g)
<1> DEFINE Bad == {m \in Nat : m <= MaxHandle /\ ~StageOK(q, c, left, rec, t, m)}
<1>1. MaxHandle \in Nat
  BY MaxHandleAssumption
<1>2. StageOK(q, c, left, rec, t, 0)
  <2>1. left[0] = c[0] /\ c[0] \in Seq(EventType)
    BY PlaceFacts DEF Visits, Spread
  <2>2. Stage(q, c, left, 0) = c
    <3>1. \A l \in 0 .. MaxHandle : l # 0 => ~(l <= 0)
      OBVIOUS
    <3>2. Stage(q, c, left, 0) = [l \in 0 .. MaxHandle |-> c[l]]
      BY <2>1, <3>1 DEF Stage
    <3> QED BY <3>2 DEF Spread
  <2>3. \A k \in 0 .. 0 : k = 0
    OBVIOUS
  <2> QED BY <2>1, <2>2, <2>3 DEF StageOK
<1>3. ASSUME Bad # {} PROVE FALSE
  <2>1. PICK m \in Bad : \A k \in Bad : m <= k
    BY <1>3, LeastElement
  <2>2. m \in Nat /\ m <= MaxHandle /\ ~StageOK(q, c, left, rec, t, m)
    BY <2>1
  <2>3. m # 0
    BY <1>2, <2>2
  <2>4. m \in Handles /\ m - 1 \in Nat /\ m - 1 <= MaxHandle /\ ~(m <= m - 1)
    BY <2>2, <2>3, <1>1 DEF Handles
  <2>5. StageOK(q, c, left, rec, t, m - 1)
    BY <2>1, <2>4
  <2> QED BY <2>2, <2>4, <2>5, VisitStep
<1>4. g \in Nat /\ g <= MaxHandle /\ g \notin Bad
  BY <1>1, <1>3
<1> QED BY <1>4

-----------------------------------------------------------------------------
(* The threads and their entries.                                           *)

\* What a thread may notice of a step of the scheduler, in a service that joins
\* nobody.
LEMMA Drifted ==
  ASSUME NEW s, SchedulerOK(s, WaitKeys), NEW t, NEW h \in Handles, NEW time,
         Drifts(s, t, h, time)
  PROVE  \/ Steady(s, t, h)
         \/ h \in Expired(s, time) /\ Roused(t, h) /\ t.timed_out[h] = s.wait_key[h]
<1>1. s.wait_key[h] \in WaitKeys \cup {NoKey}
  BY DEF SchedulerOK, SchedulerType
<1>2. \A g \in Handles : s.wait_key[h] # ThreadExitWaitKey(g)
  BY <1>1, KeyFacts, ThreadExitKeyFacts DEF WaitKeys
<1> QED BY <1>2 DEF Drifts

\* An entry that is left alone stays in order when its thread drifts.
LEMMA WaiterDrifts ==
  ASSUME NEW s, SchedulerOK(s, WaitKeys), NEW t, NEW h \in Handles,
         NEW time \in Nat, NEW later \in Nat, time <= later,
         Drifts(s, t, h, later),
         NEW w \in WaiterType \cup {NoWaiter}, NEW c, WaiterOK(h, w, s, c, time)
  PROVE  WaiterOK(h, w, t, c, later)
<1>1. w.deadline # NoDeadline /\ w.deadline <= time => w.deadline <= later
  BY DEF WaiterType, NoWaiter, NoDeadline
<1>2. CASE Steady(s, t, h)
  BY <1>1, <1>2 DEF WaiterOK, Steady, Alive
<1>3. CASE h \in Expired(s, later) /\ Roused(t, h) /\ t.timed_out[h] = s.wait_key[h]
  <2>1. s.wait_key[h] # NoKey /\ s.deadline[h] # NoDeadline /\ s.deadline[h] <= later
    BY <1>3 DEF Expired, SchedulerOK, WaitsOK
  <2> QED BY <1>3, <2>1 DEF WaiterOK, Roused, Awake
<1> QED BY <1>2, <1>3, Drifted

\* WakeWaiters wakes the threads it is given, or finds them awake; the others
\* drift.
LEMMA WakeWaitersEffect ==
  ASSUME SchedulerOK(sched, WaitKeys), NEW time \in Nat,
         NEW W \in SUBSET Handles, NEW threads, Lists(threads, W),
         \A h \in Handles : Alive(sched, h),
         \A h \in W : /\ waiters[h].queue \in Queues
                      /\ sched.wait_key[h] \in {NoKey, WaitKey(waiters[h].queue)}
  PROVE  LET t == WakeWaiters(threads, time)
         IN  /\ SchedulerOK(t, WaitKeys) /\ t.current = sched.current
             /\ \A h \in W : Alive(t, h) /\ t.wait_key[h] = NoKey
             /\ \A h \in Handles \ W : Drifts(sched, t, h, time)
<1> DEFINE t == WakeWaiters(threads, time)
           w == WakeExpiredThreads(sched, time)
           asleep == {i \in DOMAIN threads :
                        w.wait_key[threads[i]] = WaitKey(waiters[threads[i]].queue)}
           S == {threads[i] : i \in asleep}
           m == MakeReady(w, S, NoTimeout)
           e == EntriesAt(threads, asleep)
<1>1. /\ threads \in Seq(W)
      /\ \A i, j \in DOMAIN threads : threads[i] = threads[j] => i = j
      /\ \A h \in W : \E i \in DOMAIN threads : threads[i] = h
      /\ \A i \in DOMAIN threads : threads[i] \in W
  BY DEF Lists
<1>2. CASE threads = <<>>
  <2>1. t = sched
    BY <1>2 DEF WakeWaiters
  <2>2. W = {}
    BY <1>1, <1>2
  <2>3. \A h \in Handles : Drifts(sched, t, h, time)
    BY <2>1 DEF Drifts, Steady
  <2> QED BY <2>1, <2>2, <2>3
<1>3. CASE threads # <<>>
  <2>1. /\ SchedulerOK(w, WaitKeys) /\ w.current = sched.current
        /\ \A h \in Handles : Drifts(sched, w, h, time)
    BY ExpiryDrifts
  <2>2. t = [m EXCEPT !.ready = w.ready \o e]
    BY <1>3 DEF WakeWaiters
  <2> HIDE DEF w, t
  <2>3. \A h \in Handles : Alive(w, h)
    BY <2>1, Drifted DEF Steady, Roused, Awake, Alive
  <2>4. \A h \in W : w.wait_key[h] \in {NoKey, WaitKey(waiters[h].queue)}
    <3> TAKE h \in W
    <3>1. Steady(sched, w, h) \/ Roused(w, h)
      BY <2>1, Drifted
    <3> QED BY <3>1 DEF Steady, Roused
  <2>5. S = {h \in W : w.wait_key[h] # NoKey}
    BY <1>1, <2>4, KeyFacts
  <2>6. S \in SUBSET InState(w, "blocked")
    <3> HIDE DEF S
    <3> QED BY <2>5, <2>1 DEF SchedulerOK, WaitsOK, InState
  <2>7. SchedulerOK(m, WaitKeys)
    <3>1. NoTimeout \in [Handles -> WaitKeys \cup {NoKey}]
      BY DEF NoTimeout
    <3> HIDE DEF S
    <3> QED BY <2>1, <2>6, <3>1, MakeReadyOK
  <2>8. Lists(e, S)
    <3>1. asleep \in SUBSET DOMAIN threads
      OBVIOUS
    <3>2. e \in Seq(W) /\ Picks(threads, asleep, e)
      BY <1>1, <3>1, EntriesAtFacts
    <3> HIDE DEF e, asleep
    <3>3. PICK idx \in [DOMAIN e -> asleep] :
             /\ \A k \in DOMAIN e : e[k] = threads[idx[k]]
             /\ \A k, l \in DOMAIN e : idx[k] = idx[l] => k = l
             /\ \A i \in asleep : \E k \in DOMAIN e : idx[k] = i
      BY <3>2 DEF Picks
    <3>4. \A k \in DOMAIN e : idx[k] \in asleep /\ e[k] \in S
      BY <3>3
    <3>5. e \in Seq(S)
      <4> HIDE DEF S
      <4> QED BY <3>2, <3>4
    <3>6. \A k, l \in DOMAIN e : e[k] = e[l] => k = l
      BY <1>1, <3>1, <3>3, <3>4
    <3>7. \A h \in S : \E k \in DOMAIN e : e[k] = h
      BY <3>3
    <3> QED BY <3>5, <3>6, <3>7 DEF Lists
  <2> HIDE DEF e, S, asleep
  <2>9. Lists(w.ready \o e, InState(m, "ready"))
    <3> DEFINE R == InState(w, "ready")
    <3>1. Lists(w.ready, R)
      BY <2>1, QueueExactLists DEF SchedulerOK
    <3>2. R \cap S = {}
      BY <2>6 DEF InState
    <3>3. InState(m, "ready") = R \cup S
      BY <2>6 DEF InState, MakeReady
    <3> HIDE DEF R, m
    <3> QED BY <2>8, <3>1, <3>2, <3>3, ListsConcat
  <2>10. SchedulerOK(t, WaitKeys)
    <3> HIDE DEF m
    <3> QED BY <2>2, <2>7, <2>9, ReorderedOK
  <2>11. Woken(w, S, t)
    <3>1. /\ t.state = m.state /\ t.wait_key = m.wait_key
          /\ t.deadline = m.deadline /\ t.timed_out = m.timed_out
          /\ t.current = m.current
      <4> HIDE DEF m
      <4> QED BY <2>2, <2>7 DEF SchedulerOK, SchedulerType
    <3> QED BY <3>1 DEF Woken, MakeReady, NoTimeout
  <2>12. \A h \in W : Alive(t, h) /\ t.wait_key[h] = NoKey
    BY <2>3, <2>5, <2>11 DEF Woken, Alive
  <2>13. ASSUME NEW h \in Handles \ W PROVE Drifts(sched, t, h, time)
    <3>1. Steady(w, t, h)
      BY <2>5, <2>11 DEF Woken, Steady, Awake, Alive
    <3> QED BY <2>1, <3>1, DriftsOn
  <2> QED BY <2>1, <2>10, <2>11, <2>12, <2>13 DEF Woken, t
<1> QED BY <1>2, <1>3

-----------------------------------------------------------------------------
(* What the invariant says of one thread or queue.                          *)

Entries == WaiterType \cup {NoWaiter}

\* The fields of an entry.
LEMMA EntryFacts ==
  /\ NoWaiter.queue = 0 /\ NoWaiter.completion = "none" /\ NoWaiter.events = <<>>
  /\ 0 \notin Queues
  /\ \A w \in Entries :
       /\ w.events \in Seq(EventType)
       /\ w.completion = "none" <=> w = NoWaiter
       /\ w.completion # "none" => /\ w \in WaiterType /\ w.queue \in Queues
                                   /\ w.maximum_count \in Nat \ {0}
<1>1. /\ NoWaiter.queue = 0 /\ NoWaiter.completion = "none" /\ NoWaiter.events = <<>>
      /\ 0 \notin Queues
  BY EventQueueAssumption DEF NoWaiter, Queues
<1>2. <<>> \in Seq(EventType)
  OBVIOUS
<1>3. ASSUME NEW w \in WaiterType
      PROVE  /\ w.events \in Seq(EventType) /\ w.completion # "none"
             /\ w.queue \in Queues /\ w.maximum_count \in Nat \ {0}
  BY EventQueueAssumption DEF WaiterType
<1> QED BY <1>1, <1>2, <1>3 DEF Entries

\* The places of a queue's events.
LEMMA PlacesFacts ==
  ASSUME NEW q, NEW s \in Seq(EventType), NEW ws \in [Handles -> Entries]
  PROVE  /\ Places(q, s, ws) \in Spread
         /\ Places(q, s, ws)[0] = s
         /\ \A h \in Handles :
              Places(q, s, ws)[h] = IF ws[h].queue = q THEN ws[h].events ELSE <<>>
<1> DEFINE P == Places(q, s, ws)
<1>1. /\ P[0] = s
      /\ \A h \in Handles : P[h] = IF ws[h].queue = q THEN ws[h].events ELSE <<>>
  BY PlaceFacts DEF Places
<1>2. P = [k \in 0 .. MaxHandle |-> P[k]]
  BY DEF Places
<1>3. \A h \in Handles : ws[h].events \in Seq(EventType)
  BY EntryFacts
<1> HIDE DEF P
<1>4. ASSUME NEW k \in 0 .. MaxHandle PROVE P[k] \in Seq(EventType)
  <2>1. CASE k = 0
    BY <1>1, <2>1
  <2>2. CASE k \in Handles
    <3>1. <<>> \in Seq(EventType)
      OBVIOUS
    <3> QED BY <1>1, <1>3, <2>2, <3>1
  <2> QED BY <2>1, <2>2, PlaceFacts
<1>5. P \in Spread
  BY <1>2, <1>4 DEF Spread
<1> QED BY <1>1, <1>5 DEF P

\* A queue object at first.
LEMMA NewQueueFacts ==
  /\ NewQueue \in QueueType /\ NewQueue.registrations = <<>>
  /\ NewQueue.pending = <<>> /\ NewQueue.state = "new"
<1>1. <<>> \in Seq(RegistrationType) /\ <<>> \in Seq(EventType)
      /\ 1 \in 1 .. MaxGeneration /\ FALSE \in BOOLEAN
  BY EventQueueAssumption
<1> QED BY <1>1 DEF NewQueue, QueueType

\* The types, one by one.
LEMMA TypeFacts ==
  ASSUME TypeOK
  PROVE  /\ SchedulerOK(sched, WaitKeys)
         /\ now \in Nat /\ now \in 0 .. MaxTime
         /\ call \in [Handles -> Calls]
         /\ queues \in [Queues -> QueueType]
         /\ waiters \in [Handles -> Entries]
         /\ triggers \in Nat /\ triggers \in 0 .. MaxTriggers
         /\ received \in [Queues -> [1 .. MaxTriggers -> Nat]]
         /\ \A q \in Queues : queues[q].pending \in Seq(EventType)
<1>1. \A q \in Queues : queues[q].pending \in Seq(EventType)
  BY DEF TypeOK, QueueType
<1>2. now \in Nat /\ triggers \in Nat
  BY MaxTimeAssumption, EventQueueAssumption DEF TypeOK
<1> QED BY <1>1, <1>2 DEF TypeOK, Entries

\* The thread h runs.
Running(h) == h \in Handles /\ sched.current = h /\ sched.state[h] = "running"

\* A thread that runs in no call has no entry, one that repeats its wait has
\* one for that queue.
LEMMA CallerFacts ==
  ASSUME IInv, NEW h \in Handles, NEW c, MayCall(h, c)
  PROVE  /\ Running(h) /\ CanLeave(sched) /\ sched.wait_key[h] = NoKey
         /\ c = NoCall => waiters[h] = NoWaiter /\ call[h] = NoCall
         /\ \A q : call[h] = WaitCall(q) => /\ waiters[h] \in WaiterType
                                            /\ waiters[h].queue = q
                                            /\ waiters[h].completion # "none"
<1>1. Running(h)
  BY DEF MayCall, Running
<1>2. CanLeave(sched) /\ sched.wait_key[h] = NoKey
  <2>1. h # NoThread
    BY PlaceFacts DEF NoThread
  <2> QED BY <1>1, <2>1, TypeFacts, RunningHasNoKey DEF IInv, Running
<1>3. /\ waiters[h] \in Entries
      /\ call[h] = IF waiters[h].completion = "none" THEN NoCall
                   ELSE WaitCall(waiters[h].queue)
  BY TypeFacts DEF IInv, WaiterOK
<1>4. c = NoCall => call[h] = NoCall
  BY DEF MayCall
<1> QED BY <1>1, <1>2, <1>3, <1>4, KeyFacts, EntryFacts

-----------------------------------------------------------------------------
(* A step of the host, or of a thread that only yields.                     *)

LEMMA DriftStep ==
  ASSUME IInv, UNCHANGED <<call, queues, waiters, triggers, received>>,
         now' \in 0 .. MaxTime, now <= now', SchedulerOK(sched', WaitKeys),
         \A h \in Handles : Drifts(sched, sched', h, now')
  PROVE  IInv'
<1>1. TypeOK'
  BY DEF IInv, TypeOK
<1>2. /\ SchedulerOK(sched, WaitKeys) /\ waiters \in [Handles -> Entries]
      /\ now \in Nat /\ now' \in Nat
  BY <1>1, TypeFacts, MaxTimeAssumption DEF IInv
<1>3. ASSUME NEW h \in Handles PROVE WaiterOK(h, waiters[h], sched, call, now)'
  <2>1. waiters[h] \in WaiterType \cup {NoWaiter} /\ WaiterOK(h, waiters[h], sched, call, now)
    BY <1>2 DEF IInv, Entries
  <2>2. WaiterOK(h, waiters[h], sched', call, now')
    BY <1>2, <2>1, WaiterDrifts
  <2> QED BY <2>2
<1>4. ASSUME NEW q \in Queues
      PROVE  /\ QueueOK(queues[q])' /\ Served(queues[q], q, waiters, now)'
             /\ EventsOK(Places(q, queues[q].pending, waiters), received[q], triggers)'
  <2>1. /\ QueueOK(queues[q]) /\ Served(queues[q], q, waiters, now)
        /\ EventsOK(Places(q, queues[q].pending, waiters), received[q], triggers)
    BY DEF IInv
  <2>2. \A h \in Handles : waiters[h].deadline > now' => waiters[h].deadline > now
    BY <1>2 DEF Entries, WaiterType, NoWaiter, NoDeadline
  <2>3. Served(queues[q], q, waiters, now')
    BY <2>1, <2>2 DEF Served
  <2> QED BY <2>1, <2>3
<1> QED BY <1>1, <1>3, <1>4 DEF IInv

LEMMA HostSteps ==
  ASSUME IInv
  PROVE  /\ Dispatch /\ Objects => IInv'
         /\ Tick /\ Objects => IInv'
         /\ \A h \in Handles : Relinquish(h) /\ Objects => IInv'
         /\ UNCHANGED vars => IInv'
<1>1. /\ SchedulerOK(sched, WaitKeys) /\ now \in Nat /\ now \in 0 .. MaxTime
      /\ MaxTime \in Nat
  BY TypeFacts, MaxTimeAssumption DEF IInv
<1>2. ASSUME UNCHANGED <<call, queues, waiters, triggers, received>>,
             now' = now, SchedulerOK(sched', WaitKeys),
             \A h \in Handles : Drifts(sched, sched', h, now)
      PROVE  IInv'
  BY <1>1, <1>2, DriftStep
<1>3. ASSUME Dispatch, Objects PROVE IInv'
  <2>1. sched' = SelectNext(sched, now) /\ now' = now /\ call' = call
    BY <1>3 DEF Dispatch
  <2> QED BY <1>1, <1>2, <1>3, <2>1, SelectDrifts DEF Objects
<1>4. ASSUME Tick, Objects PROVE IInv'
  <2>1. sched' = sched /\ now' \in 0 .. MaxTime /\ now <= now' /\ call' = call
    BY <1>1, <1>4 DEF Tick
  <2>2. \A h \in Handles : Drifts(sched, sched', h, now')
    BY <2>1 DEF Drifts, Steady
  <2> QED BY <1>1, <1>4, <2>1, <2>2, DriftStep DEF Objects
<1>5. ASSUME NEW h \in Handles, Relinquish(h), Objects PROVE IInv'
  <2>1. sched' = YieldCurrent(sched) /\ now' = now /\ call' = call
    BY <1>5 DEF Relinquish
  <2>2. SchedulerOK(sched', WaitKeys)
    BY <1>1, <2>1, YieldCurrentOK
  <2>3. \A g \in Handles : Drifts(sched, sched', g, now)
    BY <1>1, <2>1, YieldSteady DEF Drifts
  <2> QED BY <1>2, <1>5, <2>1, <2>2, <2>3 DEF Objects
<1>6. ASSUME UNCHANGED vars PROVE IInv'
  <2>1. \A g \in Handles : Drifts(sched, sched', g, now)
    BY <1>6 DEF Drifts, Steady, vars
  <2> QED BY <1>1, <1>2, <1>6, <2>1 DEF vars
<1> QED BY <1>3, <1>4, <1>5, <1>6

-----------------------------------------------------------------------------
(* A call of one thread on one queue.                                       *)

\* The running thread h works on queue q: it leaves the queue x, its own entry
\* w, its call k, and r as what was received from the queue.
LEMMA CallStep ==
  ASSUME IInv, NEW h \in Handles, NEW q \in Queues,
         NEW x \in QueueType, QueueOK(x),
         queues[q].pending = <<>> => x.pending = <<>>,
         NEW w \in Entries, w.queue \in {0, q}, waiters[h].queue \in {0, q},
         w.completion = "waiting" => x.pending = <<>>,
         NEW k \in Calls, NEW r \in [1 .. MaxTriggers -> Nat],
         queues' = [queues EXCEPT ![q] = x],
         waiters' = [waiters EXCEPT ![h] = w],
         call' = [call EXCEPT ![h] = k],
         received' = [received EXCEPT ![q] = r],
         triggers' = triggers, now' = now,
         SchedulerOK(sched', WaitKeys),
         \A g \in Handles : g # h => Steady(sched, sched', g),
         WaiterOK(h, w, sched', call', now),
         EventsOK(Places(q, x.pending, waiters'), r, triggers)
  PROVE  IInv'
<1>1. /\ SchedulerOK(sched, WaitKeys) /\ now \in Nat /\ now \in 0 .. MaxTime
      /\ call \in [Handles -> Calls]
      /\ queues \in [Queues -> QueueType] /\ waiters \in [Handles -> Entries]
      /\ triggers \in 0 .. MaxTriggers
      /\ received \in [Queues -> [1 .. MaxTriggers -> Nat]]
      /\ 0 \notin Queues
  BY TypeFacts, EntryFacts DEF IInv
<1>2. /\ queues' \in [Queues -> QueueType] /\ waiters' \in [Handles -> Entries]
      /\ call' \in [Handles -> Calls]
      /\ received' \in [Queues -> [1 .. MaxTriggers -> Nat]]
      /\ queues'[q] = x /\ waiters'[h] = w /\ call'[h] = k /\ received'[q] = r
      /\ \A p \in Queues : p # q => queues'[p] = queues[p] /\ received'[p] = received[p]
      /\ \A g \in Handles : g # h => waiters'[g] = waiters[g] /\ call'[g] = call[g]
  BY <1>1
<1>3. TypeOK'
  BY <1>1, <1>2 DEF TypeOK, Entries
<1>4. ASSUME NEW g \in Handles PROVE WaiterOK(g, waiters'[g], sched', call', now')
  <2>1. CASE g = h
    BY <1>2, <2>1
  <2>2. CASE g # h
    <3>1. WaiterOK(g, waiters[g], sched, call, now) /\ waiters[g] \in Entries
      BY <1>1 DEF IInv
    <3>2. Drifts(sched, sched', g, now)
      BY <2>2 DEF Drifts
    <3>3. WaiterOK(g, waiters[g], sched', call, now)
      BY <1>1, <3>1, <3>2, WaiterDrifts DEF Entries
    <3> QED BY <1>2, <2>2, <3>3 DEF WaiterOK
  <2> QED BY <2>1, <2>2
<1>5. ASSUME NEW p \in Queues
      PROVE  /\ QueueOK(queues'[p]) /\ Served(queues'[p], p, waiters', now')
             /\ EventsOK(Places(p, queues'[p].pending, waiters'), received'[p], triggers')
  <2>0. /\ QueueOK(queues[p]) /\ Served(queues[p], p, waiters, now)
        /\ EventsOK(Places(p, queues[p].pending, waiters), received[p], triggers)
    BY DEF IInv
  <2>1. CASE p = q
    <3>1. Served(x, q, waiters', now)
      BY <1>2, <2>0, <2>1 DEF Served
    <3> QED BY <1>2, <2>1, <3>1
  <2>2. CASE p # q
    <3>1. w.queue # p /\ waiters[h].queue # p
      BY <1>1, <2>2
    <3>2. Served(queues[p], p, waiters', now)
      BY <1>2, <2>0, <3>1 DEF Served
    <3>3. Places(p, queues[p].pending, waiters') = Places(p, queues[p].pending, waiters)
      <4>1. \A g \in 0 .. MaxHandle : g # 0 =>
              (IF waiters'[g].queue = p THEN waiters'[g].events ELSE <<>>) =
              (IF waiters[g].queue = p THEN waiters[g].events ELSE <<>>)
        BY <1>2, <3>1, PlaceFacts
      <4> QED BY <4>1 DEF Places
    <3> QED BY <1>2, <2>0, <2>2, <3>2, <3>3
  <2> QED BY <2>1, <2>2
<1> QED BY <1>3, <1>4, <1>5 DEF IInv

\* Calls that leave the scheduler and the caller's entry alone.
LEMMA QueueStep ==
  ASSUME IInv, NEW h \in Handles, MayCall(h, NoCall), NEW q \in Queues,
         NEW x \in QueueType, QueueOK(x),
         queues[q].pending = <<>> => x.pending = <<>>,
         NEW r \in [1 .. MaxTriggers -> Nat],
         queues' = [queues EXCEPT ![q] = x],
         received' = [received EXCEPT ![q] = r],
         UNCHANGED <<sched, now, call, waiters, triggers>>,
         EventsOK(Places(q, x.pending, waiters), r, triggers)
  PROVE  IInv'
<1>1. waiters[h] = NoWaiter /\ call[h] = NoCall
  BY CallerFacts
<1>2. /\ SchedulerOK(sched, WaitKeys) /\ call \in [Handles -> Calls]
      /\ waiters \in [Handles -> Entries]
      /\ WaiterOK(h, waiters[h], sched, call, now)
  BY TypeFacts DEF IInv
<1>3. waiters' = [waiters EXCEPT ![h] = NoWaiter] /\ call' = [call EXCEPT ![h] = NoCall]
  BY <1>1, <1>2
<1>4. /\ NoWaiter \in Entries /\ NoWaiter.queue \in {0, q}
      /\ NoWaiter.completion # "waiting" /\ NoCall \in Calls
  BY EntryFacts DEF Entries, Calls
<1>5. \A g \in Handles : g # h => Steady(sched, sched', g)
  BY DEF Steady
<1>6. WaiterOK(h, NoWaiter, sched', call', now)
  BY <1>1, <1>2
<1>7. EventsOK(Places(q, x.pending, waiters'), r, triggers)
  OBVIOUS
<1>8. waiters[h].queue \in {0, q} /\ SchedulerOK(sched', WaitKeys)
      /\ triggers' = triggers /\ now' = now
  BY <1>1, <1>2, <1>4
<1> QED BY <1>3, <1>4, <1>5, <1>6, <1>7, <1>8, CallStep

\* Fewer events pending.
LEMMA DropPending ==
  ASSUME IInv, NEW q \in Queues, NEW s \in Seq(EventType),
         NEW idx, Draws(queues[q].pending, s, idx)
  PROVE  /\ EventsOK(Places(q, s, waiters), received[q], triggers)
         /\ queues[q].pending = <<>> => s = <<>>
<1> DEFINE c == Places(q, queues[q].pending, waiters)
           d == Places(q, s, waiters)
<1>1. /\ queues[q].pending \in Seq(EventType) /\ waiters \in [Handles -> Entries]
      /\ EventsOK(c, received[q], triggers)
  BY TypeFacts DEF IInv
<1>2. /\ c \in Spread /\ d \in Spread /\ c[0] = queues[q].pending /\ d[0] = s
      /\ \A h \in Handles : d[h] = c[h]
  <2>1. /\ c \in Spread /\ c[0] = queues[q].pending
        /\ \A h \in Handles :
             c[h] = IF waiters[h].queue = q THEN waiters[h].events ELSE <<>>
    BY <1>1, PlacesFacts
  <2>2. /\ d \in Spread /\ d[0] = s
        /\ \A h \in Handles :
             d[h] = IF waiters[h].queue = q THEN waiters[h].events ELSE <<>>
    BY <1>1, PlacesFacts
  <2> HIDE DEF c, d
  <2> QED BY <2>1, <2>2
<1> HIDE DEF c, d
<1>3. ASSUME NEW l \in 0 .. MaxHandle PROVE \E i : Draws(c[l], d[l], i)
  <2>1. CASE l = 0
    BY <1>2, <2>1
  <2>2. CASE l \in Handles
    <3>1. c[l] \in Seq(EventType)
      BY <1>2 DEF Spread
    <3> QED BY <1>2, <2>2, <3>1, DrawsAll
  <2> QED BY <2>1, <2>2, PlaceFacts
<1>4. EventsOK(d, received[q], triggers)
  BY <1>1, <1>2, <1>3, DropKeeps
<1>5. queues[q].pending = <<>> => s = <<>>
  <2> SUFFICES ASSUME queues[q].pending = <<>> PROVE DOMAIN s = {}
    BY EmptySeq
  <2>1. DOMAIN queues[q].pending = {}
    OBVIOUS
  <2> QED BY <2>1 DEF Draws
<1> QED BY <1>4, <1>5 DEF d

\* Whether an event is current depends on the registrations alone.
LEMMA StaysCurrent ==
  ASSUME NEW x, QueueOK(x), NEW y, y.registrations = x.registrations,
         NEW idx, Draws(x.pending, y.pending, idx)
  PROVE  \A i \in DOMAIN y.pending : IsCurrent(y, y.pending[i])
BY DEF QueueOK, IsCurrent, Draws

\* The list without the entries of one identifier.
LEMMA WithoutFacts ==
  ASSUME NEW S, NEW s \in Seq(S), NEW ident, NEW filter
  PROVE  LET r == Without(s, ident, filter)
         IN  /\ r \in Seq(S)
             /\ \E idx : /\ Draws(s, r, idx)
                         /\ \A k \in DOMAIN r : ~Matches(r[k], ident, filter)
             /\ \A i \in DOMAIN s : ~Matches(s[i], ident, filter) =>
                                      \E k \in DOMAIN r : r[k] = s[i]
<1> DEFINE I == {i \in DOMAIN s : ~Matches(s[i], ident, filter)}
           r == Without(s, ident, filter)
<1>1. r = EntriesAt(s, I)
  BY DEF Without
<1>2. I \in SUBSET DOMAIN s
  OBVIOUS
<1>3. \A i : i \in I <=> i \in DOMAIN s /\ ~Matches(s[i], ident, filter)
  OBVIOUS
<1> HIDE DEF I, r
<1>4. r \in Seq(S) /\ Picks(s, I, r)
  BY <1>1, <1>2, EntriesAtFacts
<1>5. PICK idx \in [DOMAIN r -> I] :
         /\ \A k \in DOMAIN r : r[k] = s[idx[k]]
         /\ \A k, l \in DOMAIN r : idx[k] = idx[l] => k = l
         /\ \A i \in I : \E k \in DOMAIN r : idx[k] = i
  BY <1>4 DEF Picks
<1>6. Draws(s, r, idx) /\ \A k \in DOMAIN r : ~Matches(r[k], ident, filter)
  BY <1>2, <1>3, <1>5 DEF Draws
<1>7. \A i \in DOMAIN s : ~Matches(s[i], ident, filter) => \E k \in DOMAIN r : r[k] = s[i]
  BY <1>3, <1>5
<1> QED BY <1>4, <1>6, <1>7 DEF r

\* A queue object after an operation that adds no event.
Trimmed(x, y) ==
  /\ y \in QueueType /\ QueueOK(y)
  /\ \E idx : Draws(x.pending, y.pending, idx)

LEMMA UnregisteredFacts ==
  ASSUME NEW x \in QueueType, QueueOK(x), x.state = "live", NEW ident, NEW filter
  PROVE  Trimmed(x, Unregistered(x, ident, filter))
<1> DEFINE y == Unregistered(x, ident, filter)
<1>1. x.registrations \in Seq(RegistrationType) /\ x.pending \in Seq(EventType)
  BY DEF QueueType
<1>2. /\ y.registrations = Without(x.registrations, ident, filter)
      /\ y.pending = Without(x.pending, ident, filter)
      /\ y.state = x.state
  BY DEF Unregistered, QueueType
<1>3. y.registrations \in Seq(RegistrationType) /\ y.pending \in Seq(EventType)
  BY <1>1, <1>2, WithoutFacts
<1>4. y \in QueueType
  BY <1>2, <1>3 DEF QueueType, Unregistered
<1>5. PICK idx : /\ Draws(x.pending, y.pending, idx)
                 /\ \A k \in DOMAIN y.pending : ~Matches(y.pending[k], ident, filter)
  BY <1>1, <1>2, WithoutFacts
<1>6. \A i \in DOMAIN x.registrations :
         ~Matches(x.registrations[i], ident, filter) =>
            \E k \in DOMAIN y.registrations : y.registrations[k] = x.registrations[i]
  BY <1>1, <1>2, WithoutFacts
<1> HIDE DEF y
<1>7. ASSUME NEW i \in DOMAIN y.pending PROVE IsCurrent(y, y.pending[i])
  <2>1. idx[i] \in DOMAIN x.pending /\ y.pending[i] = x.pending[idx[i]]
    BY <1>5 DEF Draws
  <2>2. PICK j \in DOMAIN x.registrations :
           /\ Matches(x.registrations[j], y.pending[i].ident, y.pending[i].filter)
           /\ x.registrations[j].generation = y.pending[i].generation
    BY <2>1 DEF QueueOK, IsCurrent
  <2>3. ~Matches(x.registrations[j], ident, filter)
    BY <1>5, <2>2 DEF Matches
  <2> QED BY <1>6, <2>2, <2>3 DEF IsCurrent
<1> QED BY <1>2, <1>4, <1>5, <1>7 DEF Trimmed, QueueOK, y

LEMMA RegisteredFacts ==
  ASSUME NEW x \in QueueType, QueueOK(x), x.state = "live",
         NEW ident \in Idents, NEW filter \in Filters, NEW edge \in BOOLEAN
  PROVE  Trimmed(x, Registered(x, ident, filter, edge))
<1> DEFINE y == Registered(x, ident, filter, edge)
           r == [ident |-> ident, filter |-> filter, edge |-> edge,
                 generation |-> x.next_generation]
           found == Positions(x, ident, filter)
           same == \E i \in found : x.registrations[i].edge = edge
<1>1. x.registrations \in Seq(RegistrationType) /\ x.pending \in Seq(EventType)
      /\ x.next_generation \in 1 .. MaxGeneration
  BY DEF QueueType
<1>2. CASE same \/ x.exhausted
  <2>1. y = x
    BY <1>2 DEF Registered
  <2> QED BY <1>1, <2>1, DrawsAll DEF Trimmed
<1>3. CASE ~(same \/ x.exhausted)
  <2> DEFINE p == CHOOSE i \in found : TRUE
             regs == IF found = {} THEN Append(x.registrations, r)
                     ELSE [x.registrations EXCEPT ![p] = r]
             pend == Without(x.pending, ident, filter)
             gen == IF x.next_generation = MaxGeneration THEN x.next_generation
                    ELSE x.next_generation + 1
             full == x.next_generation = MaxGeneration
  <2>1. y = [x EXCEPT !.registrations = regs, !.next_generation = gen,
                      !.exhausted = full, !.pending = pend]
    BY <1>3 DEF Registered
  <2>2. r \in RegistrationType /\ Matches(r, ident, filter)
    BY <1>1 DEF RegistrationType, Matches
  <2>3. gen \in 1 .. MaxGeneration /\ full \in BOOLEAN
    BY <1>1, EventQueueAssumption
  <2>4. PICK idx : /\ Draws(x.pending, pend, idx)
                   /\ \A k \in DOMAIN pend : ~Matches(pend[k], ident, filter)
    BY <1>1, WithoutFacts
  <2>5. pend \in Seq(EventType)
    BY <1>1, WithoutFacts
  <2>6. \A i \in found : i \in DOMAIN x.registrations
                         /\ Matches(x.registrations[i], ident, filter)
    BY DEF Positions
  <2> HIDE DEF r, found, pend, gen, full
  <2>7. /\ regs \in Seq(RegistrationType)
        /\ \A i \in DOMAIN x.registrations :
             ~Matches(x.registrations[i], ident, filter) =>
               i \in DOMAIN regs /\ regs[i] = x.registrations[i]
    <3>1. CASE found = {}
      <4>1. regs = Append(x.registrations, r)
        BY <3>1
      <4> HIDE DEF regs
      <4> QED BY <1>1, <2>2, <4>1
    <3>2. CASE found # {}
      <4>1. regs = [x.registrations EXCEPT ![p] = r] /\ p \in found
        BY <3>2
      <4>2. p \in DOMAIN x.registrations /\ Matches(x.registrations[p], ident, filter)
        BY <2>6, <4>1
      <4> HIDE DEF regs, p
      <4> QED BY <1>1, <2>2, <4>1, <4>2
    <3> QED BY <3>1, <3>2
  <2> HIDE DEF regs
  <2>8. /\ y \in QueueType /\ y.registrations = regs /\ y.pending = pend
        /\ y.state = "live"
    <3> HIDE DEF y
    <3> QED BY <2>1, <2>3, <2>5, <2>7 DEF QueueType
  <2> HIDE DEF y
  <2>9. ASSUME NEW i \in DOMAIN y.pending PROVE IsCurrent(y, y.pending[i])
    <3>1. idx[i] \in DOMAIN x.pending /\ y.pending[i] = x.pending[idx[i]]
      BY <2>4, <2>8 DEF Draws
    <3>2. PICK j \in DOMAIN x.registrations :
             /\ Matches(x.registrations[j], y.pending[i].ident, y.pending[i].filter)
             /\ x.registrations[j].generation = y.pending[i].generation
      BY <3>1 DEF QueueOK, IsCurrent
    <3>3. ~Matches(x.registrations[j], ident, filter)
      BY <2>4, <2>8, <3>2 DEF Matches
    <3> QED BY <2>7, <2>8, <3>2, <3>3 DEF IsCurrent
  <2> QED BY <2>4, <2>8, <2>9 DEF Trimmed, QueueOK, y
<1> QED BY <1>2, <1>3

\* A poll.
LEMMA PolledFacts ==
  ASSUME NEW x \in QueueType, QueueOK(x), NEW n \in Nat
  PROVE  Trimmed(x, [x EXCEPT !.pending = AfterPoll(@, n)])
<1> DEFINE s == AfterPoll(x.pending, n)
           y == [x EXCEPT !.pending = s]
<1>1. x.pending \in Seq(EventType)
  BY DEF QueueType
<1>2. s \in Seq(EventType) /\ \E idx : Draws(x.pending, s, idx)
  BY <1>1, PollDraws
<1> HIDE DEF s
<1>3. /\ y \in QueueType /\ y.pending = s /\ y.state = x.state
      /\ y.registrations = x.registrations
  BY <1>2 DEF QueueType
<1> HIDE DEF y
<1>4. PICK idx : Draws(x.pending, y.pending, idx)
  BY <1>2, <1>3
<1>5. \A i \in DOMAIN y.pending : IsCurrent(y, y.pending[i])
  BY <1>3, <1>4, StaysCurrent
<1>6. x.pending = <<>> => y.pending = <<>>
  <2> SUFFICES ASSUME x.pending = <<>> PROVE DOMAIN y.pending = {}
    BY <1>2, <1>3, EmptySeq
  <2>1. DOMAIN x.pending = {}
    OBVIOUS
  <2> QED BY <1>4, <2>1 DEF Draws
<1>7. QueueOK(y)
  BY <1>3, <1>5, <1>6 DEF QueueOK
<1> QED BY <1>3, <1>4, <1>7 DEF Trimmed, y, s

-----------------------------------------------------------------------------
(* The calls that do not wait.                                              *)

\* An operation on the queue object that adds no event and returns none.
LEMMA TrimStep ==
  ASSUME IInv, NEW h \in Handles, MayCall(h, NoCall), NEW q \in Queues,
         NEW x, Trimmed(queues[q], x), queues' = [queues EXCEPT ![q] = x],
         UNCHANGED <<sched, now, call, waiters, triggers, received>>
  PROVE  IInv'
<1>1. x \in QueueType /\ QueueOK(x)
  BY DEF Trimmed
<1>2. PICK idx : Draws(queues[q].pending, x.pending, idx)
  BY DEF Trimmed
<1>3. x.pending \in Seq(EventType)
  BY <1>1 DEF QueueType
<1>4. /\ EventsOK(Places(q, x.pending, waiters), received[q], triggers)
      /\ queues[q].pending = <<>> => x.pending = <<>>
  BY <1>2, <1>3, DropPending
<1>5. received \in [Queues -> [1 .. MaxTriggers -> Nat]]
  BY TypeFacts DEF IInv
<1>6. received' = [received EXCEPT ![q] = received[q]]
      /\ received[q] \in [1 .. MaxTriggers -> Nat]
  BY <1>5
<1> QED BY <1>1, <1>4, <1>6, QueueStep

LEMMA QueueCalls ==
  ASSUME IInv, NEW h \in Handles, NEW q \in Queues
  PROVE  /\ Create(h, q) => IInv'
         /\ \A ident \in Idents, filter \in Filters, edge \in BOOLEAN :
              Register(h, q, ident, filter, edge) => IInv'
         /\ \A ident \in Idents, filter \in Filters :
              DeleteEvent(h, q, ident, filter) => IInv'
<1>1. /\ queues \in [Queues -> QueueType] /\ queues[q] \in QueueType
      /\ QueueOK(queues[q])
  BY TypeFacts DEF IInv
<1>2. ASSUME Create(h, q) PROVE IInv'
  <2> DEFINE x == [queues[q] EXCEPT !.state = "live"]
  <2>1. queues' = [queues EXCEPT ![q] = x]
    BY <1>1, <1>2 DEF Create
  <2>2. /\ x \in QueueType /\ x.registrations = queues[q].registrations
        /\ x.pending = queues[q].pending /\ x.state = "live"
    BY <1>1 DEF QueueType
  <2>3. x.pending \in Seq(EventType)
    BY <2>2 DEF QueueType
  <2> HIDE DEF x
  <2>4. Trimmed(queues[q], x)
    <3>1. QueueOK(x)
      BY <1>1, <2>2 DEF QueueOK, IsCurrent
    <3>2. \E idx : Draws(queues[q].pending, x.pending, idx)
      BY <2>2, <2>3, DrawsAll
    <3> QED BY <2>2, <3>1, <3>2 DEF Trimmed
  <2> QED BY <1>2, <2>1, <2>4, TrimStep DEF Create
<1>3. ASSUME NEW ident \in Idents, NEW filter \in Filters, NEW edge \in BOOLEAN,
             Register(h, q, ident, filter, edge)
      PROVE  IInv'
  <2> DEFINE x == Registered(queues[q], ident, filter, edge)
  <2>1. queues' = [queues EXCEPT ![q] = x] /\ queues[q].state = "live"
    BY <1>1, <1>3 DEF Register, Live
  <2>2. Trimmed(queues[q], x)
    BY <1>1, <2>1, RegisteredFacts
  <2> HIDE DEF x
  <2> QED BY <1>3, <2>1, <2>2, TrimStep DEF Register
<1>4. ASSUME NEW ident \in Idents, NEW filter \in Filters,
             DeleteEvent(h, q, ident, filter)
      PROVE  IInv'
  <2> DEFINE x == Unregistered(queues[q], ident, filter)
  <2>1. queues' = [queues EXCEPT ![q] = x] /\ queues[q].state = "live"
    BY <1>1, <1>4 DEF DeleteEvent, Live
  <2>2. Trimmed(queues[q], x)
    BY <1>1, <2>1, UnregisteredFacts
  <2> HIDE DEF x
  <2> QED BY <1>4, <2>1, <2>2, TrimStep DEF DeleteEvent
<1> QED BY <1>2, <1>3, <1>4

\* What is pending is current, so a poll returns what it takes.
LEMMA PollCurrentFacts ==
  ASSUME IInv, NEW q \in Queues, NEW n \in Nat
  PROVE  LET s == queues[q].pending
             I == {i \in DOMAIN Taken(s, n) : IsCurrent(queues[q], Taken(s, n)[i])}
         IN  /\ PollCurrent(q, n) = EntriesAt(Taken(s, n), I)
             /\ I \in SUBSET DOMAIN Taken(s, n)
             /\ n # 0 /\ PollCurrent(q, n) = <<>> => s = <<>>
<1> DEFINE s == queues[q].pending
           taken == Taken(s, n)
           I == {i \in DOMAIN taken : IsCurrent(queues[q], taken[i])}
<1>1. PollCurrent(q, n) = EntriesAt(taken, I)
  BY DEF PollCurrent, CurrentEvents
<1>2. s \in Seq(EventType)
  BY TypeFacts DEF IInv
<1> HIDE DEF s
<1>3. /\ taken \in Seq(EventType)
      /\ n # 0 /\ s # <<>> => 1 \in DOMAIN taken
      /\ \A i \in DOMAIN taken : i \in DOMAIN s /\ taken[i] = s[i]
  BY <1>2, TakenFacts
<1>4. \A i \in DOMAIN taken : i \in I
  BY <1>3 DEF IInv, QueueOK, s
<1> HIDE DEF taken
<1>5. EntriesAt(taken, I) = <<>> => I = {}
  <2>1. I \in SUBSET DOMAIN taken
    OBVIOUS
  <2> HIDE DEF I
  <2> QED BY <1>3, <2>1, EntriesDraw
<1>6. n # 0 /\ PollCurrent(q, n) = <<>> => s = <<>>
  BY <1>1, <1>3, <1>4, <1>5
<1> QED BY <1>1, <1>6 DEF taken, s

\* A poll by a thread whose entry is left alone or cleared.
LEMMA PollEvents ==
  ASSUME IInv, NEW q \in Queues, NEW n \in Nat, NEW ws \in [Handles -> Entries],
         \A h \in Handles : ws[h] = waiters[h] \/ ws[h].events = <<>>
  PROVE  LET s == AfterPoll(queues[q].pending, n)
             r == Received(received[q], PollCurrent(q, n))
         IN  EventsOK(Places(q, s, ws), r, triggers) /\ r \in [1 .. MaxTriggers -> Nat]
<1> DEFINE p == queues[q].pending
           s == AfterPoll(p, n)
           I == {i \in DOMAIN Taken(p, n) : IsCurrent(queues[q], Taken(p, n)[i])}
           r == Received(received[q], PollCurrent(q, n))
           c == Places(q, p, waiters)
           d == Places(q, s, ws)
<1>1. /\ p \in Seq(EventType) /\ waiters \in [Handles -> Entries]
      /\ EventsOK(c, received[q], triggers) /\ triggers \in Nat
      /\ received[q] \in [1 .. MaxTriggers -> Nat]
  BY TypeFacts DEF IInv
<1>2. s \in Seq(EventType)
  BY <1>1, PollDraws
<1>3. PollCurrent(q, n) = EntriesAt(Taken(p, n), I) /\ I \in SUBSET DOMAIN Taken(p, n)
  BY PollCurrentFacts
<1> HIDE DEF p, s, I
<1>4. /\ c \in Spread /\ c[0] = p
      /\ \A h \in Handles :
           c[h] = IF waiters[h].queue = q THEN waiters[h].events ELSE <<>>
  BY <1>1, PlacesFacts
<1>5. /\ d \in Spread /\ d[0] = s
      /\ \A h \in Handles :
           d[h] = IF ws[h].queue = q THEN ws[h].events ELSE <<>>
  BY <1>2, PlacesFacts
<1> HIDE DEF c, d
<1>6. \A h \in Handles : d[h] = c[h] \/ d[h] = <<>>
  BY <1>4, <1>5
<1>7. d[0] = AfterPoll(c[0], n) /\ PollCurrent(q, n) = EntriesAt(Taken(c[0], n), I)
      /\ I \in SUBSET DOMAIN Taken(c[0], n)
  BY <1>3, <1>4, <1>5 DEF s
<1>8. EventsOK(d, r, triggers) /\ r \in [1 .. MaxTriggers -> Nat]
  <2> DEFINE ev == EntriesAt(Taken(c[0], n), I)
  <2>1. d[0] = AfterPoll(c[0], n) /\ I \in SUBSET DOMAIN Taken(c[0], n)
    BY <1>7
  <2>2. /\ EventsOK(d, Received(received[q], ev), triggers)
        /\ Received(received[q], ev) \in [1 .. MaxTriggers -> Nat]
    BY <1>1, <1>4, <1>5, <1>6, <2>1, PollKeeps
  <2>3. PollCurrent(q, n) = ev
    BY <1>7
  <2> QED BY <2>2, <2>3
<1> QED BY <1>8 DEF d, s, p

\* Receive counts what Received adds.
LEMMA ReceiveFacts ==
  ASSUME IInv, NEW q \in Queues, NEW s
  PROVE  Receive(q, s) = [received EXCEPT ![q] = Received(received[q], s)]
BY TypeFacts DEF IInv, Receive, Received

LEMMA PollCall ==
  ASSUME IInv, NEW h \in Handles, NEW q \in Queues, NEW n \in Counts, Poll(h, q, n)
  PROVE  IInv'
<1> DEFINE x == [queues[q] EXCEPT !.pending = AfterPoll(@, n)]
           r == Received(received[q], PollCurrent(q, n))
<1>1. /\ queues \in [Queues -> QueueType] /\ queues[q] \in QueueType
      /\ QueueOK(queues[q]) /\ waiters \in [Handles -> Entries] /\ n \in Nat
  BY TypeFacts, EventQueueAssumption DEF IInv
<1>2. /\ queues' = [queues EXCEPT ![q] = x]
      /\ received' = [received EXCEPT ![q] = r]
      /\ MayCall(h, NoCall) /\ UNCHANGED <<sched, now, call, waiters, triggers>>
  BY <1>1, ReceiveFacts DEF Poll
<1>3. Trimmed(queues[q], x)
  BY <1>1, PolledFacts
<1>4. x.pending = AfterPoll(queues[q].pending, n)
  BY <1>1 DEF QueueType
<1>5. /\ EventsOK(Places(q, x.pending, waiters), r, triggers)
      /\ r \in [1 .. MaxTriggers -> Nat]
  BY <1>1, <1>4, PollEvents
<1> HIDE DEF x, r
<1>6. x \in QueueType /\ QueueOK(x) /\ x.pending \in Seq(EventType)
  BY <1>3 DEF Trimmed, QueueType
<1>7. queues[q].pending = <<>> => x.pending = <<>>
  BY <1>3, <1>6, DropPending DEF Trimmed
<1> QED BY <1>2, <1>5, <1>6, <1>7, QueueStep

-----------------------------------------------------------------------------
(* The calls that wait.                                                     *)

\* The running thread h takes the entry w, or gives its entry up, on what a poll
\* of queue q for n leaves.
LEMMA PollingStep ==
  ASSUME IInv, NEW h \in Handles, NEW q \in Queues, NEW n \in Nat \ {0},
         waiters[h].queue \in {0, q},
         queues' = [queues EXCEPT ![q].pending = AfterPoll(@, n)],
         received' = Receive(q, PollCurrent(q, n)),
         NEW w \in Entries, w.queue \in {0, q}, w.events = <<>>,
         w.completion = "waiting" => PollCurrent(q, n) = <<>>,
         waiters' = [waiters EXCEPT ![h] = w],
         NEW k \in Calls, call' = [call EXCEPT ![h] = k],
         now' = now, triggers' = triggers, SchedulerOK(sched', WaitKeys),
         \A g \in Handles : g # h => Steady(sched, sched', g),
         WaiterOK(h, w, sched', call', now)
  PROVE  IInv'
<1> DEFINE x == [queues[q] EXCEPT !.pending = AfterPoll(@, n)]
           r == Received(received[q], PollCurrent(q, n))
<1>1. /\ queues \in [Queues -> QueueType] /\ queues[q] \in QueueType
      /\ QueueOK(queues[q]) /\ waiters \in [Handles -> Entries] /\ n \in Nat
  BY TypeFacts DEF IInv
<1>2. queues' = [queues EXCEPT ![q] = x] /\ received' = [received EXCEPT ![q] = r]
  BY <1>1, ReceiveFacts
<1>3. Trimmed(queues[q], x)
  BY <1>1, PolledFacts
<1>4. x.pending = AfterPoll(queues[q].pending, n)
  BY <1>1 DEF QueueType
<1>5. /\ waiters' \in [Handles -> Entries]
      /\ \A g \in Handles : waiters'[g] = waiters[g] \/ waiters'[g].events = <<>>
  BY <1>1
<1>6. /\ EventsOK(Places(q, x.pending, waiters'), r, triggers)
      /\ r \in [1 .. MaxTriggers -> Nat]
  <2> DEFINE ws == waiters'
  <2>1. ws \in [Handles -> Entries]
        /\ \A g \in Handles : ws[g] = waiters[g] \/ ws[g].events = <<>>
    BY <1>5
  <2> HIDE DEF ws
  <2>2. /\ EventsOK(Places(q, x.pending, ws), r, triggers)
        /\ r \in [1 .. MaxTriggers -> Nat]
    BY <1>1, <1>4, <2>1, PollEvents
  <2> QED BY <2>2 DEF ws
<1> HIDE DEF x, r
<1>7. x \in QueueType /\ QueueOK(x) /\ x.pending \in Seq(EventType)
  BY <1>3 DEF Trimmed, QueueType
<1>8. queues[q].pending = <<>> => x.pending = <<>>
  BY <1>3, <1>7, DropPending DEF Trimmed
<1>9. w.completion = "waiting" => x.pending = <<>>
  BY <1>1, <1>8, PollCurrentFacts
<1> QED BY <1>2, <1>6, <1>7, <1>8, <1>9, CallStep

\* What a block does to its thread h.
LEMMA BlockEffect ==
  ASSUME NEW s, SchedulerOK(s, WaitKeys), NEW h \in Handles, s.current = h, CanLeave(s),
         NEW key, key # NoKey, NEW deadline
  PROVE  LET t == BlockCurrentUntil(s, key, deadline)
         IN  /\ \A g \in Handles : g # h => Steady(s, t, g)
             /\ t.state[h] = "blocked" /\ t.wait_key[h] = key
             /\ t.deadline[h] = deadline
<1> DEFINE t == BlockCurrentUntil(s, key, deadline)
<1>1. LET c == s.current
      IN  /\ \A g \in Handles : g # c => Steady(s, t, g)
          /\ c \in Handles => /\ t.state[c] = "blocked" /\ t.wait_key[c] = key
                              /\ t.deadline[c] = deadline
  BY ONLY SchedulerOK(s, WaitKeys), CanLeave(s), key # NoKey, BlockSteady
<1> HIDE DEF t
<1>2. /\ \A g \in Handles : g # h => Steady(s, t, g)
      /\ t.state[h] = "blocked" /\ t.wait_key[h] = key /\ t.deadline[h] = deadline
  BY <1>1
<1> QED BY <1>2 DEF t

\* The thread blocks under its entry.
LEMMA BlockedWaiter ==
  ASSUME IInv, NEW h \in Handles, NEW q \in Queues, NEW c, MayCall(h, c),
         NEW d \in Nat \cup {NoDeadline},
         sched' = BlockCurrentUntil(sched, WaitKey(q), d),
         NEW w, w.queue = q, w.completion = "waiting", w.deadline = d,
         w.events = <<>>, call'[h] = WaitCall(q)
  PROVE  /\ SchedulerOK(sched', WaitKeys)
         /\ \A g \in Handles : g # h => Steady(sched, sched', g)
         /\ WaiterOK(h, w, sched', call', now)
<1>1. SchedulerOK(sched, WaitKeys) /\ CanLeave(sched) /\ sched.current = h
  BY TypeFacts, CallerFacts DEF IInv, Running
<1>2. WaitKey(q) \in WaitKeys /\ WaitKey(q) # NoKey
      /\ \A g : WaitKey(q) # ThreadExitWaitKey(g)
  BY KeyFacts DEF WaitKeys
<1>3. SchedulerOK(sched', WaitKeys)
  BY <1>1, <1>2, BlockCurrentUntilOK
<1>4. /\ \A g \in Handles : g # h => Steady(sched, sched', g)
      /\ sched'.state[h] = "blocked" /\ sched'.wait_key[h] = WaitKey(q)
      /\ sched'.deadline[h] = d
  <2> DEFINE t == BlockCurrentUntil(sched, WaitKey(q), d)
  <2>1. /\ \A g \in Handles : g # h => Steady(sched, t, g)
        /\ t.state[h] = "blocked" /\ t.wait_key[h] = WaitKey(q) /\ t.deadline[h] = d
    BY ONLY <1>1, <1>2, h \in Handles, BlockEffect
  <2>2. sched' = t
    OBVIOUS
  <2> HIDE DEF t
  <2> QED BY <2>1, <2>2
<1>5. WaiterOK(h, w, sched', call', now)
  BY <1>2, <1>4 DEF WaiterOK
<1> QED BY <1>3, <1>4, <1>5

\* The thread's call ends while it runs.
LEMMA AnsweredWaiter ==
  ASSUME IInv, NEW h \in Handles, NEW c, MayCall(h, c),
         sched'.state = sched.state, sched'.wait_key = sched.wait_key,
         call'[h] = NoCall
  PROVE  WaiterOK(h, NoWaiter, sched', call', now)
<1>1. sched.state[h] = "running" /\ sched.wait_key[h] = NoKey
  BY CallerFacts DEF Running
<1> QED BY <1>1, EntryFacts DEF WaiterOK

LEMMA DeadlineType == now \in 0 .. MaxTime => Deadlines \subseteq Nat \cup {NoDeadline}
BY MaxTimeAssumption, EventQueueAssumption DEF Deadlines, DeadlineAfter

LEMMA WaitCallStep ==
  ASSUME IInv, NEW h \in Handles, NEW q \in Queues, NEW n \in Counts,
         NEW d \in Deadlines, Wait(h, q, n, d)
  PROVE  IInv'
<1> DEFINE w == [queue |-> q, maximum_count |-> n, deadline |-> d,
                 completion |-> "waiting", events |-> <<>>]
<1>1. /\ call \in [Handles -> Calls] /\ waiters \in [Handles -> Entries]
      /\ n \in Nat \ {0} /\ d \in Nat \cup {NoDeadline}
      /\ SchedulerOK(sched, WaitKeys)
  BY TypeFacts, EventQueueAssumption, DeadlineType DEF IInv
<1>2. /\ MayCall(h, NoCall) /\ waiters[h] = NoWaiter /\ call[h] = NoCall
      /\ waiters[h].queue \in {0, q}
      /\ queues' = [queues EXCEPT ![q].pending = AfterPoll(@, n)]
      /\ received' = Receive(q, PollCurrent(q, n))
      /\ now' = now /\ triggers' = triggers
  BY CallerFacts, EntryFacts DEF Wait
<1>3. CASE UNCHANGED <<sched, call, waiters>>
  <2>1. waiters' = [waiters EXCEPT ![h] = NoWaiter] /\ call' = [call EXCEPT ![h] = NoCall]
    BY <1>1, <1>2, <1>3
  <2>2. /\ NoWaiter \in Entries /\ NoWaiter.queue \in {0, q} /\ NoWaiter.events = <<>>
        /\ NoWaiter.completion # "waiting" /\ NoCall \in Calls
    BY EntryFacts DEF Entries, Calls
  <2>3. WaiterOK(h, NoWaiter, sched', call', now)
    BY <1>2, <1>3, AnsweredWaiter
  <2>4. SchedulerOK(sched', WaitKeys) /\ \A g \in Handles : g # h => Steady(sched, sched', g)
    BY <1>1, <1>3 DEF Steady
  <2> QED BY <1>1, <1>2, <2>1, <2>2, <2>3, <2>4, PollingStep
<1>4. CASE /\ PollCurrent(q, n) = <<>>
           /\ waiters' = [waiters EXCEPT ![h] = w]
           /\ sched' = BlockCurrentUntil(sched, WaitKey(q), d)
           /\ call' = CallAfter(h, WaitCall(q), "kWouldBlock")
  <2>1. /\ w \in Entries /\ w.queue = q /\ w.completion = "waiting"
        /\ w.deadline = d /\ w.events = <<>>
    <3>1. <<>> \in Seq(EventType)
      OBVIOUS
    <3>2. w \in WaiterType
      BY <1>1, <3>1 DEF WaiterType
    <3> QED BY <3>2 DEF Entries
  <2>2. call' = [call EXCEPT ![h] = WaitCall(q)] /\ WaitCall(q) \in Calls
    BY <1>4 DEF CallAfter, Calls
  <2>3. call'[h] = WaitCall(q)
    BY <1>1, <2>2
  <2> HIDE DEF w
  <2>4. /\ SchedulerOK(sched', WaitKeys)
        /\ \A g \in Handles : g # h => Steady(sched, sched', g)
        /\ WaiterOK(h, w, sched', call', now)
    BY <1>1, <1>2, <1>4, <2>1, <2>3, BlockedWaiter
  <2> QED BY <1>1, <1>2, <1>4, <2>1, <2>2, <2>4, PollingStep
<1> QED BY <1>3, <1>4 DEF Wait

\* The repeated call ends without touching the queue.
LEMMA AnswerStep ==
  ASSUME IInv, NEW h \in Handles, NEW q \in Queues, Repeats(h, q), Answer(h, q),
         UNCHANGED <<now, queues, triggers>>,
         sched'.state = sched.state, sched'.wait_key = sched.wait_key,
         SchedulerOK(sched', WaitKeys),
         \A g \in Handles : g # h => Steady(sched, sched', g),
         NEW r \in [1 .. MaxTriggers -> Nat], received' = [received EXCEPT ![q] = r],
         EventsOK(Places(q, queues[q].pending, waiters'), r, triggers)
  PROVE  IInv'
<1>1. /\ call \in [Handles -> Calls] /\ queues \in [Queues -> QueueType]
      /\ queues[q] \in QueueType /\ QueueOK(queues[q])
  BY TypeFacts DEF IInv
<1>2. /\ waiters' = [waiters EXCEPT ![h] = NoWaiter]
      /\ call' = [call EXCEPT ![h] = NoCall] /\ call'[h] = NoCall
      /\ queues' = [queues EXCEPT ![q] = queues[q]]
  BY <1>1 DEF Answer, CallAfter
<1>3. /\ NoWaiter \in Entries /\ NoWaiter.queue \in {0, q}
      /\ NoWaiter.completion # "waiting" /\ NoCall \in Calls
  BY EntryFacts DEF Entries, Calls
<1>4. waiters[h].queue \in {0, q}
  BY CallerFacts DEF Repeats
<1>5. WaiterOK(h, NoWaiter, sched', call', now)
  BY <1>2, AnsweredWaiter DEF Repeats
<1> QED BY <1>1, <1>2, <1>3, <1>4, <1>5, CallStep

\* The entries after h gave its own up.
LEMMA ClearedEvents ==
  ASSUME IInv, NEW h \in Handles, NEW q \in Queues, waiters[h].queue = q,
         waiters' = [waiters EXCEPT ![h] = NoWaiter]
  PROVE  /\ EventsOK(Places(q, queues[q].pending, waiters'), received[q], triggers)
         /\ \A I \in SUBSET DOMAIN waiters[h].events :
              LET r == Received(received[q], EntriesAt(waiters[h].events, I))
              IN  /\ EventsOK(Places(q, queues[q].pending, waiters'), r, triggers)
                  /\ r \in [1 .. MaxTriggers -> Nat]
<1> DEFINE s == queues[q].pending
           ws == waiters'
           c == Places(q, s, waiters)
           d == Places(q, s, ws)
<1>1. /\ s \in Seq(EventType) /\ waiters \in [Handles -> Entries]
      /\ EventsOK(c, received[q], triggers) /\ triggers \in Nat
      /\ received[q] \in [1 .. MaxTriggers -> Nat]
  BY TypeFacts DEF IInv
<1>2. /\ ws \in [Handles -> Entries] /\ ws[h] = NoWaiter
      /\ \A g \in Handles : g # h => ws[g] = waiters[g]
  BY <1>1 DEF Entries
<1> HIDE DEF s, ws
<1>3. /\ c \in Spread /\ c[0] = s
      /\ \A g \in Handles :
           c[g] = IF waiters[g].queue = q THEN waiters[g].events ELSE <<>>
  <2>1. s \in Seq(EventType) /\ waiters \in [Handles -> Entries]
    BY <1>1
  <2> QED BY ONLY <2>1, PlacesFacts
<1>4. /\ d \in Spread /\ d[0] = s
      /\ \A g \in Handles : d[g] = IF ws[g].queue = q THEN ws[g].events ELSE <<>>
  BY ONLY <1>1, <1>2, PlacesFacts
<1> HIDE DEF c, d
<1>5. d[h] = <<>> /\ c[h] = waiters[h].events
  BY <1>2, <1>3, <1>4, EntryFacts
<1>6. \A l \in 0 .. MaxHandle : l # h => d[l] = c[l]
  BY <1>2, <1>3, <1>4, PlaceFacts
<1>7. EventsOK(d, received[q], triggers)
  <2>1. ASSUME NEW l \in 0 .. MaxHandle PROVE \E i : Draws(c[l], d[l], i)
    <3>1. c[l] \in Seq(EventType)
      BY <1>3 DEF Spread
    <3>2. d[l] = c[l] \/ d[l] = <<>>
      BY <1>5, <1>6
    <3> QED BY <3>1, <3>2, DrawsAll
  <2> QED BY <1>1, <1>3, <1>4, <2>1, DropKeeps
<1>8. ASSUME NEW I \in SUBSET DOMAIN waiters[h].events
      PROVE  LET r == Received(received[q], EntriesAt(waiters[h].events, I))
             IN  EventsOK(d, r, triggers) /\ r \in [1 .. MaxTriggers -> Nat]
  <2>1. I \in SUBSET DOMAIN c[h]
    BY <1>5
  <2>2. LET ev == EntriesAt(c[h], I)
        IN  /\ EventsOK(d, Received(received[q], ev), triggers)
            /\ Received(received[q], ev) \in [1 .. MaxTriggers -> Nat]
    BY <1>1, <1>3, <1>4, <1>5, <1>6, <2>1, ReturnKeeps
  <2> QED BY <1>5, <2>2
<1> QED BY <1>7, <1>8 DEF d, ws, s

LEMMA FindsSteps ==
  ASSUME IInv, NEW h \in Handles, NEW q \in Queues
  PROVE  /\ FindsDeleted(h, q) => IInv'
         /\ FindsReserved(h, q) => IInv'
         /\ FindsTimeout(h, q) => IInv'
<1>1. /\ SchedulerOK(sched, WaitKeys)
      /\ received \in [Queues -> [1 .. MaxTriggers -> Nat]]
      /\ received[q] \in [1 .. MaxTriggers -> Nat]
      /\ received = [received EXCEPT ![q] = received[q]]
  BY TypeFacts DEF IInv
<1>2. ASSUME FindsDeleted(h, q) PROVE IInv'
  <2>1. /\ Repeats(h, q) /\ Answer(h, q) /\ UNCHANGED <<sched, now, queues, triggers>>
        /\ received' = received /\ waiters' = [waiters EXCEPT ![h] = NoWaiter]
    BY <1>2 DEF FindsDeleted, Answer
  <2>2. waiters[h].queue = q
    BY <2>1, CallerFacts DEF Repeats
  <2>3. EventsOK(Places(q, queues[q].pending, waiters'), received[q], triggers)
    BY <2>1, <2>2, ClearedEvents
  <2>4. \A g \in Handles : g # h => Steady(sched, sched', g)
    BY <2>1 DEF Steady
  <2> QED BY <1>1, <2>1, <2>3, <2>4, AnswerStep
<1>3. ASSUME FindsReserved(h, q) PROVE IInv'
  <2> DEFINE I == {i \in DOMAIN waiters[h].events :
                     IsCurrent(queues[q], waiters[h].events[i])}
             ev == EntriesAt(waiters[h].events, I)
             r == Received(received[q], ev)
  <2>1. /\ Repeats(h, q) /\ Answer(h, q) /\ UNCHANGED <<sched, now, queues, triggers>>
        /\ waiters' = [waiters EXCEPT ![h] = NoWaiter]
        /\ received' = Receive(q, ev)
    BY <1>3 DEF FindsReserved, Answer, CurrentEvents
  <2>2. waiters[h].queue = q
    BY <2>1, CallerFacts DEF Repeats
  <2>3. I \in SUBSET DOMAIN waiters[h].events
    OBVIOUS
  <2> HIDE DEF I
  <2>4. /\ EventsOK(Places(q, queues[q].pending, waiters'), r, triggers)
        /\ r \in [1 .. MaxTriggers -> Nat]
    BY <2>1, <2>2, <2>3, ClearedEvents
  <2>5. received' = [received EXCEPT ![q] = r]
    BY <2>1, ReceiveFacts
  <2>6. \A g \in Handles : g # h => Steady(sched, sched', g)
    BY <2>1 DEF Steady
  <2> HIDE DEF r, ev
  <2> QED BY <1>1, <2>1, <2>4, <2>5, <2>6, AnswerStep
<1>4. ASSUME FindsTimeout(h, q) PROVE IInv'
  <2>1. /\ Repeats(h, q) /\ Answer(h, q) /\ UNCHANGED <<now, queues, triggers>>
        /\ waiters' = [waiters EXCEPT ![h] = NoWaiter]
        /\ received' = received
        /\ sched' = ConsumeCurrentThreadTimeout(sched, WaitKey(q))
    BY <1>4 DEF FindsTimeout, Answer
  <2>2. waiters[h].queue = q /\ sched.current = h
    BY <2>1, CallerFacts DEF Repeats, Running
  <2>3. EventsOK(Places(q, queues[q].pending, waiters'), received[q], triggers)
    BY <2>1, <2>2, ClearedEvents
  <2>4. /\ SchedulerOK(sched', WaitKeys)
        /\ sched'.state = sched.state /\ sched'.wait_key = sched.wait_key
        /\ \A g \in Handles : g # sched.current => Steady(sched, sched', g)
    BY <1>1, <2>1, ConsumeSteady
  <2>5. \A g \in Handles : g # h => Steady(sched, sched', g)
    BY <2>2, <2>4
  <2>6. received' = [received EXCEPT ![q] = received[q]]
    BY <1>1, <2>1
  <2>7. UNCHANGED <<now, queues, triggers>>
    BY <2>1
  <2> QED BY <1>1, <2>1, <2>3, <2>4, <2>5, <2>6, <2>7, AnswerStep
<1> QED BY <1>2, <1>3, <1>4

LEMMA PollsAgainStep ==
  ASSUME IInv, NEW h \in Handles, NEW q \in Queues, PollsAgain(h, q)
  PROVE  IInv'
<1> DEFINE n == waiters[h].maximum_count
<1>1. /\ Repeats(h, q) /\ MayCall(h, WaitCall(q)) /\ call[h] = WaitCall(q)
      /\ queues' = [queues EXCEPT ![q].pending = AfterPoll(@, n)]
      /\ received' = Receive(q, PollCurrent(q, n))
      /\ now' = now /\ triggers' = triggers
  BY DEF PollsAgain, Repeats
<1>2. waiters[h] \in WaiterType /\ waiters[h].queue = q
  BY <1>1, CallerFacts
<1>3. /\ call \in [Handles -> Calls] /\ waiters \in [Handles -> Entries]
      /\ SchedulerOK(sched, WaitKeys) /\ n \in Nat \ {0}
      /\ waiters[h].deadline \in Nat \cup {NoDeadline}
  BY <1>2, TypeFacts, EventQueueAssumption DEF IInv, WaiterType
<1> HIDE DEF n
<1>4. CASE Answer(h, q) /\ UNCHANGED sched
  <2>1. /\ waiters' = [waiters EXCEPT ![h] = NoWaiter]
        /\ call' = [call EXCEPT ![h] = NoCall] /\ call'[h] = NoCall
    BY <1>3, <1>4 DEF Answer, CallAfter
  <2>2. /\ NoWaiter \in Entries /\ NoWaiter.queue \in {0, q} /\ NoWaiter.events = <<>>
        /\ NoWaiter.completion # "waiting" /\ NoCall \in Calls
    BY EntryFacts DEF Entries, Calls
  <2>3. WaiterOK(h, NoWaiter, sched', call', now)
    BY <1>1, <1>4, <2>1, AnsweredWaiter
  <2>4. SchedulerOK(sched', WaitKeys) /\ \A g \in Handles : g # h => Steady(sched, sched', g)
    BY <1>3, <1>4 DEF Steady
  <2>5. waiters[h].queue \in {0, q}
    BY <1>2
  <2> QED BY <1>1, <1>3, <2>1, <2>2, <2>3, <2>4, <2>5, PollingStep
<1>5. CASE /\ PollCurrent(q, n) = <<>>
           /\ waiters' = [waiters EXCEPT ![h].completion = "waiting",
                                         ![h].events = <<>>]
           /\ sched' = BlockCurrentUntil(sched, WaitKey(q), waiters[h].deadline)
           /\ UNCHANGED call
  <2> DEFINE w == [waiters[h] EXCEPT !.completion = "waiting", !.events = <<>>]
  <2>1. waiters' = [waiters EXCEPT ![h] = w]
    BY <1>3, <1>5
  <2>2. /\ w \in Entries /\ w.queue = q /\ w.completion = "waiting"
        /\ w.deadline = waiters[h].deadline /\ w.events = <<>>
    <3>1. <<>> \in Seq(EventType)
      OBVIOUS
    <3> QED BY <1>2, <3>1 DEF WaiterType, Entries
  <2> HIDE DEF w
  <2>3. call' = [call EXCEPT ![h] = call[h]] /\ call[h] \in Calls /\ call'[h] = WaitCall(q)
    BY <1>1, <1>3, <1>5
  <2>4. /\ SchedulerOK(sched', WaitKeys)
        /\ \A g \in Handles : g # h => Steady(sched, sched', g)
        /\ WaiterOK(h, w, sched', call', now)
    BY <1>1, <1>3, <1>5, <2>2, <2>3, BlockedWaiter
  <2>5. waiters[h].queue \in {0, q} /\ w.queue \in {0, q}
    BY <1>2, <2>2
  <2> QED BY <1>1, <1>3, <1>5, <2>1, <2>2, <2>3, <2>4, <2>5, PollingStep
<1> QED BY <1>4, <1>5 DEF PollsAgain, n

-----------------------------------------------------------------------------
(* The calls that wake others.                                              *)

\* An entry that is answered while its thread is awake or woken.
LEMMA SettledWaiter ==
  ASSUME NEW h \in Handles, NEW w, NEW s, NEW c, NEW time, WaiterOK(h, w, s, c, time),
         w.completion # "none", NEW t, Alive(t, h), t.wait_key[h] = NoKey,
         NEW v, v.queue = w.queue, v.completion \in {"reserved", "deleted"},
         v.events # <<>> => v.completion = "reserved", NEW later
  PROVE  WaiterOK(h, v, t, c, later)
BY DEF WaiterOK, Alive

\* What the scheduler knows of a thread with an entry that waits, or with
\* another.
LEMMA WaiterThread ==
  ASSUME IInv, NEW h \in Handles
  PROVE  /\ Alive(sched, h) /\ waiters[h] \in Entries
         /\ WaiterOK(h, waiters[h], sched, call, now)
         /\ waiters[h].completion = "waiting" =>
              /\ waiters[h] \in WaiterType /\ waiters[h].queue \in Queues
              /\ waiters[h].maximum_count \in Nat \ {0}
              /\ waiters[h].events = <<>>
              /\ sched.wait_key[h] \in {NoKey, WaitKey(waiters[h].queue)}
         /\ waiters[h].completion # "waiting" => sched.wait_key[h] = NoKey
<1>1. waiters[h] \in Entries /\ WaiterOK(h, waiters[h], sched, call, now)
  BY TypeFacts DEF IInv
<1>2. waiters[h].completion = "waiting" =>
        /\ waiters[h] \in WaiterType /\ waiters[h].queue \in Queues
        /\ waiters[h].maximum_count \in Nat \ {0}
  BY <1>1, EntryFacts
<1>3. /\ Alive(sched, h)
      /\ waiters[h].completion = "waiting" =>
           /\ waiters[h].events = <<>>
           /\ sched.wait_key[h] \in {NoKey, WaitKey(waiters[h].queue)}
      /\ waiters[h].completion # "waiting" => sched.wait_key[h] = NoKey
  BY <1>1 DEF WaiterOK, Alive
<1> QED BY <1>1, <1>2, <1>3

\* A thread that is awake stays so.
LEMMA AwakeDrifts ==
  ASSUME NEW s, SchedulerOK(s, WaitKeys), NEW t, NEW h \in Handles, NEW time,
         Drifts(s, t, h, time), Alive(s, h), s.wait_key[h] = NoKey
  PROVE  Alive(t, h) /\ t.wait_key[h] = NoKey
<1>1. h \notin Expired(s, time)
  BY DEF Expired, SchedulerOK, WaitsOK
<1>2. Steady(s, t, h)
  BY <1>1, Drifted
<1> QED BY <1>2 DEF Steady

LEMMA DeleteCall ==
  ASSUME IInv, NEW h \in Handles, NEW q \in Queues, Delete(h, q)
  PROVE  IInv'
<1> DEFINE mine == {g \in Handles : waiters[g].queue = q}
           W == {g \in mine : waiters[g].completion = "waiting"}
           x == [NewQueue EXCEPT !.state = "deleted"]
<1>1. /\ SchedulerOK(sched, WaitKeys) /\ now \in Nat /\ now \in 0 .. MaxTime
      /\ call \in [Handles -> Calls]
      /\ queues \in [Queues -> QueueType] /\ waiters \in [Handles -> Entries]
      /\ triggers \in 0 .. MaxTriggers
      /\ received \in [Queues -> [1 .. MaxTriggers -> Nat]]
  BY TypeFacts DEF IInv
<1>2. /\ queues' = [queues EXCEPT ![q] = x]
      /\ waiters' = [g \in Handles |->
                       IF g \in mine
                       THEN [waiters[g] EXCEPT !.completion = "deleted",
                                               !.events = <<>>]
                       ELSE waiters[g]]
      /\ sched' = WakeWaiters(InOrder(W), now)
      /\ now' = now /\ call' = call /\ triggers' = triggers /\ received' = received
  BY DEF Delete
<1>3. /\ x \in QueueType /\ QueueOK(x) /\ x.pending = <<>>
  <2>1. /\ x \in QueueType /\ x.registrations = <<>> /\ x.pending = <<>>
        /\ x.state = "deleted"
    BY NewQueueFacts DEF QueueType
  <2> HIDE DEF x
  <2> QED BY <2>1 DEF QueueOK
<1> HIDE DEF x
<1>4. /\ queues' \in [Queues -> QueueType] /\ queues'[q] = x
      /\ \A p \in Queues : p # q => queues'[p] = queues[p]
  BY <1>1, <1>2, <1>3
<1>5. ASSUME NEW g \in mine
      PROVE  LET v == waiters'[g]
             IN  /\ waiters[g] \in WaiterType /\ v \in WaiterType /\ v.queue = q
                 /\ v.completion = "deleted" /\ v.events = <<>>
                 /\ waiters[g].completion # "none"
  <2>1. waiters[g] \in Entries /\ waiters[g].queue = q
    BY <1>1
  <2>2. waiters[g] \in WaiterType /\ waiters[g].completion # "none"
    BY <2>1, EntryFacts
  <2>3. waiters'[g] = [waiters[g] EXCEPT !.completion = "deleted", !.events = <<>>]
    BY <1>2
  <2>4. <<>> \in Seq(EventType)
    OBVIOUS
  <2> QED BY <2>1, <2>2, <2>3, <2>4 DEF WaiterType
<1>6. \A g \in Handles : g \notin mine => waiters'[g] = waiters[g] /\ waiters[g].queue # q
  BY <1>2
<1>7. waiters' \in [Handles -> Entries]
  <2>1. waiters' = [g \in Handles |-> waiters'[g]]
    BY <1>2
  <2>2. \A g \in Handles : waiters'[g] \in Entries
    BY <1>1, <1>5, <1>6 DEF Entries
  <2> QED BY <2>1, <2>2
<1>8. /\ SchedulerOK(sched', WaitKeys)
      /\ \A g \in W : Alive(sched', g) /\ sched'.wait_key[g] = NoKey
      /\ \A g \in Handles \ W : Drifts(sched, sched', g, now)
  <2>1. W \in SUBSET Handles
    OBVIOUS
  <2>2. \A g \in W : /\ waiters[g].queue \in Queues
                     /\ sched.wait_key[g] \in {NoKey, WaitKey(waiters[g].queue)}
    BY WaiterThread
  <2>3. \A g \in Handles : Alive(sched, g)
    BY WaiterThread
  <2> HIDE DEF W
  <2>4. Lists(InOrder(W), W)
    BY <2>1, MaxHandleAssumption, InOrderLists DEF Handles
  <2> QED BY <1>1, <1>2, <2>1, <2>2, <2>3, <2>4, WakeWaitersEffect
<1>9. TypeOK'
  BY <1>1, <1>2, <1>4, <1>7, <1>8 DEF TypeOK, Entries
<1>10. ASSUME NEW g \in Handles PROVE WaiterOK(g, waiters'[g], sched', call', now')
  <2>1. /\ Alive(sched, g) /\ waiters[g] \in Entries
        /\ WaiterOK(g, waiters[g], sched, call, now)
        /\ waiters[g].completion # "waiting" => sched.wait_key[g] = NoKey
    BY WaiterThread
  <2>2. CASE g \in mine
    <3>1. Alive(sched', g) /\ sched'.wait_key[g] = NoKey
      <4>1. CASE g \in W
        BY <1>8, <4>1
      <4>2. CASE g \notin W
        <5>1. waiters[g].completion # "waiting" /\ Drifts(sched, sched', g, now)
          BY <1>8, <2>2, <4>2
        <5> QED BY <1>1, <2>1, <5>1, AwakeDrifts
      <4> QED BY <4>1, <4>2
    <3>2. /\ waiters'[g].queue = waiters[g].queue /\ waiters[g].completion # "none"
          /\ waiters'[g].completion \in {"reserved", "deleted"}
          /\ waiters'[g].events = <<>>
      BY <1>5, <2>2
    <3> DEFINE v == waiters'[g]
               t == sched'
    <3>3. /\ Alive(t, g) /\ t.wait_key[g] = NoKey /\ v.queue = waiters[g].queue
          /\ v.completion \in {"reserved", "deleted"} /\ v.events = <<>>
      BY <3>1, <3>2
    <3> HIDE DEF v, t
    <3>4. WaiterOK(g, v, t, call, now)
      BY <2>1, <3>2, <3>3, SettledWaiter
    <3> QED BY <1>2, <3>4 DEF v, t
  <2>3. CASE g \notin mine
    <3>1. Drifts(sched, sched', g, now) /\ waiters'[g] = waiters[g]
      BY <1>6, <1>8, <2>3
    <3>2. WaiterOK(g, waiters[g], sched', call, now)
      BY <1>1, <2>1, <3>1, WaiterDrifts DEF Entries
    <3> QED BY <1>2, <3>1, <3>2
  <2> QED BY <2>2, <2>3
<1>11. ASSUME NEW p \in Queues
       PROVE  /\ QueueOK(queues'[p]) /\ Served(queues'[p], p, waiters', now')
              /\ EventsOK(Places(p, queues'[p].pending, waiters'), received'[p], triggers')
  <2>0. /\ QueueOK(queues[p]) /\ Served(queues[p], p, waiters, now)
        /\ EventsOK(Places(p, queues[p].pending, waiters), received[p], triggers)
    BY DEF IInv
  <2>1. CASE p = q
    <3>1. Served(x, q, waiters', now)
      BY <1>3 DEF Served
    <3> DEFINE d == Places(q, <<>>, waiters')
    <3>2. /\ DOMAIN d = 0 .. MaxHandle
          /\ \A l \in 0 .. MaxHandle : d[l] = <<>>
      BY <1>5, <1>6, PlaceFacts DEF Places
    <3>3. EventsOK(d, received[q], triggers)
      <4> HIDE DEF d
      <4>1. \A l \in DOMAIN d : DOMAIN d[l] = {}
        BY <3>2
      <4>2. \A n \in DOMAIN received[q] :
               received[q][n] \in {0, 1} /\ (received[q][n] = 1 => n <= triggers)
        BY <2>0, <2>1 DEF EventsOK
      <4> QED BY <4>1, <4>2 DEF EventsOK
    <3> QED BY <1>2, <1>3, <1>4, <2>1, <3>1, <3>3
  <2>2. CASE p # q
    <3>1. \A g \in Handles :
             /\ waiters'[g].queue = p <=> waiters[g].queue = p
             /\ waiters[g].queue = p => waiters'[g] = waiters[g]
      BY <1>5, <1>6, <2>2
    <3>2. Served(queues[p], p, waiters', now)
      BY <2>0, <3>1 DEF Served
    <3>3. Places(p, queues[p].pending, waiters') = Places(p, queues[p].pending, waiters)
      <4>1. \A g \in 0 .. MaxHandle : g # 0 =>
              (IF waiters'[g].queue = p THEN waiters'[g].events ELSE <<>>) =
              (IF waiters[g].queue = p THEN waiters[g].events ELSE <<>>)
        BY <3>1, PlaceFacts
      <4> QED BY <4>1 DEF Places
    <3> QED BY <1>2, <1>4, <2>0, <2>2, <3>2, <3>3
  <2> QED BY <2>1, <2>2
<1> QED BY <1>9, <1>10, <1>11 DEF IInv

\* Waiters that can be served.
LEMMA ReserverFacts ==
  ASSUME IInv, NEW q, NEW h \in Handles, CanReserve(q, waiters[h])
  PROVE  /\ waiters[h] \in WaiterType /\ waiters[h].queue = q
         /\ waiters[h].completion = "waiting" /\ waiters[h].events = <<>>
         /\ waiters[h].maximum_count \in Nat \ {0}
BY WaiterThread DEF CanReserve

LEMMA TakenOfNothing ==
  ASSUME NEW n \in Nat
  PROVE  Taken(<<>>, n) = <<>>
<1>1. <<>> \in Seq(EventType) /\ Len(<<>>) = 0
  OBVIOUS
<1>2. /\ Taken(<<>>, n) \in Seq(EventType) /\ TakeCount(<<>>, n) \in 0 .. 0
      /\ DOMAIN Taken(<<>>, n) = 1 .. TakeCount(<<>>, n)
  BY <1>1, TakenFacts
<1>3. DOMAIN Taken(<<>>, n) = {}
  BY <1>2
<1> QED BY <1>2, <1>3, EmptySeq

\* A registration of queue q fires and its waiters are visited.
LEMMA FireVisit ==
  ASSUME IInv, NEW q \in Queues, NEW reg,
         \E i \in DOMAIN queues[q].registrations : queues[q].registrations[i] = reg,
         triggers < MaxTriggers
  PROVE  LET s == Triggered(queues[q].pending, reg, triggers + 1)
             c == Places(q, s, waiters)
         IN  /\ c \in Spread /\ c[0] = s
             /\ \A h \in Handles : CanReserve(q, waiters[h]) => c[h] = <<>>
             /\ \A i \in DOMAIN s : IsCurrent(queues[q], s[i])
             /\ \A g \in 0 .. MaxHandle :
                  StageOK(q, c, Leftover(q, s), received[q], triggers + 1, g)
<1> DEFINE p == queues[q].pending
           s == Triggered(p, reg, triggers + 1)
           b == Places(q, p, waiters)
           c == Places(q, s, waiters)
           left == Leftover(q, s)
<1>1. /\ p \in Seq(EventType) /\ waiters \in [Handles -> Entries]
      /\ EventsOK(b, received[q], triggers) /\ QueueOK(queues[q])
      /\ triggers \in Nat /\ received[q] \in [1 .. MaxTriggers -> Nat]
      /\ queues[q] \in QueueType
  BY TypeFacts DEF IInv
<1>2. triggers + 1 \in 1 .. MaxTriggers
  BY <1>1, EventQueueAssumption
<1>3. reg \in RegistrationType
  <2>1. queues[q].registrations \in Seq(RegistrationType)
    BY <1>1 DEF QueueType
  <2> QED BY <2>1
<1>4. /\ s \in Seq(EventType)
      /\ \E k \in DOMAIN s :
           /\ s[k].ident = reg.ident /\ s[k].filter = reg.filter
           /\ s[k].generation = reg.generation /\ s[k].number = triggers + 1
           /\ \A i \in DOMAIN s : i # k => i \in DOMAIN p /\ s[i] = p[i]
  BY <1>1, <1>2, <1>3, TriggeredFacts
<1>5. s = Triggered(p, reg, triggers + 1)
  OBVIOUS
<1>6. /\ b \in Spread /\ b[0] = p
      /\ \A h \in Handles :
           b[h] = IF waiters[h].queue = q THEN waiters[h].events ELSE <<>>
  <2> HIDE DEF p
  <2> QED BY <1>1, PlacesFacts
<1> HIDE DEF p, s
<1>7. /\ c \in Spread /\ c[0] = s
      /\ \A h \in Handles :
           c[h] = IF waiters[h].queue = q THEN waiters[h].events ELSE <<>>
  BY <1>1, <1>4, PlacesFacts
<1> HIDE DEF b, c
<1>8. EventsOK(c, received[q], triggers + 1)
  <2>1. \A l \in Handles : c[l] = b[l]
    BY <1>6, <1>7
  <2>2. c[0] = Triggered(b[0], reg, triggers + 1)
    BY <1>5, <1>6, <1>7
  <2> QED BY <1>1, <1>2, <1>3, <1>6, <1>7, <2>1, <2>2, TriggerKeeps
<1>9. ASSUME NEW i \in DOMAIN s PROVE IsCurrent(queues[q], s[i])
  <2>1. PICK k \in DOMAIN s :
           /\ s[k].ident = reg.ident /\ s[k].filter = reg.filter
           /\ s[k].generation = reg.generation
           /\ \A j \in DOMAIN s : j # k => j \in DOMAIN p /\ s[j] = p[j]
    BY <1>4
  <2>2. CASE i = k
    BY <2>1, <2>2 DEF IsCurrent, Matches
  <2>3. CASE i # k
    <3>1. i \in DOMAIN p /\ s[i] = p[i]
      BY <2>1, <2>3
    <3> QED BY <1>1, <3>1 DEF QueueOK, p
  <2> QED BY <2>2, <2>3
<1>10. \A h \in Handles : CanReserve(q, waiters[h]) =>
         waiters[h].maximum_count \in Nat \ {0} /\ c[h] = <<>>
  BY <1>7, ReserverFacts
<1>11. Visits(left, q, c[0])
  BY <1>7, LeftoverVisits
<1> HIDE DEF left
<1>12. \A g \in 0 .. MaxHandle : StageOK(q, c, left, received[q], triggers + 1, g)
  BY <1>7, <1>8, <1>10, <1>11, VisitKeeps
<1> QED BY <1>7, <1>9, <1>10, <1>12 DEF left, c, s, p

\* The entries ws after the visit to the waiters of queue q.
VisitedEntries(ws, q, left) ==
  \A h \in Handles :
    /\ ws[h].queue = waiters[h].queue
    /\ waiters[h].queue = q =>
         IF CanReserve(q, waiters[h]) /\ left[h - 1] # <<>>
         THEN /\ ws[h].completion = "reserved"
              /\ ws[h].events = Taken(left[h - 1], waiters[h].maximum_count)
         ELSE ws[h] = waiters[h]

\* The queue after the visit.
LEMMA FireQueue ==
  ASSUME IInv, NEW q \in Queues, NEW reg, Live(q),
         \E i \in DOMAIN queues[q].registrations : queues[q].registrations[i] = reg,
         triggers < MaxTriggers, NEW left,
         left = Leftover(q, Triggered(queues[q].pending, reg, triggers + 1)),
         NEW x, x = [queues[q] EXCEPT !.pending = left[MaxHandle]],
         NEW ws, VisitedEntries(ws, q, left), NEW later \in Nat, now <= later
  PROVE  /\ x \in QueueType /\ QueueOK(x) /\ Served(x, q, ws, later)
         /\ EventsOK(Places(q, x.pending, ws), received[q], triggers + 1)
<1> DEFINE s == Triggered(queues[q].pending, reg, triggers + 1)
           c == Places(q, s, waiters)
           r == left[MaxHandle]
           d == Stage(q, c, left, MaxHandle)
<1>0. \A h \in Handles :
        /\ ws[h].queue = waiters[h].queue
        /\ waiters[h].queue = q =>
             IF CanReserve(q, waiters[h]) /\ left[h - 1] # <<>>
             THEN /\ ws[h].completion = "reserved"
                  /\ ws[h].events = Taken(left[h - 1], waiters[h].maximum_count)
             ELSE ws[h] = waiters[h]
  BY DEF VisitedEntries
<1>1. /\ queues[q] \in QueueType /\ waiters \in [Handles -> Entries] /\ now \in Nat
  BY TypeFacts DEF IInv
<1>2. /\ c[0] = s
      /\ \A h \in Handles : CanReserve(q, waiters[h]) => c[h] = <<>>
      /\ \A i \in DOMAIN s : IsCurrent(queues[q], s[i])
      /\ \A g \in 0 .. MaxHandle : StageOK(q, c, left, received[q], triggers + 1, g)
  BY FireVisit
<1>3. c = [k \in 0 .. MaxHandle |-> IF k = 0 THEN s
                                    ELSE IF waiters[k].queue = q THEN waiters[k].events
                                    ELSE <<>>]
  BY DEF Places
<1> HIDE DEF s, c
<1>4. /\ r \in Seq(EventType) /\ EventsOK(d, received[q], triggers + 1)
      /\ \A i \in DOMAIN r : \E j \in DOMAIN s : r[i] = s[j]
      /\ \A k \in 0 .. MaxHandle : left[k] = <<>> => r = <<>>
  BY <1>2, PlaceFacts DEF StageOK
<1> HIDE DEF r
<1>5. /\ x \in QueueType /\ x.pending = r /\ x.state = "live"
      /\ x.registrations = queues[q].registrations
  <2>1. x = [queues[q] EXCEPT !.pending = r]
    BY DEF r
  <2> QED BY <1>1, <1>4, <2>1 DEF QueueType, Live
<1>6. QueueOK(x)
  <2>1. \A i \in DOMAIN x.pending : IsCurrent(x, x.pending[i])
    BY <1>2, <1>4, <1>5 DEF IsCurrent
  <2> QED BY <1>5, <2>1 DEF QueueOK
<1>7. Served(x, q, ws, later)
  <2> SUFFICES ASSUME NEW h \in Handles, ws[h].queue = q, ws[h].completion = "waiting",
                      ws[h].deadline = NoDeadline \/ ws[h].deadline > later
               PROVE  x.pending = <<>>
    BY DEF Served
  <2>1. ws[h] = waiters[h] /\ ~(CanReserve(q, waiters[h]) /\ left[h - 1] # <<>>)
    BY <1>0
  <2>2. waiters[h].deadline \in Nat \cup {NoDeadline}
    BY <1>1 DEF Entries, WaiterType, NoWaiter
  <2>3. CanReserve(q, waiters[h])
    BY <1>1, <2>1, <2>2 DEF CanReserve, NoDeadline
  <2>4. left[h - 1] = <<>> /\ h - 1 \in 0 .. MaxHandle
    BY <2>1, <2>3, PlaceFacts
  <2> QED BY <1>4, <1>5, <2>4
<1>8. Places(q, x.pending, ws) = d
  <2>1. ASSUME NEW l \in Handles
        PROVE  (IF ws[l].queue = q THEN ws[l].events ELSE <<>>) =
               (IF CanReserve(q, waiters[l])
                THEN Taken(left[l - 1], waiters[l].maximum_count) ELSE c[l])
    <3>1. c[l] = IF waiters[l].queue = q THEN waiters[l].events ELSE <<>>
      BY <1>3, PlaceFacts
    <3>2. CASE CanReserve(q, waiters[l]) /\ left[l - 1] # <<>>
      BY <1>0, <3>2, ReserverFacts
    <3>3. CASE CanReserve(q, waiters[l]) /\ left[l - 1] = <<>>
      <4>1. /\ waiters[l].queue = q /\ waiters[l].events = <<>> /\ ws[l] = waiters[l]
            /\ waiters[l].maximum_count \in Nat
        BY <1>0, <3>3, ReserverFacts
      <4> QED BY <3>3, <4>1, TakenOfNothing
    <3>4. CASE ~CanReserve(q, waiters[l])
      BY <1>0, <3>1, <3>4
    <3> QED BY <3>2, <3>3, <3>4
  <2>2. \A l \in 0 .. MaxHandle : l <= MaxHandle /\ (l = 0 \/ l \in Handles)
    BY PlaceFacts, MaxHandleAssumption
  <2> QED BY <1>5, <2>1, <2>2 DEF Places, Stage, r
<1> QED BY <1>4, <1>5, <1>6, <1>7, <1>8
\* One queue after the other, the threads R[q] of every queue q of D.
LEMMA VisitsListed ==
  ASSUME NEW D \in SUBSET Queues, NEW R \in [D -> SUBSET Handles],
         \A p, q \in D : p # q => R[p] \cap R[q] = {}, NEW W,
         \A h : h \in W <=> \E q \in D : h \in R[q]
  PROVE  LET visits == InOrder(D)
         IN  Lists(Joined([i \in DOMAIN visits |-> InOrder(R[visits[i]])]), W)
<1> DEFINE v == InOrder(D)
           parts == [i \in DOMAIN v |-> InOrder(R[v[i]])]
           T == [i \in DOMAIN v |-> R[v[i]]]
           n == Len(v)
<1>1. Lists(v, D)
  BY EventQueueAssumption, InOrderLists DEF Queues
<1> HIDE DEF v
<1>2. /\ v \in Seq(D)
      /\ \A i, j \in DOMAIN v : v[i] = v[j] => i = j
      /\ \A q \in D : \E i \in DOMAIN v : v[i] = q
  BY <1>1 DEF Lists
<1>3. n \in Nat /\ DOMAIN v = 1 .. n /\ \A i \in 1 .. n : v[i] \in D
  BY <1>2
<1> HIDE DEF n
<1>4. ASSUME NEW i \in 1 .. n PROVE Lists(parts[i], T[i])
  <2>1. R[v[i]] \in SUBSET (1 .. MaxHandle)
    BY <1>3 DEF Handles
  <2>2. Lists(InOrder(R[v[i]]), R[v[i]])
    BY <2>1, MaxHandleAssumption, InOrderLists
  <2> QED BY <1>3, <2>2
<1>5. ASSUME NEW i \in 1 .. n, NEW j \in 1 .. n, i # j PROVE T[i] \cap T[j] = {}
  <2>1. v[i] \in D /\ v[j] \in D /\ v[i] # v[j]
    BY <1>2, <1>3, <1>5
  <2> QED BY <1>3, <2>1
<1>6. UNION {T[i] : i \in 1 .. n} = W
  <2>1. ASSUME NEW h PROVE h \in W <=> \E i \in 1 .. n : h \in T[i]
    <3>1. (\E q \in D : h \in R[q]) <=> \E i \in 1 .. n : h \in R[v[i]]
      BY <1>2, <1>3
    <3> QED BY <1>3, <3>1
  <2> HIDE DEF T
  <2> QED BY <2>1
<1>7. DOMAIN parts = 1 .. n /\ Len(parts) = n
  <2>1. DOMAIN parts = 1 .. n
    BY <1>3
  <2> HIDE DEF parts
  <2> QED BY <1>3, <2>1
<1> HIDE DEF parts, T
<1>8. Lists(Joined(parts), UNION {T[i] : i \in 1 .. n})
  BY <1>3, <1>4, <1>5, <1>7, JoinedLists
<1> QED BY <1>6, <1>8 DEF parts, v

\* The registrations r fire, one in each queue of DOMAIN r.
LEMMA FireStep ==
  ASSUME IInv, NEW r, DOMAIN r \subseteq Queues,
         \A q \in DOMAIN r :
           /\ Live(q)
           /\ \E i \in DOMAIN queues[q].registrations : queues[q].registrations[i] = r[q],
         NEW later \in LaterTimes, Fire(r, later), UNCHANGED <<call, received>>
  PROVE  IInv'
<1> DEFINE D == DOMAIN r
           left == [q \in D |->
                      Leftover(q, Triggered(queues[q].pending, r[q], triggers + 1))]
           R == [q \in D |-> {h \in Handles : /\ CanReserve(q, waiters[h])
                                              /\ left[q][h - 1] # <<>>}]
           W == {h \in Handles : waiters[h].queue \in D /\ h \in R[waiters[h].queue]}
           visits == InOrder(D)
           threads == Joined([i \in DOMAIN visits |-> InOrder(R[visits[i]])])
<1>1. /\ SchedulerOK(sched, WaitKeys) /\ now \in Nat /\ now \in 0 .. MaxTime
      /\ call \in [Handles -> Calls]
      /\ queues \in [Queues -> QueueType] /\ waiters \in [Handles -> Entries]
      /\ triggers \in 0 .. MaxTriggers /\ triggers \in Nat
      /\ received \in [Queues -> [1 .. MaxTriggers -> Nat]]
      /\ \A q \in Queues : queues[q].pending \in Seq(EventType)
  BY TypeFacts DEF IInv
<1>2. later \in Nat /\ later \in 0 .. MaxTime /\ now <= later
  BY <1>1, MaxTimeAssumption DEF LaterTimes
<1>3. \A i \in DOMAIN visits : visits[i] \in D
  <2>1. Lists(visits, D)
    BY EventQueueAssumption, InOrderLists DEF Queues
  <2> HIDE DEF visits, D
  <2> QED BY <2>1 DEF Lists
<1>4. /\ triggers < MaxTriggers
      /\ triggers' = triggers + 1
      /\ queues' = [q \in Queues |->
                      IF q \in D THEN [queues[q] EXCEPT !.pending = left[q][MaxHandle]]
                      ELSE queues[q]]
      /\ waiters' = [h \in Handles |->
                       IF h \in W
                       THEN [waiters[h] EXCEPT
                               !.completion = "reserved",
                               !.events = Taken(left[waiters[h].queue][h - 1],
                                                waiters[h].maximum_count)]
                       ELSE waiters[h]]
      /\ sched' = WakeWaiters(threads, later)
      /\ now' = later
  <2>1. [i \in DOMAIN visits |-> InOrder(R[visits[i]])] =
        [i \in DOMAIN visits |->
           InOrder({h \in Handles : /\ CanReserve(visits[i], waiters[h])
                                    /\ left[visits[i]][h - 1] # <<>>})]
    BY <1>3
  <2>2. /\ triggers < MaxTriggers
        /\ triggers' = triggers + 1
        /\ queues' = [q \in Queues |->
                        IF q \in D THEN [queues[q] EXCEPT !.pending = left[q][MaxHandle]]
                        ELSE queues[q]]
        /\ sched' = WakeWaiters(threads, later)
        /\ now' = later
    BY <2>1 DEF Fire
  <2>3. waiters' = [h \in Handles |->
                      IF /\ waiters[h].queue \in D
                         /\ h \in {g \in Handles :
                                     /\ CanReserve(waiters[h].queue, waiters[g])
                                     /\ left[waiters[h].queue][g - 1] # <<>>}
                      THEN [waiters[h] EXCEPT
                              !.completion = "reserved",
                              !.events = Taken(left[waiters[h].queue][h - 1],
                                               waiters[h].maximum_count)]
                      ELSE waiters[h]]
    BY DEF Fire
  <2>4. \A h \in Handles :
          h \in W <=> /\ waiters[h].queue \in D
                      /\ h \in {g \in Handles :
                                  /\ CanReserve(waiters[h].queue, waiters[g])
                                  /\ left[waiters[h].queue][g - 1] # <<>>}
    OBVIOUS
  <2> QED BY <2>2, <2>3, <2>4
<1>5. \A q \in D : left[q] = Leftover(q, Triggered(queues[q].pending, r[q], triggers + 1))
  OBVIOUS
<1>6. /\ R \in [D -> SUBSET Handles]
      /\ \A q \in D : \A h :
           h \in R[q] <=> /\ h \in Handles /\ CanReserve(q, waiters[h])
                          /\ left[q][h - 1] # <<>>
  OBVIOUS
<1> HIDE DEF R, left
<1>7. W \in SUBSET Handles /\ \A h : h \in W <=> \E q \in D : h \in R[q]
  BY <1>6 DEF CanReserve
<1>8. \A h \in W : /\ waiters[h].queue \in D /\ waiters[h] \in WaiterType
                   /\ CanReserve(waiters[h].queue, waiters[h])
                   /\ left[waiters[h].queue][h - 1] # <<>>
                   /\ waiters[h].completion = "waiting"
                   /\ waiters[h].maximum_count \in Nat \ {0}
  <2> TAKE h \in W
  <2>1. /\ h \in Handles /\ waiters[h].queue \in D
        /\ CanReserve(waiters[h].queue, waiters[h])
        /\ left[waiters[h].queue][h - 1] # <<>>
    BY <1>6
  <2>2. /\ waiters[h] \in WaiterType /\ waiters[h].completion = "waiting"
        /\ waiters[h].maximum_count \in Nat \ {0}
    BY <2>1, ReserverFacts
  <2> QED BY <2>1, <2>2
<1>9. \A h \in Handles : h \notin W /\ waiters[h].queue \in D =>
        ~(CanReserve(waiters[h].queue, waiters[h]) /\ left[waiters[h].queue][h - 1] # <<>>)
  BY <1>6
<1> HIDE DEF W
<1>10. Lists(threads, W)
  <2>1. \A p, q \in D : p # q => R[p] \cap R[q] = {}
    BY <1>6 DEF CanReserve
  <2> HIDE DEF D
  <2> QED BY <1>6, <1>7, <2>1, VisitsListed DEF D
<1> HIDE DEF threads, visits
<1>11. /\ SchedulerOK(sched', WaitKeys)
       /\ \A g \in W : Alive(sched', g) /\ sched'.wait_key[g] = NoKey
       /\ \A g \in Handles \ W : Drifts(sched, sched', g, later)
  <2>1. \A g \in W : /\ waiters[g].queue \in Queues
                     /\ sched.wait_key[g] \in {NoKey, WaitKey(waiters[g].queue)}
    BY <1>7, <1>8, WaiterThread
  <2>2. \A g \in Handles : Alive(sched, g)
    BY WaiterThread
  <2> QED BY <1>1, <1>2, <1>4, <1>7, <1>10, <2>1, <2>2, WakeWaitersEffect
<1>12. ASSUME NEW h \in W
       PROVE  LET v == waiters'[h]
              IN  /\ v \in WaiterType /\ v.queue = waiters[h].queue
                  /\ v.completion = "reserved"
                  /\ v.events = Taken(left[waiters[h].queue][h - 1],
                                      waiters[h].maximum_count)
  <2> DEFINE q == waiters[h].queue
             s == left[q][h - 1]
             e == Taken(s, waiters[h].maximum_count)
  <2>1. h \in Handles /\ q \in D /\ q \in Queues /\ waiters[h] \in WaiterType
        /\ waiters[h].maximum_count \in Nat
    BY <1>7, <1>8
  <2>2. s \in Seq(EventType)
    <3>1. h - 1 \in 0 .. MaxHandle
      BY <2>1, PlaceFacts
    <3> HIDE DEF q, D
    <3>2. \A g \in 0 .. MaxHandle : left[q][g] \in Seq(EventType)
      BY <1>4, <1>5, <2>1, FireVisit DEF StageOK, D
    <3> QED BY <3>1, <3>2
  <2>3. e \in Seq(EventType)
    <3> HIDE DEF s
    <3> QED BY <2>1, <2>2, TakenFacts
  <2>4. waiters'[h] = [waiters[h] EXCEPT !.completion = "reserved", !.events = e]
    BY <1>4, <2>1
  <2> HIDE DEF e
  <2> QED BY <2>1, <2>3, <2>4 DEF WaiterType, e, s, q
<1>13. \A h \in Handles : h \notin W => waiters'[h] = waiters[h]
  BY <1>4
<1>14. waiters' \in [Handles -> Entries]
  <2>1. waiters' = [g \in Handles |-> waiters'[g]]
    BY <1>4
  <2>2. \A g \in Handles : waiters'[g] \in Entries
    BY <1>1, <1>12, <1>13 DEF Entries
  <2> QED BY <2>1, <2>2
<1>15. ASSUME NEW g \in Handles PROVE WaiterOK(g, waiters'[g], sched', call', now')
  <2>1. /\ waiters[g] \in Entries /\ WaiterOK(g, waiters[g], sched, call, now)
    BY WaiterThread
  <2>2. CASE g \in W
    <3> DEFINE v == waiters'[g]
               t == sched'
    <3>1. /\ Alive(t, g) /\ t.wait_key[g] = NoKey /\ v.queue = waiters[g].queue
          /\ v.completion = "reserved" /\ waiters[g].completion # "none"
      BY <1>8, <1>11, <1>12, <2>2
    <3> HIDE DEF v, t
    <3>2. WaiterOK(g, v, t, call, later)
      BY <2>1, <3>1, SettledWaiter
    <3> QED BY <1>4, <3>2 DEF v, t
  <2>3. CASE g \notin W
    <3>1. Drifts(sched, sched', g, later) /\ waiters'[g] = waiters[g]
      BY <1>11, <1>13, <2>3
    <3>2. WaiterOK(g, waiters[g], sched', call, later)
      BY <1>1, <1>2, <2>1, <3>1, WaiterDrifts DEF Entries
    <3> QED BY <1>4, <3>1, <3>2
  <2> QED BY <2>2, <2>3
<1>16. ASSUME NEW q \in Queues
       PROVE  /\ queues'[q] \in QueueType
              /\ QueueOK(queues'[q]) /\ Served(queues'[q], q, waiters', now')
              /\ EventsOK(Places(q, queues'[q].pending, waiters'), received'[q], triggers')
  <2>1. CASE q \in D
    <3> DEFINE x == [queues[q] EXCEPT !.pending = left[q][MaxHandle]]
    <3>1. queues'[q] = x
      BY <1>4, <2>1
    <3>2. \A h \in Handles :
            /\ waiters'[h].queue = waiters[h].queue
            /\ waiters[h].queue = q =>
                 IF CanReserve(q, waiters[h]) /\ left[q][h - 1] # <<>>
                 THEN /\ waiters'[h].completion = "reserved"
                      /\ waiters'[h].events = Taken(left[q][h - 1], waiters[h].maximum_count)
                 ELSE waiters'[h] = waiters[h]
      BY <1>6, <1>7, <1>8, <1>12, <1>13, <2>1
    <3> DEFINE l == left[q]
               ws == waiters'
    <3>3. /\ l = Leftover(q, Triggered(queues[q].pending, r[q], triggers + 1))
          /\ x = [queues[q] EXCEPT !.pending = l[MaxHandle]]
          /\ VisitedEntries(ws, q, l)
      BY <1>5, <2>1, <3>2 DEF VisitedEntries
    <3>4. /\ Live(q)
          /\ \E i \in DOMAIN queues[q].registrations : queues[q].registrations[i] = r[q]
      BY <2>1
    <3> HIDE DEF x, l, ws
    <3>5. /\ x \in QueueType /\ QueueOK(x) /\ Served(x, q, ws, later)
          /\ EventsOK(Places(q, x.pending, ws), received[q], triggers + 1)
      <4>1. triggers < MaxTriggers
        BY <1>4
      <4> QED BY ONLY IInv, q \in Queues, <1>2, <3>3, <3>4, <4>1, FireQueue
    <3> QED BY <1>4, <3>1, <3>5 DEF ws
  <2>2. CASE q \notin D
    <3>0. /\ QueueOK(queues[q]) /\ Served(queues[q], q, waiters, now)
          /\ EventsOK(Places(q, queues[q].pending, waiters), received[q], triggers)
          /\ queues[q] \in QueueType
      BY <1>1 DEF IInv
    <3>1. /\ \A h \in Handles :
               /\ waiters'[h].queue = q <=> waiters[h].queue = q
               /\ waiters[h].queue = q => waiters'[h] = waiters[h]
          /\ queues'[q] = queues[q]
      BY <1>4, <1>8, <1>12, <1>13, <2>2
    <3>2. \A h \in Handles : waiters[h].deadline > later => waiters[h].deadline > now
      BY <1>1, <1>2 DEF Entries, WaiterType, NoWaiter, NoDeadline
    <3>3. Served(queues[q], q, waiters', later)
      BY <3>0, <3>1, <3>2 DEF Served
    <3>4. Places(q, queues[q].pending, waiters') = Places(q, queues[q].pending, waiters)
      <4>1. \A g \in 0 .. MaxHandle : g # 0 =>
              (IF waiters'[g].queue = q THEN waiters'[g].events ELSE <<>>) =
              (IF waiters[g].queue = q THEN waiters[g].events ELSE <<>>)
        BY <3>1, PlaceFacts
      <4> QED BY <4>1 DEF Places
    <3>5. EventsOK(Places(q, queues[q].pending, waiters), received[q], triggers + 1)
      <4>1. Places(q, queues[q].pending, waiters) \in Spread
        BY <1>1, PlacesFacts
      <4> QED BY <1>1, <3>0, <4>1, LaterKeeps
    <3> QED BY <1>4, <3>0, <3>1, <3>3, <3>4, <3>5
  <2> QED BY <2>1, <2>2
<1>17. TypeOK'
  <2>1. queues' \in [Queues -> QueueType]
    <3>1. queues' = [q \in Queues |-> queues'[q]]
      BY <1>4
    <3> QED BY <1>16, <3>1
  <2>2. triggers' \in 0 .. MaxTriggers
    <3>1. triggers < MaxTriggers /\ triggers' = triggers + 1
      BY <1>4
    <3> QED BY ONLY <1>1, <3>1, EventQueueAssumption
  <2> QED BY <1>1, <1>2, <1>4, <1>11, <1>14, <2>1, <2>2 DEF TypeOK, Entries
<1> QED BY <1>15, <1>16, <1>17 DEF IInv
\* The triggers: a user event of one queue, or the graphics events of all.
LEMMA TriggerCalls ==
  ASSUME IInv, NEW h \in Handles, NEW later \in LaterTimes
  PROVE  /\ \A q \in Queues, ident \in Idents : TriggerUserEvent(h, q, ident, later) => IInv'
         /\ TriggerGraphicsEvents(h, later) => IInv'
<1>1. ASSUME NEW q \in Queues, NEW ident \in Idents, TriggerUserEvent(h, q, ident, later)
      PROVE  IInv'
  <2> DEFINE found == Positions(queues[q], ident, "user")
             first == CHOOSE i \in found : TRUE
             r == [p \in {q} |-> queues[p].registrations[first]]
  <2>1. Live(q) /\ found # {} /\ Fire(r, later) /\ UNCHANGED <<call, received>>
    BY <1>1 DEF TriggerUserEvent
  <2>2. first \in DOMAIN queues[q].registrations
    BY <2>1 DEF Positions
  <2>3. /\ DOMAIN r \subseteq Queues
        /\ \A p \in DOMAIN r :
             /\ Live(p)
             /\ \E i \in DOMAIN queues[p].registrations : queues[p].registrations[i] = r[p]
    <3> HIDE DEF first
    <3> QED BY <2>1, <2>2
  <2> HIDE DEF r
  <2> QED BY <2>1, <2>3, FireStep
<1>2. ASSUME TriggerGraphicsEvents(h, later) PROVE IInv'
  <2> DEFINE graphics(q) == {i \in DOMAIN queues[q].registrations :
                               queues[q].registrations[i].filter = "graphics"}
             targets == {q \in Queues : Live(q) /\ graphics(q) # {}}
             first(q) == CHOOSE i \in graphics(q) : \A j \in graphics(q) : i <= j
             r == [q \in targets |-> queues[q].registrations[first(q)]]
  <2>1. Fire(r, later) /\ UNCHANGED <<call, received>>
    BY <1>2 DEF TriggerGraphicsEvents
  <2>2. ASSUME NEW q \in targets PROVE first(q) \in DOMAIN queues[q].registrations
    <3>1. queues[q].registrations \in Seq(RegistrationType)
      BY TypeFacts DEF IInv, QueueType
    <3>2. graphics(q) \in SUBSET Nat /\ graphics(q) # {}
      BY <3>1
    <3> HIDE DEF targets
    <3>3. \E i \in graphics(q) : \A j \in graphics(q) : i <= j
      <4> HIDE DEF graphics
      <4> QED BY <3>2, LeastElement
    <3> QED BY <3>3
  <2>3. /\ DOMAIN r \subseteq Queues
        /\ \A p \in DOMAIN r :
             /\ Live(p)
             /\ \E i \in DOMAIN queues[p].registrations : queues[p].registrations[i] = r[p]
    <3> HIDE DEF first, graphics
    <3> QED BY <2>2
  <2> HIDE DEF r
  <2> QED BY <2>1, <2>3, FireStep
<1> QED BY <1>1, <1>2

-----------------------------------------------------------------------------
(* The invariant of the specification.                                      *)

LEMMA InitIInv == Init => IInv
<1> SUFFICES ASSUME Init PROVE IInv
  OBVIOUS
<1>1. /\ queues = [q \in Queues |-> NewQueue] /\ waiters = [h \in Handles |-> NoWaiter]
      /\ triggers = 0 /\ received = [q \in Queues |-> [n \in 1 .. MaxTriggers |-> 0]]
      /\ now = 0 /\ call = [h \in Handles |-> NoCall]
  BY DEF Init, Started
<1>2. /\ SchedulerOK(sched, WaitKeys)
      /\ \A h \in Handles : sched.wait_key[h] = NoKey /\ sched.state[h] = "ready"
  <2>1. sched = [state     |-> [h \in Handles |-> "ready"],
                 wait_key  |-> [h \in Handles |-> NoKey],
                 deadline  |-> [h \in Handles |-> NoDeadline],
                 timed_out |-> [h \in Handles |-> NoKey],
                 ready     |-> [i \in Handles |-> i],
                 current   |-> NoThread]
    BY DEF Init, Started, EmptyScheduler
  <2>2. \A h \in Handles : sched.state[h] = "ready"
    BY <2>1
  <2> HIDE DEF Init
  <2> QED BY <2>1, <2>2, StartedOK
<1>3. TypeOK
  <2>1. queues \in [Queues -> QueueType]
    BY <1>1, NewQueueFacts
  <2>2. /\ now \in 0 .. MaxTime /\ triggers \in 0 .. MaxTriggers
        /\ call \in [Handles -> Calls] /\ waiters \in [Handles -> WaiterType \cup {NoWaiter}]
    BY <1>1, MaxTimeAssumption, EventQueueAssumption DEF Calls
  <2>3. received \in [Queues -> [1 .. MaxTriggers -> Nat]]
    BY <1>1
  <2> QED BY <1>2, <2>1, <2>2, <2>3 DEF TypeOK
<1>4. \A h \in Handles : waiters[h] = NoWaiter
  BY <1>1
<1>5. ASSUME NEW h \in Handles PROVE WaiterOK(h, waiters[h], sched, call, now)
  <2>1. call[h] = NoCall
    BY <1>1
  <2> QED BY <1>2, <1>4, <2>1, EntryFacts DEF WaiterOK
<1>6. ASSUME NEW q \in Queues
      PROVE  /\ QueueOK(queues[q]) /\ Served(queues[q], q, waiters, now)
             /\ EventsOK(Places(q, queues[q].pending, waiters), received[q], triggers)
  <2>1. queues[q].registrations = <<>> /\ queues[q].pending = <<>>
    BY <1>1, NewQueueFacts
  <2> DEFINE d == Places(q, <<>>, waiters)
  <2>2. DOMAIN d = 0 .. MaxHandle /\ \A l \in 0 .. MaxHandle : d[l] = <<>>
    BY <1>4, EntryFacts, PlaceFacts DEF Places
  <2>3. EventsOK(d, received[q], triggers)
    <3> HIDE DEF d
    <3>1. \A l \in DOMAIN d : DOMAIN d[l] = {}
      BY <2>2
    <3>2. \A n \in DOMAIN received[q] : received[q][n] = 0
      BY <1>1
    <3> QED BY <3>1, <3>2 DEF EventsOK
  <2> QED BY <2>1, <2>3 DEF QueueOK, Served
<1> QED BY <1>3, <1>5, <1>6 DEF IInv

LEMMA NextIInv == IInv /\ [Next]_vars => IInv'
<1> SUFFICES ASSUME IInv, [Next]_vars PROVE IInv'
  OBVIOUS
<1>1. CASE (Dispatch \/ Tick \/ \E h \in Handles : Relinquish(h)) /\ Objects
  BY <1>1, HostSteps
<1>2. CASE \E h \in Handles, later \in LaterTimes : TriggerGraphicsEvents(h, later)
  BY <1>2, TriggerCalls
<1>3. ASSUME NEW h \in Handles, NEW q \in Queues, Operation(h, q) PROVE IInv'
  <2>1. CASE RepeatWait(h, q)
    BY <2>1, FindsSteps, PollsAgainStep DEF RepeatWait
  <2>2. CASE \E n \in Counts : Poll(h, q, n)
    BY <2>2, PollCall
  <2>3. CASE \E n \in Counts, d \in Deadlines : Wait(h, q, n, d)
    BY <2>3, WaitCallStep
  <2>4. CASE \E ident \in Idents, later \in LaterTimes : TriggerUserEvent(h, q, ident, later)
    BY <2>4, TriggerCalls
  <2>5. CASE Delete(h, q)
    BY <2>5, DeleteCall
  <2>6. CASE \/ Create(h, q)
             \/ \E ident \in Idents, filter \in Filters, edge \in BOOLEAN :
                  Register(h, q, ident, filter, edge)
             \/ \E ident \in Idents, filter \in Filters :
                  DeleteEvent(h, q, ident, filter)
    BY <2>6, QueueCalls
  <2> QED BY <1>3, <2>1, <2>2, <2>3, <2>4, <2>5, <2>6 DEF Operation
<1>4. CASE UNCHANGED vars
  BY <1>4, HostSteps
<1> QED BY <1>1, <1>2, <1>3, <1>4 DEF Next

\* The inductive invariant holds in every reachable state of the event queues.
THEOREM Invariance == Spec => []IInv
<1>1. Init => IInv
  BY InitIInv
<1>2. IInv /\ [Next]_vars => IInv'
  BY NextIInv
<1> QED BY <1>1, <1>2, PTL DEF Spec

\* The scheduler, the calls, the queues and the waiter entries keep their types,
\* the scheduler its own invariant.
THEOREM TypeCorrect == Spec => []TypeOK
<1>1. IInv => TypeOK
  BY DEF IInv
<1> QED BY <1>1, Invariance, PTL

\* EventQueueService::Wait, the reservations, Delete and the timeouts keep a waiter
\* entry and its thread in agreement: no thread sleeps without an entry that
\* waits, and an entry with an answer has an awake thread that will collect it.
THEOREM EntriesAgree == Spec => []WaiterAgreesWithThread
<1>1. IInv => WaiterAgreesWithThread
  <2> SUFFICES ASSUME IInv, NEW h \in Handles
               PROVE  LET w == waiters[h]
                      IN  /\ sched.state[h] = "blocked" <=>
                               (w.completion = "waiting"
                                  /\ sched.wait_key[h] = WaitKey(w.queue))
                          /\ w.completion # "none" <=> call[h] # NoCall
                          /\ w.completion # "none" => call[h] = WaitCall(w.queue)
                          /\ (w.completion = "waiting" /\ sched.state[h] # "blocked") =>
                               /\ sched.timed_out[h] = WaitKey(w.queue)
                               /\ w.deadline # NoDeadline /\ w.deadline <= now
    BY DEF WaiterAgreesWithThread
  <2>1. WaiterOK(h, waiters[h], sched, call, now)
    BY DEF IInv
  <2>2. sched.state[h] = "blocked" <=> sched.wait_key[h] # NoKey
    BY TypeFacts DEF IInv, SchedulerOK, WaitsOK
  <2> QED BY <2>1, <2>2, KeyFacts DEF WaiterOK
<1> QED BY <1>1, Invariance, PTL

\* No wake-up is lost: after every trigger, registration, poll and time-out,
\* nobody with time left sleeps on a queue with an event pending.
THEOREM NobodySleepsBesideEvents == Spec => []NoSleeperBesideEvents
<1>1. IInv => NoSleeperBesideEvents
  BY DEF IInv, Served, NoSleeperBesideEvents, CanReserve
<1> QED BY <1>1, Invariance, PTL

\* An edge event that was triggered once is delivered at most once: of the pending
\* list, the reservations and the callers, one at most has it.
THEOREM EdgeEventsOnce == Spec => []EdgeEventOnce
<1>1. IInv => EdgeEventOnce
  <2> SUFFICES ASSUME IInv, NEW q \in Queues, NEW n \in 1 .. MaxTriggers
               PROVE  LET edge(e)    == e.number = n /\ ~e.persistent
                          pendingAt  == {i \in DOMAIN queues[q].pending :
                                           edge(queues[q].pending[i])}
                          reservedBy == {h \in Handles :
                                           /\ waiters[h].queue = q
                                           /\ \E i \in DOMAIN waiters[h].events :
                                                edge(waiters[h].events[i])}
                      IN  Cardinality(pendingAt) + Cardinality(reservedBy)
                            + received[q][n] <= 1
    BY DEF EdgeEventOnce
  <2> DEFINE edge(e) == e.number = n /\ ~e.persistent
             pendingAt == {i \in DOMAIN queues[q].pending : edge(queues[q].pending[i])}
             reservedBy == {h \in Handles :
                              /\ waiters[h].queue = q
                              /\ \E i \in DOMAIN waiters[h].events :
                                   edge(waiters[h].events[i])}
             c == Places(q, queues[q].pending, waiters)
  <2>1. /\ EventsOK(c, received[q], triggers) /\ received[q] \in [1 .. MaxTriggers -> Nat]
        /\ queues[q].pending \in Seq(EventType) /\ waiters \in [Handles -> Entries]
    BY TypeFacts DEF IInv
  <2>2. /\ c \in Spread /\ c[0] = queues[q].pending
        /\ \A h \in Handles :
             c[h] = IF waiters[h].queue = q THEN waiters[h].events ELSE <<>>
    BY <2>1, PlacesFacts
  <2> HIDE DEF c
  <2>3. \A i \in pendingAt : 0 \in DOMAIN c /\ i \in DOMAIN c[0] /\ edge(c[0][i])
    BY <2>2, PlaceFacts DEF Spread
  <2>4. \A h \in reservedBy : h \in DOMAIN c /\ h # 0
                              /\ \E i \in DOMAIN c[h] : edge(c[h][i])
    BY <2>2, PlaceFacts DEF Spread
  <2>5. \A k, l \in DOMAIN c : \A i \in DOMAIN c[k], j \in DOMAIN c[l] :
           edge(c[k][i]) /\ edge(c[l][j]) => k = l /\ i = j
    BY <2>1 DEF EventsOK
  <2>6. \A k \in DOMAIN c : \A i \in DOMAIN c[k] : edge(c[k][i]) => received[q][n] = 0
    BY <2>1 DEF EventsOK
  <2>7. received[q][n] \in {0, 1}
    BY <2>1 DEF EventsOK
  <2> HIDE DEF edge, pendingAt, reservedBy
  <2>8. \A i, j \in pendingAt : i = j
    BY <2>3, <2>5
  <2>9. \A g, h \in reservedBy : g = h
    BY <2>4, <2>5
  <2>10. pendingAt # {} => reservedBy = {} /\ received[q][n] = 0
    BY <2>3, <2>4, <2>5, <2>6
  <2>11. reservedBy # {} => received[q][n] = 0
    BY <2>4, <2>6
  <2>12. /\ Cardinality(pendingAt) \in {0, 1} /\ Cardinality(reservedBy) \in {0, 1}
         /\ pendingAt = {} => Cardinality(pendingAt) = 0
         /\ reservedBy = {} => Cardinality(reservedBy) = 0
    BY <2>8, <2>9, AtMostOne, FS_EmptySet
  <2>13. Cardinality(pendingAt) + Cardinality(reservedBy) + received[q][n] <= 1
    BY <2>7, <2>10, <2>11, <2>12
  <2> QED BY <2>13 DEF pendingAt, reservedBy, edge
<1> QED BY <1>1, Invariance, PTL

-----------------------------------------------------------------------------
(* What a wait returns.                                                     *)

\* A call returns the current events s of queue q, each pending or reserved in
\* the entry of thread h.  Then no other event with one of their numbers is
\* reserved there.
LEMMA ReturnedIsCurrent ==
  ASSUME IInv, NEW h \in Handles, NEW q \in Queues, waiters[h].queue = q,
         NEW i \in DOMAIN waiters[h].events, NEW s,
         \A k \in DOMAIN s :
           /\ IsCurrent(queues[q], s[k])
           /\ \/ \E j \in DOMAIN queues[q].pending : s[k] = queues[q].pending[j]
              \/ \E j \in DOMAIN waiters[h].events : s[k] = waiters[h].events[j],
         NEW rec, rec = Receive(q, s),
         rec[q][waiters[h].events[i].number] > received[q][waiters[h].events[i].number]
  PROVE  Live(q) /\ IsCurrent(queues[q], waiters[h].events[i])
<1> DEFINE e == waiters[h].events[i]
           c == Places(q, queues[q].pending, waiters)
           I == {k \in DOMAIN s : s[k].number = e.number /\ ~s[k].persistent}
<1>1. /\ received \in [Queues -> [1 .. MaxTriggers -> Nat]] /\ QueueOK(queues[q])
      /\ EventsOK(c, received[q], triggers) /\ queues[q].pending \in Seq(EventType)
      /\ waiters \in [Handles -> Entries]
  BY TypeFacts DEF IInv
<1>2. /\ c \in Spread /\ c[0] = queues[q].pending /\ c[h] = waiters[h].events
  BY <1>1, PlacesFacts
<1>3. e.number \in 1 .. MaxTriggers
  <2>1. waiters[h].events \in Seq(EventType)
    BY <1>1, EntryFacts
  <2>2. e \in EventType
    BY <2>1
  <2> QED BY <2>2 DEF EventType
<1>4. rec[q][e.number] = received[q][e.number] + Cardinality(I)
  <2>1. rec = [received EXCEPT ![q] = Received(received[q], s)]
    BY ReceiveFacts
  <2>2. rec[q] = Received(received[q], s)
    BY <1>1, <2>1
  <2> QED BY <1>3, <2>2 DEF Received
<1>5. I # {}
  <2>1. I = {} => Cardinality(I) = 0
    BY FS_EmptySet
  <2>2. received[q][e.number] \in Nat
    BY <1>1, <1>3
  <2> HIDE DEF I
  <2> QED BY <1>4, <2>1, <2>2
<1>6. PICK k \in DOMAIN s : s[k].number = e.number
  BY <1>5
<1>7. s[k] = e
  <2>1. 0 \in DOMAIN c /\ h \in DOMAIN c
    BY <1>2, PlaceFacts DEF Spread
  <2>2. \E l \in DOMAIN c : \E j \in DOMAIN c[l] : s[k] = c[l][j]
    <3> HIDE DEF c
    <3> QED BY <1>2, <2>1
  <2>3. i \in DOMAIN c[h] /\ c[h][i] = e
    BY <1>2
  <2> HIDE DEF c, e
  <2> QED BY <1>1, <1>6, <2>1, <2>2, <2>3 DEF EventsOK
<1>8. IsCurrent(queues[q], e)
  BY <1>6, <1>7
<1>9. Live(q)
  <2>1. queues[q].registrations # <<>>
    BY <1>8 DEF IsCurrent
  <2> QED BY <1>1, <2>1 DEF QueueOK, Live
<1> QED BY <1>8, <1>9

\* A wait of the thread that runs, where it ends.
LEMMA StepReturnsCurrent ==
  ASSUME IInv, [Next]_vars, NEW h \in Handles, NEW i \in DOMAIN waiters[h].events,
         received'[waiters[h].queue][waiters[h].events[i].number] >
           received[waiters[h].queue][waiters[h].events[i].number],
         sched.current = h
  PROVE  /\ Live(waiters[h].queue)
         /\ IsCurrent(queues[waiters[h].queue], waiters[h].events[i])
<1> DEFINE q == waiters[h].queue
           e == waiters[h].events[i]
           rec == received'
<1>1. /\ waiters[h] \in WaiterType /\ q \in Queues /\ call[h] = WaitCall(q)
      /\ waiters[h].maximum_count \in Nat /\ waiters[h].events \in Seq(EventType)
      /\ call[h] # NoCall
  <2>1. /\ waiters[h] \in Entries /\ waiters[h].events \in Seq(EventType)
        /\ WaiterOK(h, waiters[h], sched, call, now)
    BY WaiterThread, EntryFacts
  <2>2. waiters[h].events # <<>>
    OBVIOUS
  <2>3. waiters[h].completion = "reserved"
    BY <2>1, <2>2 DEF WaiterOK
  <2> QED BY <2>1, <2>3, EntryFacts, KeyFacts DEF WaiterOK
<1>2. received' # received
  <2>1. received[q][e.number] \in Nat
    <3>1. e \in EventType
      BY <1>1
    <3>2. e.number \in 1 .. MaxTriggers
      BY <3>1 DEF EventType
    <3> QED BY <1>1, <3>2, TypeFacts DEF IInv
  <2> QED BY <2>1
<1>3. ~MayCall(h, NoCall)
  BY <1>1 DEF MayCall
<1>4. \A g \in Handles : \A c : MayCall(g, c) => g = h
  BY DEF MayCall
<1>5. \A g \in Handles, p \in Queues : Repeats(g, p) => g = h /\ p = q
  BY <1>1, <1>4, KeyFacts DEF Repeats
<1>6. \/ FindsReserved(h, q)
      \/ PollsAgain(h, q)
  <2>1. ASSUME NEW g \in Handles, NEW p \in Queues, Operation(g, p)
        PROVE  FindsReserved(h, q) \/ PollsAgain(h, q)
    <3>1. ~MayCall(g, NoCall)
      BY <1>3, <1>4
    <3>2. FindsReserved(g, p) \/ PollsAgain(g, p)
      BY <1>2, <2>1, <3>1
         DEF Operation, RepeatWait, Create, Delete, Register, DeleteEvent,
             TriggerUserEvent, Poll, Wait, FindsDeleted, FindsTimeout
    <3>3. Repeats(g, p)
      BY <3>2 DEF FindsReserved, PollsAgain
    <3> QED BY <1>5, <3>2, <3>3
  <2>2. \A g \in Handles, later \in LaterTimes : ~TriggerGraphicsEvents(g, later)
    BY <1>3, <1>4 DEF TriggerGraphicsEvents
  <2>3. ~Objects /\ ~UNCHANGED vars
    BY <1>2 DEF Objects, vars
  <2> QED BY <2>1, <2>2, <2>3 DEF Next
<1>7. CASE FindsReserved(h, q)
  <2> DEFINE ev == waiters[h].events
             I == {k \in DOMAIN ev : IsCurrent(queues[q], ev[k])}
             s == EntriesAt(ev, I)
  <2>1. rec = Receive(q, s)
    BY <1>7 DEF FindsReserved, CurrentEvents
  <2>2. PICK idx : Draws(ev, s, idx) /\ \A k \in DOMAIN s : idx[k] \in I
    <3>1. I \in SUBSET DOMAIN ev
      OBVIOUS
    <3> QED BY <1>1, <3>1, EntriesDraw
  <2> HIDE DEF s
  <2>3. \A k \in DOMAIN s : /\ IsCurrent(queues[q], s[k])
                            /\ \E j \in DOMAIN ev : s[k] = ev[j]
    BY <2>2 DEF Draws
  <2> HIDE DEF rec
  <2> QED BY <1>1, <2>1, <2>3, ReturnedIsCurrent DEF rec
<1>8. CASE PollsAgain(h, q)
  <2> DEFINE n == waiters[h].maximum_count
             p == queues[q].pending
             ev == Taken(p, n)
             I == {k \in DOMAIN ev : IsCurrent(queues[q], ev[k])}
             s == EntriesAt(ev, I)
  <2>1. rec = Receive(q, s)
    BY <1>8 DEF PollsAgain, PollCurrent, CurrentEvents
  <2>2. /\ ev \in Seq(EventType)
        /\ \A k \in DOMAIN ev : k \in DOMAIN p /\ ev[k] = p[k]
    <3>1. p \in Seq(EventType) /\ n \in Nat
      BY <1>1, TypeFacts DEF IInv
    <3> HIDE DEF p, n
    <3> QED BY <3>1, TakenFacts
  <2> HIDE DEF ev
  <2>3. PICK idx : Draws(ev, s, idx) /\ \A k \in DOMAIN s : idx[k] \in I
    <3>1. I \in SUBSET DOMAIN ev
      OBVIOUS
    <3> QED BY <2>2, <3>1, EntriesDraw
  <2> HIDE DEF s
  <2>4. \A k \in DOMAIN s : /\ IsCurrent(queues[q], s[k])
                            /\ \E j \in DOMAIN p : s[k] = p[j]
    BY <2>2, <2>3 DEF Draws
  <2> HIDE DEF rec
  <2> QED BY <1>1, <2>1, <2>4, ReturnedIsCurrent DEF rec
<1> QED BY <1>6, <1>7, <1>8

\* EventQueueService::Wait returns no event whose registration was removed or
\* changed while the event was reserved, and none of a deleted queue.
THEOREM WaitReturnsCurrent == Spec => ReceivedIsCurrent
<1>1. IInv /\ [Next]_vars =>
        [\A h \in Handles : \A i \in DOMAIN waiters[h].events :
           LET e == waiters[h].events[i]
               q == waiters[h].queue
           IN  (received'[q][e.number] > received[q][e.number]
                  /\ waiters'[h] = NoWaiter /\ sched.current = h) =>
                 Live(q) /\ IsCurrent(queues[q], e)]_vars
  BY StepReturnsCurrent
<1> QED BY <1>1, Invariance, PTL DEF Spec, ReceivedIsCurrent

=============================================================================

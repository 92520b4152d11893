-------------------------- MODULE GuestLeasesProofs --------------------------
(***************************************************************************)
(* The registrations, the announced writes and the device buffers of the   *)
(* leases are accounted for, for every shape of a dispatch and every       *)
(* number of pages, slots, ids and device buffers.                         *)
(***************************************************************************)
EXTENDS GuestLeases, WellFoundedInduction, TLAPS

\* The registered ids, and those announced as about to be written by the GPU.
Live(recs) == {r \in Resources : recs[r].live}
Announced(recs) == {r \in Resources : recs[r].gpu_write_pending}

\* The views of every holder, of a lease l in hand and submissions ret.
Views(l, ret) == [o \in Holders |-> IF o = 0 THEN l.views ELSE ret[o].views]

\* No two views are registered under the same id.
Apart(V) ==
  \A o, p \in Holders : \A i \in DOMAIN V[o], j \in DOMAIN V[p] :
    V[o][i].resource = V[p][j].resource => o = p /\ i = j

\* A view whose range is announced: it is dirty, or a rollback failed.
Announces(v) == v.dirty \/ v.stuck

\* Every view is registered, and announced exactly while it should be; what is
\* registered has a view or is kept for lost work, which stays announced.
Owned(live, announced, V, lost) ==
  /\ Apart(V)
  /\ \A o \in Holders : \A i \in DOMAIN V[o] :
       /\ V[o][i].resource \in live \ lost
       /\ V[o][i].resource \in announced <=> Announces(V[o][i])
  /\ \A r \in live : \/ r \in lost
                     \/ \E o \in Holders : \E i \in DOMAIN V[o] : V[o][i].resource = r
  /\ lost \subseteq announced /\ announced \subseteq live

\* A device buffer is idle or has one holder, and whoever holds a view of a
\* buffer holds a device buffer.
BackingsApart(ret, l, idle) ==
  /\ l.backing \notin idle
  /\ \A s \in Slots :
       /\ ret[s].backing \notin idle
       /\ (\E i \in DOMAIN ret[s].views : ~ret[s].views[i].image) => ret[s].backing # 0
       /\ ret[s].backing # 0 => /\ l.backing # ret[s].backing
                                /\ \A t \in Slots : t # s => ret[t].backing # ret[s].backing

\* The device buffers the GPU works with belong to submissions it is not done with.
InUse(busy, ret) == \A b \in busy : \E s \in Slots : ret[s].backing = b /\ ~ret[s].done

\* A lease the GPU has not seen.
Unseen(l) ==
  /\ ~l.done
  /\ \A i \in DOMAIN l.views : ~Announces(l.views[i]) /\ l.views[i].lifecycle = "abandoned"

\* The views before the one whose turn it is to be marked are marked.
MarkedBefore(W, view) == \A j \in DOMAIN W : j < view /\ W[j].writes => W[j].dirty

\* Where the host thread is with the lease in hand or the submission it made.
HostConsistent ==
  /\ Unseen(lease)
  /\ host.at \in {"idle", "mark", "wait"} => lease = NoLease
  /\ host.at = "buffers" => lease.backing = 0
  /\ host.at \in {"image", "images", "ready"} => (HasBuffers => lease.backing # 0)
  /\ host.at \in {"mark", "wait"} => host.slot \in Slots
  /\ host.at = "mark" => MarkedBefore(retained[host.slot].views, host.view)

\* The inductive invariant.  An id that was not given out is not registered:
\* that is what keeps the views of a new lease apart from all others.
LeaseInv ==
  /\ TypeOK
  /\ Owned(Live(records) \ orphans, Announced(records), Views(lease, retained), lost_dirty)
  /\ orphans \subseteq Live(records)
  /\ \A r \in Live(records) : r < next_resource_id
  /\ BackingsApart(retained, lease, idle_backings)
  /\ InUse(executing, retained)
  /\ HostConsistent

-----------------------------------------------------------------------------
(* Loops.                                                                  *)

\* A set of natural numbers that is not empty has a least element.
LEMMA LeastElement ==
  ASSUME NEW T \in SUBSET Nat, T # {}
  PROVE  \E g \in T : \A m \in T : g <= m
<1>1. IsWellFoundedOn(OpToRel(<, Nat), Nat)
  BY NatLessThanWellFounded
<1>2. PICK g \in T : \A e \in T : ~ (<<e, g>> \in OpToRel(<, Nat))
  BY <1>1, WFMin, Zenon
<1>3. \A e \in T : ~ (e < g)
  BY <1>2 DEF OpToRel
<1> QED BY <1>3

\* What holds at the start and is kept by every step holds all along.
LEMMA ChainStays ==
  ASSUME NEW S, NEW n \in Nat, NEW f, f[0] \in S,
         \A k \in 1..n : f[k - 1] \in S => f[k] \in S
  PROVE  \A k \in 0..n : f[k] \in S
<1> DEFINE bad == {k \in 0..n : f[k] \notin S}
<1> SUFFICES ASSUME bad # {} PROVE FALSE
  OBVIOUS
<1>1. PICK k \in bad : \A m \in bad : k <= m
  <2>1. bad \in SUBSET Nat
    OBVIOUS
  <2> HIDE DEF bad
  <2> QED BY <2>1, LeastElement
<1>2. k # 0 /\ k \in 1..n
  OBVIOUS
<1>3. k - 1 \in 0..n /\ k - 1 \notin bad
  BY <1>1, <1>2
<1> QED BY <1>2, <1>3

Chain(f, s, step, n) == f[0] = s /\ \A k \in 1..n : f[k] = step[<<k, f[k - 1]>>]

\* A walk whose steps stay in a set exists.
LEMMA ChainExists ==
  ASSUME NEW S, NEW n \in Nat, NEW s \in S, NEW step \in [(1..n) \X S -> S]
  PROVE  \E f \in [0..n -> S] : Chain(f, s, step, n)
<1> DEFINE bad == {k \in 0..n : ~ \E f \in [0..k -> S] : Chain(f, s, step, k)}
<1> SUFFICES ASSUME bad # {} PROVE FALSE
  OBVIOUS
<1>1. PICK k \in bad : \A m \in bad : k <= m
  <2>1. bad \in SUBSET Nat
    OBVIOUS
  <2> HIDE DEF bad
  <2> QED BY <2>1, LeastElement
<1>2. k # 0
  <2>1. [i \in 0..0 |-> s] \in [0..0 -> S] /\ Chain([i \in 0..0 |-> s], s, step, 0)
    BY DEF Chain
  <2> QED BY <2>1
<1>3. k - 1 \in 0..n /\ k - 1 \notin bad /\ k \in 1..n
  BY <1>1, <1>2
<1>4. PICK f \in [0..(k - 1) -> S] : Chain(f, s, step, k - 1)
  BY <1>3
<1> DEFINE last == step[<<k, f[k - 1]>>]
           g == [i \in 0..k |-> IF i = k THEN last ELSE f[i]]
<1>5. last \in S
  <2>1. f[k - 1] \in S
    BY <1>3, <1>4
  <2> QED BY <1>3, <2>1
<1>6. g \in [0..k -> S]
  <2> HIDE DEF last
  <2> QED BY <1>3, <1>4, <1>5
<1>7. Chain(g, s, step, k)
  <2>1. g[0] = s
    BY <1>2, <1>3, <1>4 DEF Chain
  <2>2. ASSUME NEW j \in 1..k PROVE g[j] = step[<<j, g[j - 1]>>]
    <3>1. g[j - 1] = f[j - 1]
      BY <1>3
    <3>2. CASE j = k
      <4>1. g[k] = last
        BY <1>3
      <4> HIDE DEF g
      <4> QED BY <3>1, <3>2, <4>1
    <3>3. CASE j # k
      <4>1. g[j] = f[j] /\ f[j] = step[<<j, f[j - 1]>>]
        BY <1>3, <1>4, <3>3 DEF Chain
      <4> QED BY <3>1, <4>1
    <3> QED BY <3>2, <3>3
  <2> HIDE DEF g
  <2> QED BY <2>1, <2>2 DEF Chain
<1> QED BY <1>1, <1>6, <1>7

-----------------------------------------------------------------------------
(* Memory and records.                                                     *)

MemType ==
  [records : [Resources -> RecordType], bytes : [Locations -> Values],
   generation : Generations, exhausted : BOOLEAN]

\* Memory as a host call leaves it, with the flags of the records it started from.
Flagged(live, announced) ==
  {m \in MemType : Live(m.records) = live /\ Announced(m.records) = announced}

LEMMA ConstantsTyped ==
  /\ MaxMappingGeneration \in Nat /\ MaxWriteGeneration \in Nat
  /\ MaxResource \in Nat /\ Size \in Nat /\ Zero \in Values
  /\ MaxRetained \in Nat /\ MaxBacking \in Nat
  /\ Locations = Pages
BY SpaceAssumption, RecordAssumption, LeaseAssumption DEF Locations, Pages

LEMMA RangesArePages == \A S \in Ranges : S \in SUBSET Pages /\ S # {}
BY ConstantsTyped DEF Ranges, Pages

LEMMA NextGenerationTyped ==
  ASSUME NEW g \in Generations
  PROVE  NextGeneration(g) \in Generations
BY ConstantsTyped DEF Generations, NextGeneration

\* A write callback leaves the flags of a record alone.
LEMMA ObservedFlags ==
  ASSUME NEW record \in RecordType, NEW R, NEW g \in Generations
  PROVE  /\ Observed(record, Event(R, g)) \in RecordType
         /\ Observed(record, Event(R, g)).live = record.live
         /\ Observed(record, Event(R, g)).gpu_write_pending = record.gpu_write_pending
<1> DEFINE event == Event(R, g)
<1>1. event.generation \in Generations /\ event.exhausted \in BOOLEAN
  BY NextGenerationTyped DEF Event
<1> HIDE DEF event
<1>2. Observed(record, event) \in RecordType
  BY <1>1 DEF Observed, RecordType
<1>3. /\ Observed(record, event).live = record.live
      /\ Observed(record, event).gpu_write_pending = record.gpu_write_pending
  BY DEF Observed, RecordType
<1> QED BY <1>2, <1>3 DEF event

LEMMA HostWriteFlags ==
  ASSUME NEW live, NEW announced, NEW m \in Flagged(live, announced),
         NEW R \in SUBSET Pages, NEW new \in [Pages -> Values]
  PROVE  HostWrite(m, R, new) \in Flagged(live, announced)
<1> DEFINE w == HostWrite(m, R, new)
           recs == [r \in Resources |-> Observed(m.records[r], Event(R, m.generation))]
           mem == [l \in Locations |-> IF l \in R THEN new[l] ELSE m.bytes[l]]
<1>1. m \in MemType /\ Live(m.records) = live /\ Announced(m.records) = announced
  BY DEF Flagged
<1>2. /\ m.generation \in Generations /\ m.bytes \in [Locations -> Values]
      /\ m.records \in [Resources -> RecordType]
  BY <1>1 DEF MemType
<1>3. /\ recs \in [Resources -> RecordType]
      /\ \A r \in Resources : /\ recs[r].live = m.records[r].live
                              /\ recs[r].gpu_write_pending = m.records[r].gpu_write_pending
  BY <1>2, ObservedFlags
<1>4. mem \in [Locations -> Values]
  BY <1>2, ConstantsTyped
<1>5. w = [m EXCEPT !.bytes = mem, !.generation = NextGeneration(m.generation),
                    !.exhausted = (m.generation = MaxWriteGeneration),
                    !.records = recs]
  BY <1>1 DEF HostWrite, Event, MemType
<1>6. NextGeneration(m.generation) \in Generations
        /\ (m.generation = MaxWriteGeneration) \in BOOLEAN
  BY <1>2, NextGenerationTyped
<1> HIDE DEF w, mem, recs
<1>7. w \in MemType /\ w.records = recs
  BY <1>1, <1>3, <1>4, <1>5, <1>6 DEF MemType
<1>8. Live(recs) = live /\ Announced(recs) = announced
  BY <1>1, <1>3 DEF Live, Announced
<1> QED BY <1>7, <1>8 DEF Flagged, w

LEMMA MergeFlags ==
  ASSUME NEW live, NEW announced, NEW m \in Flagged(live, announced),
         NEW v \in ViewType
  PROVE  Merge(m, v) \in [m : Flagged(live, announced), ok : BOOLEAN]
<1> DEFINE S == [m : Flagged(live, announced), ok : BOOLEAN]
           pages == Mergeable(m, v)
           run(p) == {q \in pages : p <= q /\ p .. q \subseteq pages}
           Written(t, p) ==
             IF CanAccess(run(p), {"write"})
             THEN [t EXCEPT !.m = HostWrite(@, run(p), v.gpu)]
             ELSE [t EXCEPT !.ok = FALSE]
           Do(t, p) ==
             IF p \in pages /\ p - 1 \notin pages /\ t.ok THEN Written(t, p) ELSE t
           s == [m |-> m, ok |-> TRUE]
           Body(f) == [p \in 0 .. Size |-> IF p = 0 THEN s ELSE
                         IF p \in pages /\ p - 1 \notin pages /\ f[p - 1].ok
                         THEN Written(f[p - 1], p) ELSE f[p - 1]]
           step == [x \in (1 .. Size) \X S |-> Do(x[2], x[1])]
           after == CHOOSE f : f = Body(f)
<1>1. s \in S /\ Size \in Nat
  BY ConstantsTyped
<1>2. ASSUME NEW t \in S, NEW p \in 1 .. Size PROVE Do(t, p) \in S
  <2>1. run(p) \in SUBSET Pages /\ v.gpu \in [Pages -> Values]
    BY RangesArePages DEF Mergeable, ViewType
  <2>2. t.m \in Flagged(live, announced)
    OBVIOUS
  <2>3. HostWrite(t.m, run(p), v.gpu) \in Flagged(live, announced)
    <3> HIDE DEF run
    <3> QED BY <2>1, <2>2, HostWriteFlags
  <2> HIDE DEF run, pages
  <2> QED BY <2>3
<1>3. step \in [(1 .. Size) \X S -> S]
  <2>1. \A x \in (1 .. Size) \X S : x[1] \in 1 .. Size /\ x[2] \in S
    OBVIOUS
  <2> HIDE DEF Do, S
  <2> QED BY <1>2, <2>1
<1>4. PICK f \in [0 .. Size -> S] : Chain(f, s, step, Size)
  <2> HIDE DEF step, S, s
  <2> QED BY <1>1, <1>3, ChainExists
<1>5. f = Body(f)
  <2>1. ASSUME NEW p \in 1 .. Size PROVE f[p] = Do(f[p - 1], p)
    <3>1. <<p, f[p - 1]>> \in (1 .. Size) \X S
      BY <1>1, <1>4
    <3>2. f[p] = step[<<p, f[p - 1]>>]
      BY <1>4 DEF Chain
    <3> HIDE DEF Do, S
    <3> QED BY <3>1, <3>2
  <2>2. f[0] = s
    BY <1>4 DEF Chain
  <2> HIDE DEF step, S, s, run, pages, Written
  <2> QED BY <1>1, <1>4, <2>1, <2>2
<1>6. after = Body(after)
  <2> HIDE DEF Body
  <2> QED BY <1>5
<1>7. after[Size] \in S
  <2>1. after[0] = s /\ \A p \in 1 .. Size : after[p] = Do(after[p - 1], p)
    <3> HIDE DEF after, Written, pages, s
    <3> QED BY <1>1, <1>6
  <2> HIDE DEF after, Do, S, s
  <2>2. \A p \in 0 .. Size : after[p] \in S
    BY <1>1, <1>2, <2>1, ChainStays
  <2> QED BY <1>1, <2>2
<1>8. Merge(m, v) \in {s, [m |-> m, ok |-> FALSE], after[Size]}
  BY DEF Merge
<1>9. [m |-> m, ok |-> FALSE] \in S
  OBVIOUS
<1> HIDE DEF S, s, after
<1>10. Merge(m, v) \in S
  BY <1>1, <1>7, <1>8, <1>9
<1> QED BY <1>10 DEF S

-----------------------------------------------------------------------------
(* The stages of a completion and of a submission.                         *)

StepType == [m : MemType, views : Seq(ViewType), ok : BOOLEAN]

\* The ids of a list of views.
Ids(W) == {W[i].resource : i \in DOMAIN W}

\* The views of one list have different ids.
Different(W) ==
  \A i, j \in DOMAIN W : W[i].resource = W[j].resource => i = j

\* The same views, as far as ids and device buffers go.
Alike(W, U) ==
  /\ DOMAIN W = DOMAIN U
  /\ \A i \in DOMAIN W : W[i].resource = U[i].resource /\ W[i].image = U[i].image

\* A view is announced exactly while it should be.
Exact(announced, W) ==
  \A i \in DOMAIN W : W[i].resource \in announced <=> Announces(W[i])

\* What a call that handles the views W can leave: the registrations, the ids and
\* what is announced for others are as they were, and its own views are exact.
Steps(live, announced, W) ==
  {t \in StepType :
     /\ Alike(W, t.views)
     /\ Live(t.m.records) = live
     /\ Announced(t.m.records) \ Ids(W) = announced \ Ids(W)
     /\ Exact(Announced(t.m.records), t.views)}

LEMMA StepsTyped ==
  ASSUME NEW live, NEW announced, NEW W, NEW t \in Steps(live, announced, W),
         W \in Seq(ViewType)
  PROVE  /\ t \in StepType /\ t.m \in MemType /\ t.ok \in BOOLEAN
         /\ t.views \in Seq(ViewType) /\ Len(t.views) = Len(W)
         /\ DOMAIN t.views = 1 .. Len(W) /\ Ids(t.views) = Ids(W)
         /\ \A i \in 1 .. Len(W) : t.views[i] \in ViewType
<1>1. /\ t \in StepType /\ t.m \in MemType /\ t.ok \in BOOLEAN
      /\ t.views \in Seq(ViewType)
  BY DEF Steps, StepType
<1>2. Alike(W, t.views)
  BY DEF Steps
<1>3. DOMAIN t.views = 1 .. Len(W) /\ Len(t.views) = Len(W)
  BY <1>1, <1>2 DEF Alike
<1>4. Ids(t.views) = Ids(W)
  BY <1>2 DEF Alike, Ids
<1> QED BY <1>1, <1>3, <1>4

\* One view of a list is changed, and stays what it is.
LEMMA ViewChanges ==
  ASSUME NEW W \in Seq(ViewType), NEW i \in DOMAIN W, NEW v \in ViewType,
         v.resource = W[i].resource, v.image = W[i].image
  PROVE  [W EXCEPT ![i] = v] \in Seq(ViewType) /\ Alike(W, [W EXCEPT ![i] = v])
BY DEF Alike

LEMMA AlikeChain ==
  ASSUME NEW W, NEW U, NEW X, Alike(W, U), Alike(U, X)
  PROVE  Alike(W, X)
BY DEF Alike

LEMMA SetPendingFlags ==
  ASSUME NEW m \in MemType, NEW r \in Resources, NEW b \in BOOLEAN
  PROVE  /\ SetPending(m, r, b) \in MemType
         /\ Live(SetPending(m, r, b).records) = Live(m.records)
         /\ Announced(SetPending(m, r, b).records) =
              IF b THEN Announced(m.records) \cup {r} ELSE Announced(m.records) \ {r}
<1> DEFINE new == [m.records[r] EXCEPT !.gpu_write_pending = b]
           recs == [m.records EXCEPT ![r] = new]
<1>1. m.records \in [Resources -> RecordType] /\ m.records[r] \in RecordType
  BY DEF MemType
<1>2. new \in RecordType /\ new.live = m.records[r].live /\ new.gpu_write_pending = b
  BY <1>1 DEF RecordType
<1>3. SetPending(m, r, b) = [m EXCEPT !.records = recs]
  BY <1>1 DEF SetPending, MemType
<1> HIDE DEF new
<1>4. /\ recs \in [Resources -> RecordType]
      /\ recs[r] = new /\ \A q \in Resources : q # r => recs[q] = m.records[q]
  BY <1>1, <1>2
<1> HIDE DEF recs
<1>5. SetPending(m, r, b) \in MemType /\ SetPending(m, r, b).records = recs
  BY <1>3, <1>4 DEF MemType
<1>6. Live(recs) = Live(m.records)
  BY <1>1, <1>2, <1>4 DEF Live
<1>7. Announced(recs) =
        IF b THEN Announced(m.records) \cup {r} ELSE Announced(m.records) \ {r}
  BY <1>1, <1>2, <1>4 DEF Announced
<1> QED BY <1>5, <1>6, <1>7

\* A view is no longer announced, and said to be.
LEMMA ViewResolved ==
  ASSUME NEW live, NEW announced, NEW W \in Seq(ViewType), Different(W),
         NEW t \in Steps(live, announced, W), NEW i \in DOMAIN W
  PROVE  [t EXCEPT !.m = SetPending(@, t.views[i].resource, FALSE),
                   !.views[i].dirty = FALSE, !.views[i].stuck = FALSE]
           \in Steps(live, announced, W)
<1> DEFINE r == t.views[i].resource
           v == [t.views[i] EXCEPT !.dirty = FALSE, !.stuck = FALSE]
           U == [t.views EXCEPT ![i] = v]
           m == SetPending(t.m, r, FALSE)
           u == [t EXCEPT !.m = m, !.views = U]
<1>1. /\ t \in StepType /\ t.m \in MemType /\ t.ok \in BOOLEAN
      /\ t.views \in Seq(ViewType) /\ DOMAIN t.views = DOMAIN W
      /\ i \in DOMAIN t.views /\ t.views[i] \in ViewType
  BY StepsTyped
<1>2. /\ Alike(W, t.views) /\ Live(t.m.records) = live
      /\ Announced(t.m.records) \ Ids(W) = announced \ Ids(W)
      /\ Exact(Announced(t.m.records), t.views)
  BY DEF Steps
<1>3. /\ v \in ViewType /\ v.resource = r /\ v.image = t.views[i].image /\ ~Announces(v)
      /\ r \in Resources
  BY <1>1 DEF ViewType, Announces
<1>4. [t EXCEPT !.m = SetPending(@, r, FALSE), !.views[i].dirty = FALSE,
                  !.views[i].stuck = FALSE] = u
  BY <1>1 DEF StepType
<1> HIDE DEF v
<1>5. U \in Seq(ViewType) /\ Alike(t.views, U)
  BY <1>1, <1>3, ViewChanges
<1>6. /\ m \in MemType /\ Live(m.records) = live
      /\ Announced(m.records) = Announced(t.m.records) \ {r}
  BY <1>1, <1>2, <1>3, SetPendingFlags
<1>7. U[i] = v /\ \A j \in DOMAIN W : j # i => U[j] = t.views[j]
  BY <1>1
<1>8. \A j \in DOMAIN W : j # i => t.views[j].resource # r
  BY <1>1, <1>2 DEF Alike, Different
<1>9. r \in Ids(W)
  BY <1>2 DEF Alike, Ids
<1> HIDE DEF r, U, m
<1>10. Announced(m.records) \ Ids(W) = announced \ Ids(W)
  BY <1>2, <1>6, <1>9
<1>11. ASSUME NEW j \in DOMAIN U PROVE U[j].resource \in Announced(m.records) <=> Announces(U[j])
  <2>1. j \in DOMAIN W /\ j \in DOMAIN t.views
    BY <1>1, <1>5 DEF Alike
  <2>2. CASE j = i
    BY <1>3, <1>6, <1>7, <2>2
  <2>3. CASE j # i
    <3>1. U[j] = t.views[j] /\ t.views[j].resource # r
      BY <1>7, <1>8, <2>1, <2>3
    <3>2. t.views[j].resource \in Announced(t.m.records) <=> Announces(t.views[j])
      BY <1>2, <2>1 DEF Exact
    <3> QED BY <1>6, <3>1, <3>2
  <2> QED BY <2>2, <2>3
<1>12. Exact(Announced(m.records), U)
  BY <1>11 DEF Exact
<1>13. Alike(W, U)
  BY <1>2, <1>5, AlikeChain
<1>14. u \in StepType /\ u.m = m /\ u.views = U
  BY <1>1, <1>5, <1>6 DEF StepType
<1> HIDE DEF u
<1>15. u \in Steps(live, announced, W)
  BY <1>6, <1>10, <1>12, <1>13, <1>14 DEF Steps
<1> QED BY <1>4, <1>15 DEF r

-----------------------------------------------------------------------------
(* One view at a time.                                                     *)

LEMMA StepFails ==
  ASSUME NEW live, NEW announced, NEW W, NEW t \in Steps(live, announced, W)
  PROVE  [t EXCEPT !.ok = FALSE] \in Steps(live, announced, W)
<1> DEFINE u == [t EXCEPT !.ok = FALSE]
<1>1. u \in StepType /\ u.m = t.m /\ u.views = t.views
  BY DEF Steps, StepType
<1> HIDE DEF u
<1>2. u \in Steps(live, announced, W)
  BY <1>1 DEF Steps
<1> QED BY <1>2 DEF u

LEMMA LifecycleChanges ==
  ASSUME NEW live, NEW announced, NEW W \in Seq(ViewType),
         NEW t \in Steps(live, announced, W), NEW i \in DOMAIN W,
         NEW x \in {"abandoned", "pending", "completed"}
  PROVE  [t EXCEPT !.views[i].lifecycle = x] \in Steps(live, announced, W)
<1> DEFINE v == [t.views[i] EXCEPT !.lifecycle = x]
           U == [t.views EXCEPT ![i] = v]
           u == [t EXCEPT !.views = U]
<1>1. /\ t \in StepType /\ t.m \in MemType /\ t.ok \in BOOLEAN
      /\ t.views \in Seq(ViewType) /\ DOMAIN t.views = DOMAIN W
      /\ i \in DOMAIN t.views /\ t.views[i] \in ViewType
  BY StepsTyped
<1>2. /\ v \in ViewType /\ v.resource = t.views[i].resource
      /\ v.image = t.views[i].image /\ (Announces(v) <=> Announces(t.views[i]))
  BY <1>1 DEF ViewType, Announces
<1>3. [t EXCEPT !.views[i].lifecycle = x] = u
  BY <1>1 DEF StepType
<1> HIDE DEF v
<1>4. U \in Seq(ViewType) /\ Alike(t.views, U)
  BY <1>1, <1>2, ViewChanges
<1>5. \A j \in DOMAIN U : j \in DOMAIN t.views /\ U[j].resource = t.views[j].resource
                          /\ (Announces(U[j]) <=> Announces(t.views[j]))
  BY <1>1, <1>2
<1> HIDE DEF U
<1>6. Alike(W, U) /\ Exact(Announced(t.m.records), U)
  <2>1. Alike(W, t.views) /\ Exact(Announced(t.m.records), t.views)
    BY DEF Steps
  <2>2. Alike(W, U)
    BY <1>4, <2>1, AlikeChain
  <2>3. Exact(Announced(t.m.records), U)
    BY <1>5, <2>1 DEF Exact
  <2> QED BY <2>2, <2>3
<1>7. u \in StepType /\ u.m = t.m /\ u.views = U
  BY <1>1, <1>4 DEF StepType
<1> HIDE DEF u
<1>8. u \in Steps(live, announced, W)
  BY <1>6, <1>7 DEF Steps
<1> QED BY <1>3, <1>8

LEMMA LifecyclesChange ==
  ASSUME NEW live, NEW announced, NEW W \in Seq(ViewType),
         NEW t \in Steps(live, announced, W), NEW image,
         NEW x \in {"abandoned", "pending", "completed"}
  PROVE  [t EXCEPT !.views = WithLifecycle(@, image, x)] \in Steps(live, announced, W)
<1> DEFINE U == WithLifecycle(t.views, image, x)
           u == [t EXCEPT !.views = U]
<1>1. /\ t \in StepType /\ t.m \in MemType /\ t.ok \in BOOLEAN
      /\ t.views \in Seq(ViewType) /\ DOMAIN t.views = 1 .. Len(W)
      /\ \A i \in 1 .. Len(W) : t.views[i] \in ViewType
  BY StepsTyped
<1>2. ASSUME NEW i \in 1 .. Len(W)
      PROVE  /\ U[i] \in ViewType /\ U[i].resource = t.views[i].resource
             /\ U[i].image = t.views[i].image
             /\ (Announces(U[i]) <=> Announces(t.views[i]))
  <2>1. U[i] = IF t.views[i].image = image
               THEN [t.views[i] EXCEPT !.lifecycle = x] ELSE t.views[i]
    BY <1>1 DEF WithLifecycle
  <2> QED BY <1>1, <2>1 DEF ViewType, Announces
<1>3. U \in Seq(ViewType) /\ DOMAIN U = 1 .. Len(W)
  <2>1. U = [i \in 1 .. Len(W) |-> U[i]]
    BY <1>1 DEF WithLifecycle
  <2>2. Len(W) \in Nat
    OBVIOUS
  <2> HIDE DEF U
  <2> QED BY <1>2, <2>1, <2>2
<1>4. [t EXCEPT !.views = WithLifecycle(@, image, x)] = u
  OBVIOUS
<1> HIDE DEF U
<1>5. Alike(t.views, U)
  BY <1>1, <1>2, <1>3 DEF Alike
<1>6. Alike(W, U) /\ Exact(Announced(t.m.records), U)
  <2>1. Alike(W, t.views) /\ Exact(Announced(t.m.records), t.views)
    BY DEF Steps
  <2>2. Alike(W, U)
    BY <1>5, <2>1, AlikeChain
  <2>3. Exact(Announced(t.m.records), U)
    BY <1>1, <1>2, <1>3, <2>1 DEF Exact
  <2> QED BY <2>2, <2>3
<1>7. u \in StepType /\ u.m = t.m /\ u.views = U
  BY <1>1, <1>3 DEF StepType
<1> HIDE DEF u
<1>8. u \in Steps(live, announced, W)
  BY <1>6, <1>7 DEF Steps
<1> QED BY <1>4, <1>8

LEMMA MergeViewStep ==
  ASSUME NEW live, NEW announced, NEW W \in Seq(ViewType),
         NEW t \in Steps(live, announced, W), NEW i \in DOMAIN W
  PROVE  MergeView(t, i) \in Steps(live, announced, W)
<1> DEFINE done == Merge(t.m, t.views[i])
           u == MergeView(t, i)
<1>1. t \in StepType /\ t.m \in MemType /\ t.views[i] \in ViewType
  BY StepsTyped
<1>2. t.m \in Flagged(Live(t.m.records), Announced(t.m.records))
  BY <1>1 DEF Flagged
<1>3. done \in [m : Flagged(Live(t.m.records), Announced(t.m.records)), ok : BOOLEAN]
  BY <1>1, <1>2, MergeFlags
<1>4. /\ done.m \in MemType /\ done.ok \in BOOLEAN
      /\ Live(done.m.records) = Live(t.m.records)
      /\ Announced(done.m.records) = Announced(t.m.records)
  BY <1>3 DEF Flagged
<1>5. u = [t EXCEPT !.m = done.m, !.ok = done.ok]
  BY DEF MergeView
<1> HIDE DEF done
<1>6. u \in StepType /\ u.m = done.m /\ u.views = t.views
  BY <1>1, <1>4, <1>5 DEF StepType
<1> HIDE DEF u
<1>7. u \in Steps(live, announced, W)
  BY <1>4, <1>6 DEF Steps
<1> QED BY <1>7 DEF u

LEMMA ResolveViewStep ==
  ASSUME NEW live, NEW announced, NEW W \in Seq(ViewType), Different(W),
         NEW t \in Steps(live, announced, W), NEW i \in DOMAIN W
  PROVE  ResolveView(t, i) \in Steps(live, announced, W)
<1>1. [t EXCEPT !.m = SetPending(@, t.views[i].resource, FALSE),
                !.views[i].dirty = FALSE, !.views[i].stuck = FALSE]
        \in Steps(live, announced, W)
  BY ViewResolved
<1>2. [t EXCEPT !.ok = FALSE] \in Steps(live, announced, W)
  BY StepFails
<1> QED BY <1>1, <1>2, Zenon DEF ResolveView

-----------------------------------------------------------------------------
(* All the views of a stage.  The loops differ in what they do with a view. *)

LEMMA MergeViewStage ==
  ASSUME NEW live, NEW announced, NEW W \in Seq(ViewType),
         NEW s \in Steps(live, announced, W), NEW indices
  PROVE  Stage(s, indices, MergeView) \in Steps(live, announced, W)
<1> DEFINE S == Steps(live, announced, W)
           n == Len(s.views)
           Do(t, i) == IF i \in indices /\ t.ok THEN MergeView(t, i) ELSE t
           Body(f) == [i \in 0 .. n |-> IF i = 0 THEN s ELSE Do(f[i - 1], i)]
           step == [x \in (1 .. n) \X S |-> Do(x[2], x[1])]
           after == CHOOSE f : f = Body(f)
<1>1. s \in S /\ n \in Nat
  BY StepsTyped
<1>2. ASSUME NEW t \in S, NEW i \in 1 .. n PROVE Do(t, i) \in S
  <2>1. i \in DOMAIN W
    BY StepsTyped
  <2> QED BY <2>1, MergeViewStep
<1>3. Stage(s, indices, MergeView) = after[n]
  BY DEF Stage
<1> HIDE DEF S, n, Do
<1>4. step \in [(1 .. n) \X S -> S]
  <2>1. \A x \in (1 .. n) \X S : x[1] \in 1 .. n /\ x[2] \in S
    OBVIOUS
  <2> QED BY <1>2, <2>1
<1>5. PICK f \in [0 .. n -> S] : Chain(f, s, step, n)
  <2> HIDE DEF step
  <2> QED BY <1>1, <1>4, ChainExists
<1>6. f = Body(f)
  <2>1. ASSUME NEW k \in 1 .. n PROVE f[k] = Do(f[k - 1], k)
    <3>1. k - 1 \in 0 .. n
      BY <1>1
    <3>2. <<k, f[k - 1]>> \in (1 .. n) \X S
      BY <1>5, <3>1
    <3>3. f[k] = step[<<k, f[k - 1]>>]
      BY <1>5 DEF Chain
    <3> QED BY <3>2, <3>3
  <2>2. f[0] = s
    BY <1>5 DEF Chain
  <2> HIDE DEF step
  <2> QED BY <1>1, <1>5, <2>1, <2>2
<1>7. after = Body(after)
  <2> HIDE DEF Body
  <2> QED BY <1>6
<1> HIDE DEF after
<1>8. after[0] = s /\ \A k \in 1 .. n : after[k] = Do(after[k - 1], k)
  <2>1. 0 \in 0 .. n /\ \A k \in 1 .. n : k \in 0 .. n /\ k # 0
    BY <1>1
  <2> QED BY <1>7, <2>1
<1>9. \A k \in 0 .. n : after[k] \in S
  BY <1>1, <1>2, <1>8, ChainStays
<1> QED BY <1>1, <1>3, <1>9 DEF S

LEMMA ResolveViewStage ==
  ASSUME NEW live, NEW announced, NEW W \in Seq(ViewType), Different(W),
         NEW s \in Steps(live, announced, W), NEW indices
  PROVE  Stage(s, indices, ResolveView) \in Steps(live, announced, W)
<1> DEFINE S == Steps(live, announced, W)
           n == Len(s.views)
           Do(t, i) == IF i \in indices /\ t.ok THEN ResolveView(t, i) ELSE t
           Body(f) == [i \in 0 .. n |-> IF i = 0 THEN s ELSE Do(f[i - 1], i)]
           step == [x \in (1 .. n) \X S |-> Do(x[2], x[1])]
           after == CHOOSE f : f = Body(f)
<1>1. s \in S /\ n \in Nat
  BY StepsTyped
<1>2. ASSUME NEW t \in S, NEW i \in 1 .. n PROVE Do(t, i) \in S
  <2>1. i \in DOMAIN W
    BY StepsTyped
  <2> QED BY <2>1, ResolveViewStep
<1>3. Stage(s, indices, ResolveView) = after[n]
  BY DEF Stage
<1> HIDE DEF S, n, Do
<1>4. step \in [(1 .. n) \X S -> S]
  <2>1. \A x \in (1 .. n) \X S : x[1] \in 1 .. n /\ x[2] \in S
    OBVIOUS
  <2> QED BY <1>2, <2>1
<1>5. PICK f \in [0 .. n -> S] : Chain(f, s, step, n)
  <2> HIDE DEF step
  <2> QED BY <1>1, <1>4, ChainExists
<1>6. f = Body(f)
  <2>1. ASSUME NEW k \in 1 .. n PROVE f[k] = Do(f[k - 1], k)
    <3>1. k - 1 \in 0 .. n
      BY <1>1
    <3>2. <<k, f[k - 1]>> \in (1 .. n) \X S
      BY <1>5, <3>1
    <3>3. f[k] = step[<<k, f[k - 1]>>]
      BY <1>5 DEF Chain
    <3> QED BY <3>2, <3>3
  <2>2. f[0] = s
    BY <1>5 DEF Chain
  <2> HIDE DEF step
  <2> QED BY <1>1, <1>5, <2>1, <2>2
<1>7. after = Body(after)
  <2> HIDE DEF Body
  <2> QED BY <1>6
<1> HIDE DEF after
<1>8. after[0] = s /\ \A k \in 1 .. n : after[k] = Do(after[k - 1], k)
  <2>1. 0 \in 0 .. n /\ \A k \in 1 .. n : k \in 0 .. n /\ k # 0
    BY <1>1
  <2> QED BY <1>7, <2>1
<1>9. \A k \in 0 .. n : after[k] \in S
  BY <1>1, <1>2, <1>8, ChainStays
<1> QED BY <1>1, <1>3, <1>9 DEF S

LEMMA CompleteImageStep ==
  ASSUME NEW live, NEW announced, NEW W \in Seq(ViewType), Different(W),
         NEW t \in Steps(live, announced, W), NEW i \in DOMAIN W
  PROVE  CompleteImage(t, i) \in Steps(live, announced, W)
<1> DEFINE u == Stage(MergeView(t, i), {i}, ResolveView)
           Completed(x) == IF x.ok THEN [x EXCEPT !.views[i].lifecycle = "completed"]
                           ELSE x
<1>1. u \in Steps(live, announced, W)
  BY MergeViewStep, ResolveViewStage
<1>2. [t EXCEPT !.ok = FALSE] \in Steps(live, announced, W)
  BY StepFails
<1>3. \A x \in Steps(live, announced, W) : Completed(x) \in Steps(live, announced, W)
  BY LifecycleChanges
<1>4. CompleteImage(t, i) \in {Completed(t), Completed(u), [t EXCEPT !.ok = FALSE]}
  BY Zenon DEF CompleteImage
<1> HIDE DEF u, Completed
<1>5. Completed(t) \in Steps(live, announced, W) /\ Completed(u) \in Steps(live, announced, W)
  BY <1>1, <1>3
<1> QED BY <1>2, <1>4, <1>5

LEMMA CompleteImageStage ==
  ASSUME NEW live, NEW announced, NEW W \in Seq(ViewType), Different(W),
         NEW s \in Steps(live, announced, W), NEW indices
  PROVE  Stage(s, indices, CompleteImage) \in Steps(live, announced, W)
<1> DEFINE S == Steps(live, announced, W)
           n == Len(s.views)
           Do(t, i) == IF i \in indices /\ t.ok THEN CompleteImage(t, i) ELSE t
           Body(f) == [i \in 0 .. n |-> IF i = 0 THEN s ELSE Do(f[i - 1], i)]
           step == [x \in (1 .. n) \X S |-> Do(x[2], x[1])]
           after == CHOOSE f : f = Body(f)
<1>1. s \in S /\ n \in Nat
  BY StepsTyped
<1>2. ASSUME NEW t \in S, NEW i \in 1 .. n PROVE Do(t, i) \in S
  <2>1. i \in DOMAIN W
    BY StepsTyped
  <2> QED BY <2>1, CompleteImageStep
<1>3. Stage(s, indices, CompleteImage) = after[n]
  BY DEF Stage
<1> HIDE DEF S, n, Do
<1>4. step \in [(1 .. n) \X S -> S]
  <2>1. \A x \in (1 .. n) \X S : x[1] \in 1 .. n /\ x[2] \in S
    OBVIOUS
  <2> QED BY <1>2, <2>1
<1>5. PICK f \in [0 .. n -> S] : Chain(f, s, step, n)
  <2> HIDE DEF step
  <2> QED BY <1>1, <1>4, ChainExists
<1>6. f = Body(f)
  <2>1. ASSUME NEW k \in 1 .. n PROVE f[k] = Do(f[k - 1], k)
    <3>1. k - 1 \in 0 .. n
      BY <1>1
    <3>2. <<k, f[k - 1]>> \in (1 .. n) \X S
      BY <1>5, <3>1
    <3>3. f[k] = step[<<k, f[k - 1]>>]
      BY <1>5 DEF Chain
    <3> QED BY <3>2, <3>3
  <2>2. f[0] = s
    BY <1>5 DEF Chain
  <2> HIDE DEF step
  <2> QED BY <1>1, <1>5, <2>1, <2>2
<1>7. after = Body(after)
  <2> HIDE DEF Body
  <2> QED BY <1>6
<1> HIDE DEF after
<1>8. after[0] = s /\ \A k \in 1 .. n : after[k] = Do(after[k - 1], k)
  <2>1. 0 \in 0 .. n /\ \A k \in 1 .. n : k \in 0 .. n /\ k # 0
    BY <1>1
  <2> QED BY <1>7, <2>1
<1>9. \A k \in 0 .. n : after[k] \in S
  BY <1>1, <1>2, <1>8, ChainStays
<1> QED BY <1>1, <1>3, <1>9 DEF S

\* CompleteRetainedResources of the views of one submission.
LEMMA CompleteRetainedStep ==
  ASSUME NEW m \in MemType, NEW W \in Seq(ViewType), Different(W),
         Exact(Announced(m.records), W)
  PROVE  CompleteRetained(m, W) \in Steps(Live(m.records), Announced(m.records), W)
<1> DEFINE S == Steps(Live(m.records), Announced(m.records), W)
           s == [m |-> m, views |-> W, ok |-> TRUE]
           c == CompleteBuffers(s)
           Completed(t) ==
             IF t.ok THEN [t EXCEPT !.views = WithLifecycle(@, FALSE, "completed")] ELSE t
           b == IF Pending(W, FALSE) = {} THEN s ELSE Completed(c)
<1>1. s \in S
  <2>1. s \in StepType /\ s.m = m /\ s.views = W
    BY DEF StepType
  <2> HIDE DEF s
  <2> QED BY <2>1 DEF Steps, Alike
<1> HIDE DEF s
<1>2. c \in S
  BY <1>1, MergeViewStage, ResolveViewStage DEF CompleteBuffers
<1> HIDE DEF c
<1>3. Completed(c) \in S
  BY <1>2, LifecyclesChange
<1>4. b \in S
  <2> HIDE DEF S, Completed
  <2> QED BY <1>1, <1>3
<1>5. CompleteRetained(m, W) = Stage(b, Pending(W, TRUE), CompleteImage)
  BY DEF CompleteRetained, b, c, s
<1> HIDE DEF b
<1> QED BY <1>4, <1>5, CompleteImageStage

-----------------------------------------------------------------------------
(* What happens to the views of a holder.                                  *)

\* The views of the other holders stay.
OthersStay(V, X, h) == \A o \in Holders : o # h => X[o] = V[o]

LEMMA OwnedHolder ==
  ASSUME NEW live, NEW announced, NEW V, NEW lost, Owned(live, announced, V, lost),
         NEW h \in Holders
  PROVE  /\ Different(V[h]) /\ Exact(announced, V[h])
         /\ Ids(V[h]) \subseteq live /\ Ids(V[h]) \cap lost = {}
<1>1. Different(V[h])
  BY DEF Owned, Apart, Different
<1>2. Exact(announced, V[h])
  BY DEF Owned, Exact
<1>3. Ids(V[h]) \subseteq live /\ Ids(V[h]) \cap lost = {}
  BY DEF Owned, Ids
<1> QED BY <1>1, <1>2, <1>3

LEMMA OthersIds ==
  ASSUME NEW live, NEW announced, NEW V, NEW lost, Owned(live, announced, V, lost),
         NEW h \in Holders, NEW o \in Holders, o # h, NEW i \in DOMAIN V[o]
  PROVE  V[o][i].resource \notin Ids(V[h])
BY DEF Owned, Apart, Ids

\* A call handles the views of one holder.
LEMMA ReplaceViews ==
  ASSUME NEW live, NEW announced, NEW V, NEW lost, Owned(live, announced, V, lost),
         NEW h \in Holders, NEW X, OthersStay(V, X, h), Alike(V[h], X[h]),
         NEW after, after \ Ids(V[h]) = announced \ Ids(V[h]), Exact(after, X[h])
  PROVE  Owned(live, after, X, lost)
<1>1. Ids(V[h]) \subseteq live /\ Ids(V[h]) \cap lost = {}
  BY OwnedHolder
<1>2. \A o \in Holders : /\ DOMAIN X[o] = DOMAIN V[o]
                         /\ \A i \in DOMAIN V[o] : X[o][i].resource = V[o][i].resource
  BY DEF OthersStay, Alike
<1>3. Apart(X)
  BY <1>2 DEF Owned, Apart
<1>4. ASSUME NEW o \in Holders, NEW i \in DOMAIN X[o]
      PROVE  /\ X[o][i].resource \in live \ lost
             /\ X[o][i].resource \in after <=> Announces(X[o][i])
  <2>1. i \in DOMAIN V[o] /\ X[o][i].resource = V[o][i].resource
    BY <1>2
  <2>2. X[o][i].resource \in live \ lost
    BY <2>1 DEF Owned
  <2>3. CASE o = h
    BY <2>2, <2>3 DEF Exact
  <2>4. CASE o # h
    <3>1. X[o] = V[o] /\ V[o][i].resource \notin Ids(V[h])
      BY <2>1, <2>4, OthersIds DEF OthersStay
    <3>2. V[o][i].resource \in announced <=> Announces(V[o][i])
      BY <2>1 DEF Owned
    <3>3. V[o][i].resource \in after <=> V[o][i].resource \in announced
      BY <3>1
    <3> QED BY <2>2, <3>1, <3>2, <3>3
  <2> QED BY <2>3, <2>4
<1>5. ASSUME NEW r \in live, r \notin lost
      PROVE  \E o \in Holders : \E i \in DOMAIN X[o] : X[o][i].resource = r
  BY <1>2, <1>5 DEF Owned
<1>6. lost \subseteq after /\ after \subseteq live
  BY <1>1 DEF Owned
<1> QED BY <1>3, <1>4, <1>5, <1>6 DEF Owned

\* The views of one holder go, and their registrations with them.
LEMMA DropViews ==
  ASSUME NEW live, NEW announced, NEW V, NEW lost, Owned(live, announced, V, lost),
         NEW h \in Holders, NEW X, OthersStay(V, X, h), DOMAIN X[h] = {}
  PROVE  Owned(live \ Ids(V[h]), announced \ Ids(V[h]), X, lost)
<1>1. Ids(V[h]) \subseteq live /\ Ids(V[h]) \cap lost = {}
  BY OwnedHolder
<1>2. Apart(X)
  BY DEF Owned, Apart, OthersStay
<1>3. ASSUME NEW o \in Holders, NEW i \in DOMAIN X[o]
      PROVE  /\ X[o][i].resource \in (live \ Ids(V[h])) \ lost
             /\ X[o][i].resource \in announced \ Ids(V[h]) <=> Announces(X[o][i])
  <2>1. o # h /\ X[o] = V[o] /\ i \in DOMAIN V[o]
    BY DEF OthersStay
  <2>2. V[o][i].resource \notin Ids(V[h])
    BY <2>1, OthersIds
  <2>3. V[o][i].resource \in live \ lost
        /\ (V[o][i].resource \in announced <=> Announces(V[o][i]))
    BY <2>1 DEF Owned
  <2> QED BY <2>1, <2>2, <2>3
<1>4. ASSUME NEW r \in live \ Ids(V[h]), r \notin lost
      PROVE  \E o \in Holders : \E i \in DOMAIN X[o] : X[o][i].resource = r
  <2>1. PICK o \in Holders : \E i \in DOMAIN V[o] : V[o][i].resource = r
    BY <1>4 DEF Owned
  <2>2. o # h
    BY <2>1 DEF Ids
  <2> QED BY <2>1, <2>2 DEF OthersStay
<1>5. lost \subseteq announced \ Ids(V[h]) /\ announced \ Ids(V[h]) \subseteq live \ Ids(V[h])
  BY <1>1 DEF Owned
<1> QED BY <1>2, <1>3, <1>4, <1>5 DEF Owned

\* The ids of the views whose ranges are announced.
Dirt(V) == UNION {{V[o][i].resource : i \in {j \in DOMAIN V[o] : Announces(V[o][j])}} :
                  o \in Holders}

LEMMA DirtExact ==
  ASSUME NEW live, NEW announced, NEW V, NEW lost, Owned(live, announced, V, lost)
  PROVE  announced = Dirt(V) \cup lost
<1>1. ASSUME NEW r \in announced, r \notin lost PROVE r \in Dirt(V)
  <2>0. PICK o \in Holders : \E i \in DOMAIN V[o] : V[o][i].resource = r
    BY <1>1 DEF Owned
  <2>1. PICK i \in DOMAIN V[o] : V[o][i].resource = r
    BY <2>0
  <2>2. Announces(V[o][i])
    BY <1>1, <2>1 DEF Owned
  <2> QED BY <2>1, <2>2 DEF Dirt
<1>2. ASSUME NEW r \in Dirt(V) PROVE r \in announced
  <2>0. PICK o \in Holders : \E i \in DOMAIN V[o] : Announces(V[o][i]) /\ V[o][i].resource = r
    BY DEF Dirt
  <2>1. PICK i \in DOMAIN V[o] : Announces(V[o][i]) /\ V[o][i].resource = r
    BY <2>0
  <2> QED BY <2>1 DEF Owned
<1>3. lost \subseteq announced
  BY DEF Owned
<1> QED BY <1>1, <1>2, <1>3

\* The device goes: what is kept for it stays registered and announced.
LEMMA LoseViews ==
  ASSUME NEW lost, NEW X, \A o \in Holders : DOMAIN X[o] = {}
  PROVE  Owned(lost, lost, X, lost)
BY DEF Owned, Apart

\* A holder gets a view with an id nobody has.
LEMMA AddView ==
  ASSUME NEW live, NEW announced, NEW V \in [Holders -> Seq(ViewType)], NEW lost,
         Owned(live, announced, V, lost),
         NEW h \in Holders, NEW X, OthersStay(V, X, h),
         NEW v \in ViewType, X[h] = Append(V[h], v), v.resource \notin live, ~Announces(v)
  PROVE  Owned(live \cup {v.resource}, announced, X, lost)
<1> DEFINE n == Len(V[h]) + 1
<1>1. /\ DOMAIN X[h] = DOMAIN V[h] \cup {n} /\ n \notin DOMAIN V[h] /\ X[h][n] = v
      /\ \A i \in DOMAIN V[h] : X[h][i] = V[h][i]
  <2>1. V[h] \in Seq(ViewType) /\ Len(V[h]) \in Nat /\ DOMAIN V[h] = 1 .. Len(V[h])
    OBVIOUS
  <2> QED BY <2>1
<1> HIDE DEF n
<1>2. ASSUME NEW o \in Holders, NEW i \in DOMAIN V[o]
      PROVE  /\ i \in DOMAIN X[o] /\ X[o][i] = V[o][i]
             /\ V[o][i].resource \in live \ lost /\ V[o][i].resource # v.resource
             /\ V[o][i].resource \in announced <=> Announces(V[o][i])
  <2>1. i \in DOMAIN X[o] /\ X[o][i] = V[o][i]
    BY <1>1 DEF OthersStay
  <2>2. V[o][i].resource \in live \ lost
        /\ (V[o][i].resource \in announced <=> Announces(V[o][i]))
    BY DEF Owned
  <2> QED BY <2>1, <2>2
<1>3. ASSUME NEW o \in Holders, NEW i \in DOMAIN X[o]
      PROVE  \/ i \in DOMAIN V[o] \/ (o = h /\ i = n)
  BY <1>1 DEF OthersStay
<1>4. announced \subseteq live /\ lost \subseteq announced
  BY DEF Owned
<1>5. Apart(X)
  <2> SUFFICES ASSUME NEW o \in Holders, NEW p \in Holders,
                      NEW i \in DOMAIN X[o], NEW j \in DOMAIN X[p],
                      X[o][i].resource = X[p][j].resource
               PROVE  o = p /\ i = j
    BY DEF Apart
  <2>1. CASE i \in DOMAIN V[o]
    <3>1. j \in DOMAIN V[p]
      BY <1>1, <1>2, <1>3, <2>1
    <3>2. X[o][i] = V[o][i] /\ X[p][j] = V[p][j]
      BY <1>2, <2>1, <3>1
    <3> QED BY <2>1, <3>1, <3>2 DEF Owned, Apart
  <2>2. CASE o = h /\ i = n
    <3>1. ~(j \in DOMAIN V[p])
      BY <1>1, <1>2, <2>2
    <3> QED BY <1>3, <2>2, <3>1
  <2> QED BY <1>3, <2>1, <2>2
<1>6. ASSUME NEW o \in Holders, NEW i \in DOMAIN X[o]
      PROVE  /\ X[o][i].resource \in (live \cup {v.resource}) \ lost
             /\ X[o][i].resource \in announced <=> Announces(X[o][i])
  <2>1. CASE i \in DOMAIN V[o]
    BY <1>2, <2>1
  <2>2. CASE o = h /\ i = n
    BY <1>1, <1>4, <2>2
  <2> QED BY <1>3, <2>1, <2>2
<1>7. ASSUME NEW r \in live \cup {v.resource}, r \notin lost
      PROVE  \E o \in Holders : \E i \in DOMAIN X[o] : X[o][i].resource = r
  <2>1. CASE r = v.resource
    BY <1>1, <2>1
  <2>2. CASE r \in live
    <3>0. PICK o \in Holders : \E i \in DOMAIN V[o] : V[o][i].resource = r
      BY <1>7, <2>2 DEF Owned
    <3>1. PICK i \in DOMAIN V[o] : V[o][i].resource = r
      BY <3>0
    <3> QED BY <1>2, <3>1
  <2> QED BY <2>1, <2>2
<1> QED BY <1>4, <1>5, <1>6, <1>7 DEF Owned

\* The views of one holder go to another that has none.
LEMMA MoveViews ==
  ASSUME NEW live, NEW announced, NEW V, NEW lost, Owned(live, announced, V, lost),
         NEW g \in Holders, NEW h \in Holders, g # h, DOMAIN V[h] = {},
         NEW X, X[h] = V[g], DOMAIN X[g] = {},
         \A o \in Holders : o # g /\ o # h => X[o] = V[o]
  PROVE  Owned(live, announced, X, lost)
<1>1. ASSUME NEW o \in Holders, NEW i \in DOMAIN X[o]
      PROVE  \/ o # g /\ o # h /\ X[o] = V[o] /\ i \in DOMAIN V[o]
             \/ o = h /\ X[o] = V[g] /\ i \in DOMAIN V[g]
  OBVIOUS
<1>2. Apart(X)
  BY <1>1 DEF Owned, Apart
<1>3. ASSUME NEW o \in Holders, NEW i \in DOMAIN X[o]
      PROVE  /\ X[o][i].resource \in live \ lost
             /\ X[o][i].resource \in announced <=> Announces(X[o][i])
  BY <1>1 DEF Owned
<1>4. ASSUME NEW r \in live, r \notin lost
      PROVE  \E o \in Holders : \E i \in DOMAIN X[o] : X[o][i].resource = r
  <2>0. PICK o \in Holders : \E i \in DOMAIN V[o] : V[o][i].resource = r
    BY <1>4 DEF Owned
  <2>1. PICK i \in DOMAIN V[o] : V[o][i].resource = r
    BY <2>0
  <2>2. o # h
    BY <2>1
  <2>3. CASE o = g
    BY <2>1, <2>3
  <2>4. CASE o # g
    BY <2>1, <2>2, <2>4
  <2> QED BY <2>3, <2>4
<1>5. lost \subseteq announced /\ announced \subseteq live
  BY DEF Owned
<1> QED BY <1>2, <1>3, <1>4, <1>5 DEF Owned

\* Discard of some registrations.
LEMMA UnregisterFlags ==
  ASSUME NEW recs \in [Resources -> RecordType], NEW W, NEW lost
  PROVE  /\ Unregister(recs, W, lost) \in [Resources -> RecordType]
         /\ Live(Unregister(recs, W, lost)) = Live(recs) \ (Registered(W) \ Lost(W, lost))
         /\ Announced(Unregister(recs, W, lost)) =
              Announced(recs) \ (Registered(W) \ Lost(W, lost))
<1> DEFINE gone == Registered(W) \ Lost(W, lost)
           u == Unregister(recs, W, lost)
<1>1. NoRecord \in RecordType /\ ~NoRecord.live /\ ~NoRecord.gpu_write_pending
  BY ConstantsTyped DEF NoRecord, RecordType, Generations
<1>2. u = [r \in Resources |-> IF r \in gone THEN NoRecord ELSE recs[r]]
  BY DEF Unregister
<1> HIDE DEF u, gone
<1>3. u \in [Resources -> RecordType]
  BY <1>1, <1>2
<1>4. Live(u) = Live(recs) \ gone
  BY <1>1, <1>2 DEF Live
<1>5. Announced(u) = Announced(recs) \ gone
  BY <1>1, <1>2 DEF Announced
<1> QED BY <1>3, <1>4, <1>5 DEF u, gone

-----------------------------------------------------------------------------
(* The executor.                                                           *)

ExecType ==
  [m : MemType, retained : [Slots -> LeaseType], idle : SUBSET Backings, ok : BOOLEAN]

\* The states of the executor in which the leases are accounted for, with the
\* lease l in hand, the orphans kept, the GPU at work with the device buffers busy
\* and only ids of live registered.
Executions(l, lost, kept, busy, live) ==
  {e \in ExecType :
     /\ Owned(Live(e.m.records) \ kept, Announced(e.m.records), Views(l, e.retained), lost)
     /\ kept \subseteq Live(e.m.records)
     /\ Live(e.m.records) \subseteq live
     /\ BackingsApart(e.retained, l, e.idle)
     /\ InUse(busy, e.retained)}

LEMMA SlotsAreHolders ==
  Slots \subseteq Holders /\ 0 \in Holders /\ 0 \notin Slots
  /\ \A o \in Holders : o # 0 => o \in Slots
BY ConstantsTyped DEF Slots, Holders

LEMMA ViewsTyped ==
  ASSUME NEW l \in LeaseType, NEW ret \in [Slots -> LeaseType]
  PROVE  Views(l, ret) \in [Holders -> Seq(ViewType)]
<1>1. l.views \in Seq(ViewType) /\ \A s \in Slots : ret[s].views \in Seq(ViewType)
  BY DEF LeaseType
<1> QED BY <1>1, SlotsAreHolders DEF Views

\* The views of one slot change.
LEMMA SlotViews ==
  ASSUME NEW l, NEW ret, NEW R, NEW k \in Slots, \A s \in Slots : s # k => R[s] = ret[s]
  PROVE  /\ Views(l, R)[k] = R[k].views
         /\ OthersStay(Views(l, ret), Views(l, R), k)
         /\ Views(l, ret)[k] = ret[k].views
BY SlotsAreHolders DEF Views, OthersStay

LEMMA ToSetIds ==
  ASSUME NEW W
  PROVE  Registered(ToSet(W)) = Ids(W) /\ Lost(ToSet(W), FALSE) = {}
BY DEF Registered, ToSet, Ids, Lost

LEMMA NoLeaseTyped ==
  NoLease \in LeaseType /\ NoLease.views = <<>> /\ NoLease.backing = 0
    /\ ~NoLease.done /\ DOMAIN NoLease.views = {}
<1>1. <<>> \in Seq(ViewType) /\ 0 \in 0..MaxBacking
  BY ConstantsTyped
<1> QED BY <1>1 DEF NoLease, LeaseType

\* A submission whose device buffer goes back to the pool, or goes.
LEMMA BackingFreed ==
  ASSUME NEW ret \in [Slots -> LeaseType], NEW l \in LeaseType,
         NEW idle \in SUBSET Backings, BackingsApart(ret, l, idle),
         NEW k \in Slots, NEW W, Alike(ret[k].views, W), NEW lost
  PROVE  /\ IdleAfter(idle, ret[k].backing, W, lost) \in SUBSET Backings
         /\ BackingsApart([ret EXCEPT ![k] = NoLease], l,
                          IdleAfter(idle, ret[k].backing, W, lost))
<1> DEFINE b == ret[k].backing
           after == IdleAfter(idle, b, W, lost)
           R == [ret EXCEPT ![k] = NoLease]
<1>1. after = idle \/ (after = idle \cup {b} /\ Reusable(W))
  BY DEF IdleAfter
<1>2. Reusable(W) => b # 0
  BY DEF Reusable, Alike, BackingsApart
<1>3. b \in 0..MaxBacking /\ Backings = 1..MaxBacking /\ MaxBacking \in Nat
  BY ConstantsTyped DEF LeaseType, Backings
<1>4. after \in SUBSET Backings
  <2>1. b # 0 => b \in Backings
    BY <1>3
  <2> HIDE DEF after, b
  <2> QED BY <1>1, <1>2, <2>1
<1>5. 0 \notin after
  BY <1>3, <1>4
<1> HIDE DEF after
<1>6. l.backing \notin after
  BY <1>1, <1>2 DEF BackingsApart
<1>7. ASSUME NEW s \in Slots, s = k
      PROVE  R[s].backing = 0 /\ DOMAIN R[s].views = {}
  BY <1>7, NoLeaseTyped
<1>8. ASSUME NEW s \in Slots, s # k
      PROVE  /\ R[s] = ret[s] /\ ret[s].backing \notin after
  BY <1>1, <1>2, <1>8 DEF BackingsApart
<1> HIDE DEF R, b
<1>9. ASSUME NEW s \in Slots
      PROVE  /\ R[s].backing \notin after
             /\ (\E i \in DOMAIN R[s].views : ~R[s].views[i].image) => R[s].backing # 0
             /\ R[s].backing # 0 => /\ l.backing # R[s].backing
                                    /\ \A t \in Slots : t # s => R[t].backing # R[s].backing
  <2>1. CASE s = k
    BY <1>5, <1>7, <2>1
  <2>2. CASE s # k
    <3>1. R[s] = ret[s] /\ ret[s].backing \notin after
      BY <1>8, <2>2
    <3>2. /\ (\E i \in DOMAIN ret[s].views : ~ret[s].views[i].image) => ret[s].backing # 0
          /\ ret[s].backing # 0 => /\ l.backing # ret[s].backing
                                   /\ \A t \in Slots : t # s => ret[t].backing # ret[s].backing
      BY DEF BackingsApart
    <3>3. \A t \in Slots : R[t].backing = ret[t].backing \/ R[t].backing = 0
      BY <1>7, <1>8
    <3> QED BY <3>1, <3>2, <3>3
  <2> QED BY <2>1, <2>2
<1>10. BackingsApart(R, l, after)
  BY <1>6, <1>9 DEF BackingsApart
<1> QED BY <1>4, <1>10 DEF after, R, b

\* A submission's views change, its device buffer does not.
LEMMA BackingKept ==
  ASSUME NEW ret \in [Slots -> LeaseType], NEW l, NEW idle, BackingsApart(ret, l, idle),
         NEW k \in Slots, NEW sub, sub.backing = ret[k].backing,
         Alike(ret[k].views, sub.views)
  PROVE  BackingsApart([ret EXCEPT ![k] = sub], l, idle)
<1> DEFINE R == [ret EXCEPT ![k] = sub]
<1>1. \A s \in Slots : R[s].backing = ret[s].backing /\ Alike(ret[s].views, R[s].views)
  BY DEF Alike
<1> HIDE DEF R
<1>2. \A s \in Slots : (\E i \in DOMAIN R[s].views : ~R[s].views[i].image) =>
                         (\E i \in DOMAIN ret[s].views : ~ret[s].views[i].image)
  BY <1>1 DEF Alike
<1>3. BackingsApart(R, l, idle)
  BY <1>1, <1>2 DEF BackingsApart
<1> QED BY <1>3 DEF R

\* A slot the GPU is done with changes.
LEMMA InUseKept ==
  ASSUME NEW ret, NEW R, NEW busy, InUse(busy, ret), NEW k \in Slots, ret[k].done,
         \A s \in Slots : s # k => R[s] = ret[s]
  PROVE  InUse(busy, R)
BY DEF InUse

-----------------------------------------------------------------------------
(* Reclaiming.                                                             *)

LEMMA ReclaimSlotStep ==
  ASSUME NEW l \in LeaseType, NEW lost, NEW kept, NEW busy, NEW live,
         NEW e \in Executions(l, lost, kept, busy, live), NEW k \in Slots
  PROVE  ReclaimSlot(e, k) \in Executions(l, lost, kept, busy, live)
<1> DEFINE sub == e.retained[k]
           done == CompleteRetained(e.m, sub.views)
           V == Views(l, e.retained)
<1>1. /\ e \in ExecType /\ e.m \in MemType /\ e.retained \in [Slots -> LeaseType]
      /\ e.idle \in SUBSET Backings
  BY DEF Executions, ExecType
<1>2. sub \in LeaseType /\ sub.views \in Seq(ViewType)
  BY <1>1 DEF LeaseType
<1>3. /\ Owned(Live(e.m.records) \ kept, Announced(e.m.records), V, lost)
      /\ kept \subseteq Live(e.m.records) /\ Live(e.m.records) \subseteq live
      /\ BackingsApart(e.retained, l, e.idle) /\ InUse(busy, e.retained)
  BY DEF Executions
<1>4. k \in Holders /\ V[k] = sub.views
  BY SlotsAreHolders DEF Views
<1>5. /\ Different(sub.views) /\ Exact(Announced(e.m.records), sub.views)
      /\ Ids(sub.views) \cap kept = {}
  <2> HIDE DEF V
  <2> QED BY <1>3, <1>4, OwnedHolder
<1>6. done \in Steps(Live(e.m.records), Announced(e.m.records), sub.views)
  BY <1>1, <1>2, <1>5, CompleteRetainedStep
<1> HIDE DEF done
<1>7. /\ done.m \in MemType /\ done.views \in Seq(ViewType)
      /\ done.m.records \in [Resources -> RecordType]
  BY <1>2, <1>6, StepsTyped DEF MemType
<1>8. /\ Alike(sub.views, done.views) /\ Live(done.m.records) = Live(e.m.records)
      /\ Announced(done.m.records) \ Ids(sub.views) = Announced(e.m.records) \ Ids(sub.views)
      /\ Exact(Announced(done.m.records), done.views)
  BY <1>6 DEF Steps
<1> DEFINE now == [sub EXCEPT !.views = done.views]
           R == [e.retained EXCEPT ![k] = now]
<1>9. /\ now \in LeaseType /\ now.views = done.views /\ now.backing = sub.backing
  BY <1>2, <1>7 DEF LeaseType
<1> HIDE DEF now
<1>10. R \in [Slots -> LeaseType] /\ R[k] = now
  BY <1>1, <1>9
<1>11. Owned(Live(e.m.records) \ kept, Announced(done.m.records), Views(l, R), lost)
  <2>1. Views(l, R)[k] = done.views /\ OthersStay(V, Views(l, R), k)
    <3>1. \A s \in Slots : s # k => R[s] = e.retained[s]
      BY <1>1
    <3> HIDE DEF R
    <3>2. Views(l, R)[k] = R[k].views /\ OthersStay(Views(l, e.retained), Views(l, R), k)
      BY <3>1, SlotViews
    <3> QED BY <1>9, <1>10, <3>2
  <2> HIDE DEF V, R, sub
  <2> QED BY <1>3, <1>4, <1>8, <2>1, ReplaceViews
<1>12. CASE ~(e.ok /\ sub.done)
  BY <1>12 DEF ReclaimSlot
<1>13. CASE e.ok /\ sub.done /\ done.ok
  <2> DEFINE recs == Unregister(done.m.records, ToSet(done.views), FALSE)
             m == [done.m EXCEPT !.records = recs]
             Q == [e.retained EXCEPT ![k] = NoLease]
             idle == IdleAfter(e.idle, sub.backing, done.views, FALSE)
             x == [m |-> m, retained |-> Q, idle |-> idle, ok |-> TRUE]
  <2>1. ReclaimSlot(e, k) = x
    BY <1>13 DEF ReclaimSlot, done
  <2>2. /\ recs \in [Resources -> RecordType]
        /\ Live(recs) = Live(e.m.records) \ Ids(done.views)
        /\ Announced(recs) = Announced(done.m.records) \ Ids(done.views)
    <3> DEFINE W == ToSet(done.views)
    <3>1. Registered(W) \ Lost(W, FALSE) = Ids(done.views)
      BY ToSetIds
    <3> HIDE DEF W
    <3>2. /\ Unregister(done.m.records, W, FALSE) \in [Resources -> RecordType]
          /\ Live(Unregister(done.m.records, W, FALSE)) =
               Live(done.m.records) \ (Registered(W) \ Lost(W, FALSE))
          /\ Announced(Unregister(done.m.records, W, FALSE)) =
               Announced(done.m.records) \ (Registered(W) \ Lost(W, FALSE))
      BY <1>7, UnregisterFlags
    <3> QED BY <1>8, <3>1, <3>2 DEF W
  <2> HIDE DEF recs
  <2>3. m \in MemType /\ m.records = recs
    BY <1>7, <2>2 DEF MemType
  <2>4. Q \in [Slots -> LeaseType] /\ Q = [R EXCEPT ![k] = NoLease]
    BY <1>1, NoLeaseTyped
  <2>5. idle \in SUBSET Backings /\ BackingsApart(Q, l, idle)
    BY <1>1, <1>3, <1>8, BackingFreed
  <2>6. Owned(Live(recs) \ kept, Announced(recs), Views(l, Q), lost)
    <3>1. DOMAIN Views(l, Q)[k] = {} /\ OthersStay(Views(l, R), Views(l, Q), k)
          /\ Views(l, R)[k] = done.views
      <4> HIDE DEF R, Q
      <4>1. Q[k] = NoLease /\ \A s \in Slots : s # k => Q[s] = R[s]
        BY <1>10, <2>4
      <4> QED BY <1>9, <1>10, <4>1, NoLeaseTyped, SlotViews
    <3> HIDE DEF R, Q
    <3>2. Owned((Live(e.m.records) \ kept) \ Ids(done.views),
                Announced(done.m.records) \ Ids(done.views), Views(l, Q), lost)
      BY <1>4, <1>11, <3>1, DropViews
    <3>3. (Live(e.m.records) \ kept) \ Ids(done.views) = Live(recs) \ kept
      BY <2>2
    <3> QED BY <2>2, <3>2, <3>3
  <2>0. InUse(busy, Q)
    BY <1>1, <1>3, <1>13, InUseKept
  <2> HIDE DEF m, Q, idle, R, V
  <2>7. x \in ExecType /\ x.m = m /\ x.retained = Q /\ x.idle = idle
    BY <2>3, <2>4, <2>5 DEF ExecType
  <2> HIDE DEF x
  <2>8. Live(recs) \subseteq live /\ kept \subseteq Live(recs)
    <3>1. Ids(done.views) = Ids(sub.views)
      BY <1>8 DEF Alike, Ids
    <3> QED BY <1>3, <1>5, <2>2, <3>1
  <2>9. x \in Executions(l, lost, kept, busy, live)
    BY <2>0, <2>3, <2>5, <2>6, <2>7, <2>8 DEF Executions
  <2> QED BY <2>1, <2>9
<1>14. CASE e.ok /\ sub.done /\ ~done.ok
  <2> DEFINE x == [e EXCEPT !.m = done.m, !.retained = R, !.ok = FALSE]
  <2>1. ReclaimSlot(e, k) = x
    BY <1>1, <1>14 DEF ReclaimSlot, done, ExecType, now
  <2>2. BackingsApart(R, l, e.idle)
    BY <1>1, <1>3, <1>8, <1>9, BackingKept
  <2>0. InUse(busy, R)
    BY <1>1, <1>3, <1>14, InUseKept
  <2> HIDE DEF R, V
  <2>3. x \in ExecType /\ x.m = done.m /\ x.retained = R /\ x.idle = e.idle
    BY <1>1, <1>7, <1>10 DEF ExecType
  <2> HIDE DEF x
  <2>4. x \in Executions(l, lost, kept, busy, live)
    BY <1>3, <1>8, <1>11, <2>0, <2>2, <2>3 DEF Executions
  <2> QED BY <2>1, <2>4
<1> QED BY <1>12, <1>13, <1>14

\* ReclaimCompletedLocked, as far as it gets.
LEMMA ReclaimedStep ==
  ASSUME NEW l \in LeaseType, NEW lost, NEW kept, NEW busy, NEW live,
         Executor \in Executions(l, lost, kept, busy, live),
         NEW stop \in 1 .. (MaxRetained + 1)
  PROVE  Reclaimed(stop) \in Executions(l, lost, kept, busy, live)
<1> DEFINE S == Executions(l, lost, kept, busy, live)
           s == Executor
           n == stop - 1
           Body(f) == [k \in 0 .. n |-> IF k = 0 THEN s ELSE ReclaimSlot(f[k - 1], k)]
           step == [x \in (1 .. n) \X S |-> ReclaimSlot(x[2], x[1])]
           after == CHOOSE f : f = Body(f)
           last == after[n]
<1>1. s \in S /\ n \in Nat
  BY ConstantsTyped
<1>2. ASSUME NEW t \in S, NEW k \in 1 .. n PROVE ReclaimSlot(t, k) \in S
  <2>1. k \in Slots
    BY ConstantsTyped DEF Slots
  <2> QED BY <2>1, ReclaimSlotStep
<1>3. Reclaimed(stop) = [last EXCEPT !.ok = @ /\ stop > MaxRetained]
  BY DEF Reclaimed
<1> HIDE DEF S, n, s
<1>4. step \in [(1 .. n) \X S -> S]
  <2>1. \A x \in (1 .. n) \X S : x[1] \in 1 .. n /\ x[2] \in S
    OBVIOUS
  <2> QED BY <1>2, <2>1
<1>5. PICK f \in [0 .. n -> S] : Chain(f, s, step, n)
  <2> HIDE DEF step
  <2> QED BY <1>1, <1>4, ChainExists
<1>6. f = Body(f)
  <2>1. ASSUME NEW k \in 1 .. n PROVE f[k] = ReclaimSlot(f[k - 1], k)
    <3>1. k - 1 \in 0 .. n
      BY <1>1
    <3>2. <<k, f[k - 1]>> \in (1 .. n) \X S
      BY <1>5, <3>1
    <3>3. f[k] = step[<<k, f[k - 1]>>]
      BY <1>5 DEF Chain
    <3> QED BY <3>2, <3>3
  <2>2. f[0] = s
    BY <1>5 DEF Chain
  <2> HIDE DEF step
  <2> QED BY <1>1, <1>5, <2>1, <2>2
<1>7. after = Body(after)
  <2> HIDE DEF Body
  <2> QED BY <1>6
<1> HIDE DEF after
<1>8. after[0] = s /\ \A k \in 1 .. n : after[k] = ReclaimSlot(after[k - 1], k)
  <2>1. 0 \in 0 .. n /\ \A k \in 1 .. n : k \in 0 .. n /\ k # 0
    BY <1>1
  <2> QED BY <1>7, <2>1
<1>9. \A k \in 0 .. n : after[k] \in S
  BY <1>1, <1>2, <1>8, ChainStays
<1>10. last \in Executions(l, lost, kept, busy, live)
  BY <1>1, <1>9 DEF S
<1> DEFINE b == last.ok /\ stop > MaxRetained
           x == [last EXCEPT !.ok = b]
<1> HIDE DEF last
<1>11. b \in BOOLEAN
  OBVIOUS
<1>12. Reclaimed(stop) = x
  BY <1>3
<1> HIDE DEF b
<1>13. x \in ExecType /\ x.m = last.m /\ x.retained = last.retained /\ x.idle = last.idle
  BY <1>10, <1>11 DEF Executions, ExecType
<1> HIDE DEF x
<1>14. x \in Executions(l, lost, kept, busy, live)
  BY <1>10, <1>13 DEF Executions
<1> QED BY <1>12, <1>14

-----------------------------------------------------------------------------
(* From the state to the executor and back.                                *)

LEMMA ExecutorAccounted ==
  ASSUME LeaseInv
  PROVE  /\ Now \in MemType /\ Now.records = records
         /\ Executor \in Executions(lease, lost_dirty, orphans, executing, Live(records))
         /\ Executor.m = Now /\ Executor.retained = retained
         /\ Executor.idle = idle_backings
<1>1. Now \in MemType /\ Now.records = records
  BY DEF LeaseInv, TypeOK, SpaceTypeOK, RecordTypeOK, Now, MemType
<1>2. /\ Executor \in ExecType /\ Executor.m = Now /\ Executor.retained = retained
      /\ Executor.idle = idle_backings
  BY <1>1 DEF LeaseInv, TypeOK, Executor, ExecType
<1>3. Executor \in Executions(lease, lost_dirty, orphans, executing, Live(records))
  BY <1>1, <1>2 DEF Executions, LeaseInv
<1> QED BY <1>1, <1>2, <1>3

\* What a step of the host does to memory and to the executor.
HostStep(e) ==
  /\ ExecutorBecomes(e)
  /\ UNCHANGED <<lost_dirty, device_lost>>
  /\ Elsewhere

\* A step of the host that leaves the executor accounted for keeps the invariant,
\* if the lease in hand fits where the host thread is then.
LEMMA HostStepKeeps ==
  ASSUME LeaseInv, NEW l \in LeaseType, NEW kept \in SUBSET Resources,
         NEW busy \in SUBSET Backings, NEW live,
         NEW e \in Executions(l, lost_dirty, kept, busy, live), HostStep(e),
         lease' = l, orphans' = kept, executing' = busy,
         next_resource_id' \in 1..(MaxResource + 1), \A r \in live : r < next_resource_id',
         host' \in HostType, HostConsistent'
  PROVE  LeaseInv'
<1>1. /\ e.m \in MemType /\ e.retained \in [Slots -> LeaseType]
      /\ e.idle \in SUBSET Backings
      /\ Owned(Live(e.m.records) \ kept, Announced(e.m.records), Views(l, e.retained),
               lost_dirty)
      /\ kept \subseteq Live(e.m.records) /\ Live(e.m.records) \subseteq live
      /\ BackingsApart(e.retained, l, e.idle) /\ InUse(busy, e.retained)
  BY DEF Executions, ExecType
<1>2. /\ records' = e.m.records /\ bytes' = e.m.bytes
      /\ write_generation' = e.m.generation /\ write_generation_exhausted' = e.m.exhausted
      /\ retained' = e.retained /\ idle_backings' = e.idle
      /\ lost_dirty' = lost_dirty /\ device_lost' = device_lost
      /\ identity' = identity /\ protection' = protection /\ location' = location
      /\ next_mapping_generation' = next_mapping_generation
      /\ mapping_generation_exhausted' = mapping_generation_exhausted
      /\ reported' = reported
  BY DEF HostStep, ExecutorBecomes, Become, Elsewhere
<1>3. SpaceTypeOK'
  <2>1. bytes' \in [Locations -> Values]
    BY <1>1, <1>2 DEF MemType
  <2> QED BY <1>2, <2>1 DEF LeaseInv, TypeOK, SpaceTypeOK
<1>4. RecordTypeOK'
  BY <1>1, <1>2 DEF LeaseInv, TypeOK, RecordTypeOK, MemType
<1>5. TypeOK'
  <2>1. /\ lost_dirty' \in SUBSET Resources /\ device_lost' \in BOOLEAN
        /\ lease' \in LeaseType /\ retained' \in [Slots -> LeaseType]
        /\ idle_backings' \in SUBSET Backings
        /\ orphans' \in SUBSET Resources /\ executing' \in SUBSET Backings
    BY <1>1, <1>2 DEF LeaseInv, TypeOK
  <2> QED BY <1>3, <1>4, <2>1 DEF TypeOK
<1>6. Owned(Live(records) \ orphans, Announced(records), Views(lease, retained), lost_dirty)'
  <2>1. /\ Live(records)' = Live(e.m.records) /\ Announced(records)' = Announced(e.m.records)
        /\ Views(lease, retained)' = Views(l, e.retained)
    BY <1>2 DEF Live, Announced, Views
  <2>2. Owned(Live(records) \ orphans, Announced(records), Views(lease, retained),
              lost_dirty)' <=>
          Owned(Live(e.m.records) \ kept, Announced(e.m.records), Views(l, e.retained),
                lost_dirty)
    BY <1>2, <2>1 DEF Owned, Apart
  <2> QED BY <1>1, <2>2
<1>7. (\A r \in Live(records) : r < next_resource_id)' /\ orphans' \subseteq Live(records)'
  <2>1. Live(records)' = Live(e.m.records)
    BY <1>2 DEF Live
  <2> QED BY <1>1, <2>1
<1>8. BackingsApart(retained, lease, idle_backings)' /\ InUse(executing, retained)'
  BY <1>1, <1>2 DEF BackingsApart, InUse
<1> QED BY <1>5, <1>6, <1>7, <1>8 DEF LeaseInv

\* The same for a step that uses up no id and adds nothing to the history.
LEMMA HostStepStays ==
  ASSUME LeaseInv, NEW l \in LeaseType,
         NEW e \in Executions(l, lost_dirty, orphans, executing, Live(records)), HostStep(e),
         lease' = l, UNCHANGED <<next_resource_id, history>>,
         host' \in HostType, HostConsistent'
  PROVE  LeaseInv'
<1>1. orphans' = orphans /\ executing' = executing /\ next_resource_id' = next_resource_id
  BY DEF history
<1>2. /\ orphans \in SUBSET Resources /\ executing \in SUBSET Backings
      /\ next_resource_id \in 1..(MaxResource + 1)
      /\ \A r \in Live(records) : r < next_resource_id
  BY DEF LeaseInv, TypeOK, RecordTypeOK
<1> QED BY <1>1, <1>2, HostStepKeeps

\* The lease in hand goes.
LEMMA LeaseDropped ==
  ASSUME NEW l \in LeaseType, Unseen(l), NEW lost, NEW kept, NEW busy, NEW live,
         NEW e \in Executions(l, lost, kept, busy, live), NEW gone \in BOOLEAN
  PROVE  [e EXCEPT !.m.records = Unregister(@, ToSet(l.views), gone),
                   !.idle = IdleAfter(@, l.backing, l.views, gone)]
           \in Executions(NoLease, lost, kept, busy, live)
<1> DEFINE recs == Unregister(e.m.records, ToSet(l.views), gone)
           m == [e.m EXCEPT !.records = recs]
           x == [e EXCEPT !.m = m]
           V == Views(l, e.retained)
           X == Views(NoLease, e.retained)
<1>1. /\ e \in ExecType /\ e.m \in MemType /\ e.m.records \in [Resources -> RecordType]
      /\ Owned(Live(e.m.records) \ kept, Announced(e.m.records), V, lost)
      /\ kept \subseteq Live(e.m.records) /\ Live(e.m.records) \subseteq live
      /\ BackingsApart(e.retained, l, e.idle) /\ InUse(busy, e.retained)
      /\ e.idle \in SUBSET Backings
  BY DEF Executions, ExecType, MemType
<1>2. IdleAfter(e.idle, l.backing, l.views, gone) = e.idle
  <2>1. ~Reusable(l.views)
    BY DEF Reusable, Unseen
  <2> QED BY <2>1 DEF IdleAfter
<1>3. [e EXCEPT !.m.records = Unregister(@, ToSet(l.views), gone),
                !.idle = IdleAfter(@, l.backing, l.views, gone)] = x
  BY <1>1, <1>2 DEF ExecType
<1>4. Registered(ToSet(l.views)) = Ids(l.views) /\ Lost(ToSet(l.views), gone) = {}
  <2>1. \A v \in ToSet(l.views) : ~v.dirty
    BY DEF ToSet, Unseen, Announces
  <2>2. Lost(ToSet(l.views), gone) = {}
    BY <2>1 DEF Lost
  <2> QED BY <2>2, ToSetIds
<1>5. /\ recs \in [Resources -> RecordType]
      /\ Live(recs) = Live(e.m.records) \ Ids(l.views)
      /\ Announced(recs) = Announced(e.m.records) \ Ids(l.views)
  <2> DEFINE W == ToSet(l.views)
  <2> HIDE DEF W
  <2>1. /\ Unregister(e.m.records, W, gone) \in [Resources -> RecordType]
        /\ Live(Unregister(e.m.records, W, gone)) =
             Live(e.m.records) \ (Registered(W) \ Lost(W, gone))
        /\ Announced(Unregister(e.m.records, W, gone)) =
             Announced(e.m.records) \ (Registered(W) \ Lost(W, gone))
    BY <1>1, UnregisterFlags
  <2> QED BY <1>4, <2>1 DEF W
<1> HIDE DEF recs
<1>6. m \in MemType /\ m.records = recs
  BY <1>1, <1>5 DEF MemType
<1>7. Owned(Live(recs) \ kept, Announced(recs), X, lost) /\ kept \subseteq Live(recs)
  <2>1. 0 \in Holders /\ V[0] = l.views /\ DOMAIN X[0] = {} /\ OthersStay(V, X, 0)
    BY NoLeaseTyped, SlotsAreHolders DEF Views, OthersStay
  <2> HIDE DEF V, X
  <2>2. Owned((Live(e.m.records) \ kept) \ Ids(V[0]), Announced(e.m.records) \ Ids(V[0]),
              X, lost)
    BY <1>1, <2>1, DropViews
  <2>3. Ids(V[0]) \cap kept = {}
    BY <1>1, <2>1, OwnedHolder
  <2>4. (Live(e.m.records) \ kept) \ Ids(V[0]) = Live(recs) \ kept
    BY <1>5, <2>1
  <2> QED BY <1>1, <1>5, <2>1, <2>2, <2>3, <2>4
<1>8. BackingsApart(e.retained, NoLease, e.idle)
  <2>1. 0 \notin e.idle
    BY <1>1 DEF Backings
  <2> QED BY <1>1, <2>1, NoLeaseTyped DEF BackingsApart
<1> HIDE DEF m
<1>9. x \in ExecType /\ x.m = m /\ x.retained = e.retained /\ x.idle = e.idle
  BY <1>1, <1>6 DEF ExecType
<1> HIDE DEF x
<1>10. Live(recs) \subseteq live
  BY <1>1, <1>5
<1>11. x \in Executions(NoLease, lost, kept, busy, live)
  BY <1>1, <1>6, <1>7, <1>8, <1>9, <1>10 DEF Executions
<1> QED BY <1>3, <1>11

\* Where the host is when it has nothing in hand.
LEMMA HostIdle ==
  ASSUME host' = Idle, lease' = NoLease
  PROVE  host' \in HostType /\ HostConsistent'
<1>1. Idle \in HostType /\ Idle.at = "idle"
  <2>1. 0 \in 0..MaxRetained /\ 0 \in Nat /\ <<>> \in Seq(BindingType)
    BY ConstantsTyped
  <2> QED BY <2>1 DEF Idle, HostType
<1>2. host'.at = "idle" /\ DOMAIN lease'.views = {} /\ ~lease'.done
  BY <1>1, NoLeaseTyped
<1> QED BY <1>1, <1>2 DEF HostConsistent, Unseen

\* The lease in hand goes, where x is what the executor and the caches are by then.
LEMMA DropLeaseFromKeeps ==
  ASSUME LeaseInv, NEW recs, NEW idle, DropLeaseFrom(recs, idle),
         NEW kept \in SUBSET Resources, NEW live,
         NEW x \in Executions(lease, lost_dirty, kept, executing, live),
         x.m = [Now EXCEPT !.records = recs], x.retained = retained, x.idle = idle,
         orphans' = kept, next_resource_id' \in 1..(MaxResource + 1),
         \A r \in live : r < next_resource_id'
  PROVE  LeaseInv'
<1> DEFINE e == [x EXCEPT !.m.records = Unregister(@, ToSet(lease.views), device_lost),
                          !.idle = IdleAfter(@, lease.backing, lease.views, device_lost)]
<1>1. /\ lease \in LeaseType /\ device_lost \in BOOLEAN /\ Unseen(lease)
      /\ executing \in SUBSET Backings
  BY DEF LeaseInv, TypeOK, HostConsistent
<1>2. e \in Executions(NoLease, lost_dirty, kept, executing, live)
  BY <1>1, LeaseDropped
<1>3. /\ e.m = [Now EXCEPT !.records = Unregister(recs, ToSet(lease.views), device_lost)]
      /\ e.retained = retained
      /\ e.idle = IdleAfter(idle, lease.backing, lease.views, device_lost)
  <2>1. x \in ExecType
    BY DEF Executions
  <2> QED BY <2>1 DEF Now, ExecType
<1> HIDE DEF e
<1>4. HostStep(e) /\ executing' = executing /\ lease' = NoLease /\ host' = Idle
  BY <1>3 DEF HostStep, ExecutorBecomes, Become, DropLeaseFrom, NoMemory, Now
<1>5. host' \in HostType /\ HostConsistent'
  BY <1>4, HostIdle
<1> QED BY <1>1, <1>2, <1>4, <1>5, NoLeaseTyped, HostStepKeeps

LEMMA DropLeaseKeeps ==
  ASSUME LeaseInv, DropLease
  PROVE  LeaseInv'
<1>1. DropLeaseFrom(records, idle_backings) /\ UNCHANGED <<next_resource_id, orphans>>
  BY DEF DropLease
<1>2. /\ orphans \in SUBSET Resources /\ next_resource_id \in 1..(MaxResource + 1)
      /\ \A r \in Live(records) : r < next_resource_id
  BY DEF LeaseInv, TypeOK, RecordTypeOK
<1>3. /\ Executor \in Executions(lease, lost_dirty, orphans, executing, Live(records))
      /\ Executor.m = [Now EXCEPT !.records = records] /\ Executor.retained = retained
      /\ Executor.idle = idle_backings
  BY ExecutorAccounted DEF Now
<1> QED BY <1>1, <1>2, <1>3, DropLeaseFromKeeps

-----------------------------------------------------------------------------
(* The actions of the executor.                                            *)

LEMMA StopsTyped == LeaseInv => Stops \subseteq 1 .. (MaxRetained + 1)
BY ConstantsTyped DEF Stops, Slots

LEMMA PollKeeps ==
  ASSUME LeaseInv, NEW stop \in Stops, Poll(stop)
  PROVE  LeaseInv'
<1> DEFINE e == Reclaimed(stop)
<1>1. lease \in LeaseType /\ host \in HostType /\ HostConsistent
  BY DEF LeaseInv, TypeOK
<1>2. e \in Executions(lease, lost_dirty, orphans, executing, Live(records))
  BY <1>1, StopsTyped, ExecutorAccounted, ReclaimedStep
<1>3. /\ HostStep(e) /\ host' = host /\ lease' = lease /\ host.at = "idle"
      /\ UNCHANGED <<next_resource_id, history>>
  BY DEF Poll, HostStep, HostAt
<1> HIDE DEF e
<1>4. host' \in HostType /\ HostConsistent'
  BY <1>1, <1>3 DEF HostConsistent, HasBuffers
<1> QED BY <1>1, <1>2, <1>3, <1>4, HostStepStays

LEMMA SubmitReclaimsKeeps ==
  ASSUME LeaseInv, NEW stop \in Stops, SubmitReclaims(stop)
  PROVE  LeaseInv'
<1> DEFINE e == Reclaimed(stop)
<1>1. lease \in LeaseType /\ host \in HostType /\ HostConsistent
  BY DEF LeaseInv, TypeOK
<1>2. e \in Executions(lease, lost_dirty, orphans, executing, Live(records))
  BY <1>1, StopsTyped, ExecutorAccounted, ReclaimedStep
<1>3. /\ HostAt("images") /\ Admit(e) /\ Elsewhere
      /\ UNCHANGED <<lost_dirty, device_lost, next_resource_id, history>>
  BY DEF SubmitReclaims, Prepared
<1> HIDE DEF e
<1>4. CASE ExecutorBecomes(e) /\ host' = [Idle EXCEPT !.at = "ready"] /\ lease' = lease
  <2>1. 0 \in 0..MaxRetained /\ 0 \in Nat /\ <<>> \in Seq(BindingType)
    BY ConstantsTyped
  <2>2. host' \in HostType /\ host'.at = "ready"
    BY <1>4, <2>1 DEF Idle, HostType
  <2>3. HostConsistent'
    BY <1>1, <1>3, <1>4, <2>2 DEF HostConsistent, HasBuffers, HostAt
  <2> QED BY <1>1, <1>2, <1>3, <1>4, <2>2, <2>3, HostStepStays DEF HostStep
<1>5. CASE /\ host' = Idle /\ lease' = NoLease
           /\ ExecutorBecomes([e EXCEPT
                !.m.records = Unregister(@, ToSet(lease.views), FALSE),
                !.idle = IdleAfter(@, lease.backing, lease.views, FALSE)])
  <2> DEFINE x == [e EXCEPT !.m.records = Unregister(@, ToSet(lease.views), FALSE),
                            !.idle = IdleAfter(@, lease.backing, lease.views, FALSE)]
  <2>1. x \in Executions(NoLease, lost_dirty, orphans, executing, Live(records))
    <3>1. Unseen(lease)
      BY <1>1 DEF HostConsistent
    <3> QED BY <1>1, <1>2, <3>1, LeaseDropped
  <2>2. HostStep(x)
    BY <1>3, <1>5 DEF HostStep
  <2> HIDE DEF x
  <2> QED BY <1>3, <1>5, <2>1, <2>2, NoLeaseTyped, HostIdle, HostStepStays
<1> QED BY <1>3, <1>4, <1>5 DEF Admit

LEMMA WaitSucceedsKeeps ==
  ASSUME LeaseInv, WaitSucceeds
  PROVE  LeaseInv'
<1> DEFINE e == ReclaimSlot(Executor, host.slot)
<1>1. lease \in LeaseType /\ lease = NoLease /\ host.slot \in Slots
  BY DEF LeaseInv, TypeOK, HostConsistent, WaitSucceeds, HostAt
<1>2. e \in Executions(lease, lost_dirty, orphans, executing, Live(records))
  BY <1>1, ExecutorAccounted, ReclaimSlotStep
<1>3. /\ HostStep(e) /\ host' = Idle /\ lease' = lease
      /\ UNCHANGED <<next_resource_id, history>>
  BY DEF WaitSucceeds, HostStep
<1> HIDE DEF e
<1> QED BY <1>1, <1>2, <1>3, HostIdle, HostStepStays

LEMMA WaitTimesOutKeeps ==
  ASSUME LeaseInv, WaitTimesOut
  PROVE  LeaseInv'
<1>1. lease \in LeaseType /\ lease = NoLease
  BY DEF LeaseInv, TypeOK, HostConsistent, WaitTimesOut, HostAt
<1>2. Executor \in Executions(lease, lost_dirty, orphans, executing, Live(records))
  BY ExecutorAccounted
<1>3. /\ HostStep(Executor) /\ host' = Idle /\ lease' = lease
      /\ UNCHANGED <<next_resource_id, history>>
  BY ExecutorAccounted DEF WaitTimesOut, HostStep, ExecutorBecomes, Become, Now, Elsewhere,
     spaceVars, recordVars
<1> QED BY <1>1, <1>2, <1>3, HostIdle, HostStepStays

\* The queue takes the lease in hand, which goes to a free slot.
LEMMA SubmitKeeps ==
  ASSUME LeaseInv, Submit
  PROVE  LeaseInv'
<1> DEFINE V == Views(lease, retained)
           busy == executing \cup ({lease.backing} \ {0})
<1>1. /\ lease \in LeaseType /\ retained \in [Slots -> LeaseType]
      /\ idle_backings \in SUBSET Backings /\ executing \in SUBSET Backings
      /\ orphans \in SUBSET Resources /\ next_resource_id \in 1..(MaxResource + 1)
      /\ Owned(Live(records) \ orphans, Announced(records), V, lost_dirty)
      /\ orphans \subseteq Live(records)
      /\ \A r \in Live(records) : r < next_resource_id
      /\ BackingsApart(retained, lease, idle_backings) /\ InUse(executing, retained)
      /\ HostConsistent /\ Now \in MemType /\ Now.records = records
  BY ExecutorAccounted DEF LeaseInv, TypeOK, RecordTypeOK
<1>2. PICK s \in Slots :
        /\ retained[s] = NoLease
        /\ retained' = [retained EXCEPT ![s] = lease]
        /\ host' = [Idle EXCEPT !.at = "mark", !.slot = s, !.view = 1]
  BY DEF Submit
<1>3. /\ HostAt("ready") /\ lease' = NoLease /\ executing' = busy
      /\ UNCHANGED <<idle_backings, lost_dirty, device_lost, orphans>>
      /\ UNCHANGED recordVars /\ UNCHANGED spaceVars
  BY DEF Submit
<1> DEFINE R == [retained EXCEPT ![s] = lease]
           Y == Views(NoLease, R)
           e == [m |-> Now, retained |-> R, idle |-> idle_backings, ok |-> TRUE]
<1>4. R \in [Slots -> LeaseType] /\ R[s] = lease /\ \A t \in Slots : t # s => R[t] = retained[t]
  BY <1>1
<1> HIDE DEF R
<1>5. Owned(Live(records) \ orphans, Announced(records), Y, lost_dirty)
  <2>1. /\ 0 \in Holders /\ s \in Holders /\ s # 0
        /\ DOMAIN V[s] = {} /\ Y[s] = V[0] /\ DOMAIN Y[0] = {}
    BY <1>2, <1>4, NoLeaseTyped, SlotsAreHolders DEF Views
  <2>2. \A o \in Holders : o # 0 /\ o # s => Y[o] = V[o]
    BY <1>4, SlotsAreHolders DEF Views
  <2> HIDE DEF V, Y
  <2> QED BY <1>1, <2>1, <2>2, MoveViews
<1>6. BackingsApart(R, NoLease, idle_backings)
  <2>1. HasBuffers => lease.backing # 0
    BY <1>1, <1>3 DEF HostConsistent, HostAt
  <2>2. (\E i \in DOMAIN R[s].views : ~R[s].views[i].image) => R[s].backing # 0
    BY <1>4, <2>1 DEF HasBuffers
  <2>3. 0 \notin idle_backings
    BY <1>1 DEF Backings
  <2>4. ASSUME NEW t \in Slots
        PROVE  /\ R[t].backing \notin idle_backings
               /\ (\E i \in DOMAIN R[t].views : ~R[t].views[i].image) => R[t].backing # 0
               /\ R[t].backing # 0 => \A u \in Slots : u # t => R[u].backing # R[t].backing
    <3>1. CASE t = s
      BY <1>1, <1>4, <2>2, <3>1 DEF BackingsApart
    <3>2. CASE t # s
      BY <1>1, <1>4, <3>2 DEF BackingsApart
    <3> QED BY <3>1, <3>2
  <2> QED BY <2>3, <2>4, NoLeaseTyped DEF BackingsApart
<1>7. InUse(busy, R) /\ busy \in SUBSET Backings
  <2>1. ASSUME NEW b \in executing PROVE \E t \in Slots : R[t].backing = b /\ ~R[t].done
    <3>1. PICK t \in Slots : retained[t].backing = b /\ ~retained[t].done
      BY <1>1 DEF InUse
    <3>2. b # 0
      BY <1>1 DEF Backings
    <3>3. t # s
      BY <1>2, <3>1, <3>2, NoLeaseTyped
    <3> QED BY <1>4, <3>1, <3>3
  <2>2. ~R[s].done /\ R[s].backing = lease.backing
    BY <1>1, <1>4 DEF HostConsistent, Unseen
  <2>3. lease.backing # 0 => lease.backing \in Backings
    BY <1>1, ConstantsTyped DEF LeaseType, Backings
  <2> QED BY <1>1, <2>1, <2>2, <2>3 DEF InUse
<1> HIDE DEF Y, V
<1>8. e \in ExecType /\ e.m = Now /\ e.retained = R /\ e.idle = idle_backings
  BY <1>1, <1>4 DEF ExecType
<1> HIDE DEF e, busy
<1>9. e \in Executions(NoLease, lost_dirty, orphans, busy, Live(records))
  BY <1>1, <1>5, <1>6, <1>7, <1>8 DEF Executions, Y
<1>10. HostStep(e)
  BY <1>2, <1>3, <1>8 DEF HostStep, ExecutorBecomes, Become, Now, Elsewhere, spaceVars,
     recordVars, R
<1>11. host' \in HostType /\ HostConsistent'
  <2>1. s \in 0..MaxRetained /\ <<>> \in Seq(BindingType) /\ 1 \in Nat
    BY ConstantsTyped DEF Slots
  <2>2. host' \in HostType /\ host'.at = "mark" /\ host'.slot = s /\ host'.view = 1
    BY <1>2, <2>1 DEF Idle, HostType
  <2>3. DOMAIN lease'.views = {} /\ ~lease'.done
    BY <1>3, NoLeaseTyped
  <2>4. MarkedBefore(retained'[s].views, 1)
    <3>1. retained'[s].views \in Seq(ViewType)
      BY <1>2, <1>4 DEF R, LeaseType
    <3>2. \A j \in DOMAIN retained'[s].views : ~(j < 1)
      BY <3>1
    <3> QED BY <3>2 DEF MarkedBefore
  <2>5. Unseen(lease')
    BY <2>3 DEF Unseen
  <2> QED BY <1>2, <1>3, <2>2, <2>4, <2>5 DEF HostConsistent
<1>12. next_resource_id' = next_resource_id /\ orphans' = orphans
  BY <1>3 DEF recordVars
<1> QED BY <1>1, <1>3, <1>7, <1>9, <1>10, <1>11, <1>12, NoLeaseTyped, HostStepKeeps

-----------------------------------------------------------------------------
(* Marking.                                                                *)

\* A submission's views change, with or without their announcements.
LEMMA SlotChanges ==
  ASSUME LeaseInv, NEW k \in Slots, NEW sub \in LeaseType,
         sub.backing = retained[k].backing, Alike(retained[k].views, sub.views),
         NEW m \in MemType, Live(m.records) = Live(records),
         Announced(m.records) \ Ids(retained[k].views) =
           Announced(records) \ Ids(retained[k].views),
         Exact(Announced(m.records), sub.views),
         NEW busy \in SUBSET Backings, InUse(busy, [retained EXCEPT ![k] = sub]),
         Become(m), retained' = [retained EXCEPT ![k] = sub], executing' = busy,
         UNCHANGED <<lease, idle_backings, lost_dirty, device_lost, orphans,
                     next_resource_id>>,
         Elsewhere, host' \in HostType, HostConsistent'
  PROVE  LeaseInv'
<1> DEFINE V == Views(lease, retained)
           W == retained[k].views
           R == [retained EXCEPT ![k] = sub]
           X == Views(lease, R)
           e == [m |-> m, retained |-> R, idle |-> idle_backings, ok |-> TRUE]
<1>1. /\ lease \in LeaseType /\ retained \in [Slots -> LeaseType]
      /\ idle_backings \in SUBSET Backings /\ orphans \in SUBSET Resources
      /\ next_resource_id \in 1..(MaxResource + 1)
      /\ Owned(Live(records) \ orphans, Announced(records), V, lost_dirty)
      /\ orphans \subseteq Live(records)
      /\ \A r \in Live(records) : r < next_resource_id
      /\ BackingsApart(retained, lease, idle_backings)
  BY DEF LeaseInv, TypeOK, RecordTypeOK
<1>2. R \in [Slots -> LeaseType] /\ R[k] = sub /\ \A t \in Slots : t # k => R[t] = retained[t]
  BY <1>1
<1>3. BackingsApart(R, lease, idle_backings)
  BY <1>1, BackingKept
<1>4. InUse(busy, R) /\ retained' = R
  OBVIOUS
<1> HIDE DEF R
<1>5. Owned(Live(records) \ orphans, Announced(m.records), X, lost_dirty)
  <2>1. X[k] = sub.views /\ OthersStay(V, X, k) /\ V[k] = W /\ k \in Holders
    BY <1>2, SlotsAreHolders DEF Views, OthersStay
  <2> HIDE DEF V, X
  <2> QED BY <1>1, <2>1, ReplaceViews
<1>6. e \in ExecType /\ e.m = m /\ e.retained = R /\ e.idle = idle_backings
  BY <1>1, <1>2 DEF ExecType
<1> HIDE DEF e, V
<1>7. e \in Executions(lease, lost_dirty, orphans, busy, Live(records))
  BY <1>1, <1>3, <1>4, <1>5, <1>6 DEF Executions
<1>8. HostStep(e) /\ lease' = lease /\ next_resource_id' = next_resource_id
      /\ orphans' = orphans
  BY <1>4, <1>6 DEF HostStep, ExecutorBecomes
<1> QED BY <1>1, <1>7, <1>8, HostStepKeeps

\* What MarkSubmitted does to the list of views when it marks one.
LEMMA MarkedViews ==
  ASSUME NEW W \in Seq(ViewType), NEW i \in DOMAIN W
  PROVE  /\ Marked(W, i) \in Seq(ViewType) /\ Alike(W, Marked(W, i))
         /\ \A j \in DOMAIN W :
              /\ Marked(W, i)[j].writes = W[j].writes
              /\ Marked(W, i)[j].stuck <=> W[j].stuck
              /\ Marked(W, i)[j].dirty <=> W[j].dirty \/ (j = i /\ W[j].writes)
<1> DEFINE v == [W[i] EXCEPT !.dirty = @ \/ W[i].writes]
           marked == [W EXCEPT ![i] = v]
           pend == [marked EXCEPT ![i].lifecycle = "pending"]
           all == WithLifecycle(marked, FALSE, "pending")
           Good(U) == /\ U \in Seq(ViewType) /\ Alike(W, U)
                      /\ \A j \in DOMAIN W :
                           /\ U[j].writes = W[j].writes
                           /\ U[j].stuck <=> W[j].stuck
                           /\ U[j].dirty <=> W[j].dirty \/ (j = i /\ W[j].writes)
<1>1. DOMAIN W = 1 .. Len(W) /\ Len(W) \in Nat /\ W[i] \in ViewType
  OBVIOUS
<1>2. /\ v \in ViewType /\ v.resource = W[i].resource /\ v.image = W[i].image
      /\ v.writes = W[i].writes /\ (v.stuck <=> W[i].stuck)
      /\ (v.dirty <=> W[i].dirty \/ W[i].writes)
  BY <1>1 DEF ViewType
<1>3. Marked(W, i) \in {marked, pend, all}
  BY DEF Marked
<1> HIDE DEF v
<1>4. DOMAIN marked = DOMAIN W /\ marked[i] = v /\ \A j \in DOMAIN W : j # i => marked[j] = W[j]
  OBVIOUS
<1>5. marked \in Seq(ViewType)
  BY <1>2
<1> HIDE DEF marked
<1>6. ASSUME NEW j \in DOMAIN W
      PROVE  /\ marked[j] \in ViewType /\ marked[j].resource = W[j].resource
             /\ marked[j].image = W[j].image /\ marked[j].writes = W[j].writes
             /\ marked[j].stuck <=> W[j].stuck
             /\ marked[j].dirty <=> W[j].dirty \/ (j = i /\ W[j].writes)
  <2>1. CASE j = i
    BY <1>2, <1>4, <2>1
  <2>2. CASE j # i
    <3>1. marked[j] = W[j] /\ W[j] \in ViewType
      BY <1>4, <2>2
    <3> QED BY <2>2, <3>1
  <2> QED BY <2>1, <2>2
<1>7. ASSUME NEW U, DOMAIN U = DOMAIN W, U = [j \in DOMAIN W |-> U[j]],
             \A j \in DOMAIN W :
               U[j] = marked[j] \/ U[j] = [marked[j] EXCEPT !.lifecycle = "pending"]
      PROVE  Good(U)
  <2>1. ASSUME NEW j \in DOMAIN W
        PROVE  /\ U[j] \in ViewType /\ U[j].resource = marked[j].resource
               /\ U[j].image = marked[j].image /\ U[j].writes = marked[j].writes
               /\ (U[j].stuck <=> marked[j].stuck) /\ (U[j].dirty <=> marked[j].dirty)
    <3>1. marked[j] \in ViewType
      BY <1>6
    <3>2. CASE U[j] = marked[j]
      BY <3>1, <3>2
    <3>3. CASE U[j] = [marked[j] EXCEPT !.lifecycle = "pending"]
      BY <3>1, <3>3 DEF ViewType
    <3> QED BY <1>7, <3>2, <3>3
  <2>2. U \in Seq(ViewType)
    BY <1>1, <1>7, <2>1
  <2>3. Alike(W, U)
    BY <1>6, <1>7, <2>1 DEF Alike
  <2> QED BY <1>6, <2>1, <2>2, <2>3
<1>8. Good(marked)
  <2>1. marked = [j \in DOMAIN W |-> marked[j]]
    BY <1>1, <1>4, <1>5
  <2> QED BY <1>4, <1>7, <2>1
<1>9. Good(pend)
  <2>1. pend = [j \in DOMAIN W |-> pend[j]] /\ DOMAIN pend = DOMAIN W
    BY <1>4, <1>5
  <2>2. \A j \in DOMAIN W : pend[j] = marked[j]
                            \/ pend[j] = [marked[j] EXCEPT !.lifecycle = "pending"]
    BY <1>4
  <2> HIDE DEF pend, Good
  <2> QED BY <1>7, <2>1, <2>2
<1>10. Good(all)
  <2>1. all = [j \in DOMAIN W |-> all[j]] /\ DOMAIN all = DOMAIN W
    BY <1>4 DEF WithLifecycle
  <2>2. \A j \in DOMAIN W : all[j] = marked[j]
                            \/ all[j] = [marked[j] EXCEPT !.lifecycle = "pending"]
    BY <1>4 DEF WithLifecycle
  <2> HIDE DEF all, Good
  <2> QED BY <1>7, <2>1, <2>2
<1>11. Good(Marked(W, i))
  <2> HIDE DEF Good, pend, all
  <2> QED BY <1>3, <1>8, <1>9, <1>10
<1> QED BY <1>11

\* The submission whose views the host marks.
LEMMA MarkingSlot ==
  ASSUME LeaseInv, Marking
  PROVE  /\ host.slot \in Slots /\ retained[host.slot] \in LeaseType
         /\ retained[host.slot].views \in Seq(ViewType)
         /\ host.view \in DOMAIN retained[host.slot].views
         /\ Different(retained[host.slot].views)
         /\ Exact(Announced(records), retained[host.slot].views)
         /\ MarkedBefore(retained[host.slot].views, host.view)
         /\ lease = NoLease
<1>1. host.slot \in Slots /\ lease = NoLease /\ host.view \in DOMAIN retained[host.slot].views
      /\ MarkedBefore(retained[host.slot].views, host.view)
  BY DEF LeaseInv, HostConsistent, Marking, HostAt
<1>2. retained[host.slot] \in LeaseType /\ retained[host.slot].views \in Seq(ViewType)
  BY <1>1 DEF LeaseInv, TypeOK, LeaseType
<1> DEFINE V == Views(lease, retained)
<1>3. host.slot \in Holders /\ V[host.slot] = retained[host.slot].views
  BY <1>1, SlotsAreHolders DEF Views
<1>4. Owned(Live(records) \ orphans, Announced(records), V, lost_dirty)
  BY DEF LeaseInv
<1> HIDE DEF V
<1>5. Different(V[host.slot]) /\ Exact(Announced(records), V[host.slot])
  BY <1>3, <1>4, OwnedHolder
<1> QED BY <1>1, <1>2, <1>3, <1>5

LEMMA MarkViewKeeps ==
  ASSUME LeaseInv, MarkView
  PROVE  LeaseInv'
<1> DEFINE k == host.slot
           i == host.view
           W == retained[k].views
           U == Marked(W, i)
           r == W[i].resource
           sub == [retained[k] EXCEPT !.views = U]
           m == IF W[i].writes THEN SetPending(Now, r, TRUE) ELSE Now
<1>1. /\ k \in Slots /\ retained[k] \in LeaseType /\ W \in Seq(ViewType) /\ i \in DOMAIN W
      /\ Different(W) /\ Exact(Announced(records), W) /\ MarkedBefore(W, i)
      /\ lease = NoLease
  BY MarkingSlot DEF MarkView
<1>2. /\ U \in Seq(ViewType) /\ Alike(W, U)
      /\ \A j \in DOMAIN W :
           /\ U[j].writes = W[j].writes
           /\ U[j].stuck <=> W[j].stuck
           /\ U[j].dirty <=> W[j].dirty \/ (j = i /\ W[j].writes)
  BY <1>1, MarkedViews
<1>3. W[i] \in ViewType /\ r \in Resources /\ Now \in MemType /\ Now.records = records
  <2>1. W[i] \in ViewType
    <3> HIDE DEF W, i
    <3> QED BY <1>1
  <2>2. r \in Resources
    <3> HIDE DEF W, i
    <3> QED BY <2>1 DEF ViewType
  <2> QED BY <2>1, <2>2, ExecutorAccounted
<1>4. /\ retained' = [retained EXCEPT ![k] = sub]
      /\ host' = IF i < Len(W) THEN [host EXCEPT !.view = @ + 1]
                 ELSE [host EXCEPT !.at = "wait", !.view = 0]
      /\ UNCHANGED <<lease, idle_backings, lost_dirty, device_lost, orphans,
                     next_resource_id, executing>>
      /\ NoMemory /\ Elsewhere
  BY <1>1 DEF MarkView, history, LeaseType
<1>5. Become(m)
  <2>1. records' = IF W[i].writes THEN [records EXCEPT ![r].gpu_write_pending = TRUE]
                   ELSE records
    BY DEF MarkView, MarkedView
  <2>2. CASE W[i].writes
    <3>1. SetPending(Now, r, TRUE).records = [records EXCEPT ![r].gpu_write_pending = TRUE]
          /\ SetPending(Now, r, TRUE).bytes = bytes
          /\ SetPending(Now, r, TRUE).generation = write_generation
          /\ SetPending(Now, r, TRUE).exhausted = write_generation_exhausted
      BY DEF SetPending, Now
    <3> QED BY <1>4, <2>1, <2>2, <3>1 DEF Become, NoMemory
  <2>3. CASE ~W[i].writes
    BY <1>4, <2>1, <2>3 DEF Become, NoMemory, Now
  <2> QED BY <2>2, <2>3
<1> HIDE DEF U
<1>6. /\ m \in MemType /\ Live(m.records) = Live(records)
      /\ Announced(m.records) =
           IF W[i].writes THEN Announced(records) \cup {r} ELSE Announced(records)
  <2>1. /\ SetPending(Now, r, TRUE) \in MemType
        /\ Live(SetPending(Now, r, TRUE).records) = Live(records)
        /\ Announced(SetPending(Now, r, TRUE).records) = Announced(records) \cup {r}
    BY <1>3, SetPendingFlags
  <2> QED BY <1>3, <2>1
<1> HIDE DEF m
<1>7. Announced(m.records) \ Ids(W) = Announced(records) \ Ids(W)
  <2>1. r \in Ids(W)
    BY <1>1 DEF Ids
  <2> QED BY <1>6, <2>1
<1>8. Exact(Announced(m.records), U)
  <2> SUFFICES ASSUME NEW j \in DOMAIN U
               PROVE  U[j].resource \in Announced(m.records) <=> Announces(U[j])
    BY DEF Exact
  <2>1. j \in DOMAIN W /\ U[j].resource = W[j].resource
    BY <1>2 DEF Alike
  <2>2. W[j].resource \in Announced(records) <=> Announces(W[j])
    BY <1>1, <2>1 DEF Exact
  <2>3. Announces(U[j]) <=> Announces(W[j]) \/ (j = i /\ W[j].writes)
    BY <1>2, <2>1 DEF Announces
  <2>4. W[j].resource = r <=> j = i
    BY <1>1, <2>1 DEF Different
  <2> QED BY <1>6, <2>1, <2>2, <2>3, <2>4
<1>9. sub \in LeaseType /\ sub.views = U /\ sub.backing = retained[k].backing
      /\ sub.done = retained[k].done
  BY <1>1, <1>2 DEF LeaseType
<1> DEFINE R == [retained EXCEPT ![k] = sub]
<1>10. /\ retained \in [Slots -> LeaseType] /\ executing \in SUBSET Backings
       /\ InUse(executing, retained) /\ host \in HostType /\ HostConsistent
       /\ HostAt("mark")
  BY DEF LeaseInv, TypeOK, MarkView, Marking
<1> HIDE DEF sub
<1>11. R[k] = sub /\ \A t \in Slots : t # k => R[t] = retained[t]
  BY <1>1, <1>10
<1>12. InUse(executing, R)
  <2> HIDE DEF R
  <2>1. \A t \in Slots : R[t].backing = retained[t].backing /\ R[t].done = retained[t].done
    BY <1>9, <1>11
  <2> QED BY <1>10, <2>1 DEF InUse
<1>13. host' \in HostType /\ HostConsistent'
  <2>1. host' \in HostType /\ host'.slot = k
        /\ (host'.at = "wait" \/ (host'.at = "mark" /\ host'.view = i + 1))
    <3>1. i \in Nat /\ i + 1 \in Nat /\ 0 \in Nat
      BY <1>1
    <3> QED BY <1>4, <1>10, <3>1 DEF HostType, HostAt
  <2>2. MarkedBefore(U, i + 1)
    <3>1. ASSUME NEW j \in DOMAIN U, j < i + 1, U[j].writes PROVE U[j].dirty
      <4>1. j \in DOMAIN W /\ W[j].writes /\ (U[j].dirty <=> W[j].dirty \/ j = i)
        BY <1>2, <3>1 DEF Alike
      <4>2. j = i \/ j < i
        BY <1>1, <3>1, <4>1
      <4> QED BY <1>1, <4>1, <4>2 DEF MarkedBefore
    <3> QED BY <3>1 DEF MarkedBefore
  <2>3. retained'[k].views = U
    BY <1>4, <1>9, <1>11
  <2>4. lease' = NoLease /\ Unseen(lease')
    BY <1>1, <1>4, <1>10 DEF HostConsistent
  <2> HIDE DEF W, k, i
  <2> QED BY <1>1, <2>1, <2>2, <2>3, <2>4 DEF HostConsistent
<1> HIDE DEF R, W, k, i, r
<1> QED BY <1>1, <1>2, <1>4, <1>5, <1>6, <1>7, <1>8, <1>9, <1>10, <1>12, <1>13, SlotChanges
        DEF R, W

\* A refused mark: the marks of the buffers before it are taken back, those of
\* records that are no longer current are stuck.
LEMMA MarkFailsKeeps ==
  ASSUME LeaseInv, MarkFails
  PROVE  LeaseInv'
<1> DEFINE k == host.slot
           W == retained[k].views
           stuck(j) == ~RecordIsCurrent(records[W[j].resource])
           U == [j \in DOMAIN W |-> IF j \in Prior
                                    THEN [W[j] EXCEPT !.dirty = FALSE, !.stuck = stuck(j)]
                                    ELSE W[j]]
           sub == [retained[k] EXCEPT !.views = U]
           ids == {W[j].resource : j \in Prior}
           recs == Unmarked
           m == [Now EXCEPT !.records = recs]
<1>1. /\ k \in Slots /\ retained[k] \in LeaseType /\ W \in Seq(ViewType)
      /\ host.view \in DOMAIN W /\ Different(W) /\ Exact(Announced(records), W)
      /\ MarkedBefore(W, host.view) /\ lease = NoLease
  BY MarkingSlot DEF MarkFails
<1>2. ASSUME NEW j \in Prior PROVE j \in DOMAIN W /\ W[j].dirty
  <2>1. j \in 1 .. (host.view - 1) /\ W[j].writes
    BY DEF Prior
  <2>2. j \in DOMAIN W /\ j < host.view
    BY <1>1, <2>1
  <2> QED BY <1>1, <2>1, <2>2 DEF MarkedBefore
<1>3. /\ retained' = [retained EXCEPT ![k] = sub] /\ host' = Idle /\ records' = recs
      /\ UNCHANGED <<lease, idle_backings, lost_dirty, device_lost, orphans,
                     next_resource_id, executing>>
      /\ NoMemory /\ Elsewhere
  BY <1>1 DEF MarkFails, history, LeaseType
<1>4. recs = [r \in Resources |-> IF r \in ids /\ RecordIsCurrent(records[r])
                                  THEN [records[r] EXCEPT !.gpu_write_pending = FALSE]
                                  ELSE records[r]]
  BY DEF Unmarked
<1>5. ASSUME NEW j \in DOMAIN W
      PROVE  /\ U[j] \in ViewType /\ U[j].resource = W[j].resource /\ U[j].image = W[j].image
             /\ j \notin Prior => U[j] = W[j]
             /\ j \in Prior => (Announces(U[j]) <=> ~RecordIsCurrent(records[W[j].resource]))
  <2>1. W[j] \in ViewType
    BY <1>1
  <2>2. stuck(j) \in BOOLEAN
    BY DEF RecordIsCurrent
  <2>3. CASE j \in Prior
    <3>1. U[j] = [W[j] EXCEPT !.dirty = FALSE, !.stuck = stuck(j)]
      BY <2>3
    <3> DEFINE c == stuck(j)
    <3>2. c \in BOOLEAN /\ U[j] = [W[j] EXCEPT !.dirty = FALSE, !.stuck = c]
      BY <2>2, <3>1
    <3> HIDE DEF c, U, W
    <3>3. /\ U[j] \in ViewType /\ U[j].resource = W[j].resource /\ U[j].image = W[j].image
          /\ U[j].dirty = FALSE /\ U[j].stuck = c
      BY <2>1, <3>2 DEF ViewType
    <3> QED BY <2>3, <3>3 DEF Announces, c
  <2>4. CASE j \notin Prior
    BY <2>1, <2>4
  <2> QED BY <2>3, <2>4
<1>6. DOMAIN U = DOMAIN W /\ U = [j \in DOMAIN W |-> U[j]]
  OBVIOUS
<1> HIDE DEF U
<1>7. U \in Seq(ViewType) /\ Alike(W, U)
  <2>1. DOMAIN W = 1 .. Len(W) /\ Len(W) \in Nat
    BY <1>1
  <2>2. U \in Seq(ViewType)
    <3> HIDE DEF W
    <3> QED BY <1>5, <1>6, <2>1
  <2> QED BY <1>5, <1>6, <2>2 DEF Alike
<1>8. records \in [Resources -> RecordType] /\ Now \in MemType /\ Now.records = records
  BY ExecutorAccounted DEF LeaseInv, TypeOK, RecordTypeOK
<1> HIDE DEF recs, ids
<1>9. ASSUME NEW r \in Resources
      PROVE  /\ recs[r] \in RecordType /\ (recs[r].live <=> records[r].live)
             /\ recs[r].gpu_write_pending <=>
                  /\ records[r].gpu_write_pending
                  /\ ~(r \in ids /\ RecordIsCurrent(records[r]))
  <2>1. records[r] \in RecordType
    BY <1>8
  <2>2. CASE r \in ids /\ RecordIsCurrent(records[r])
    <3>1. recs[r] = [records[r] EXCEPT !.gpu_write_pending = FALSE]
      BY <1>4, <2>2
    <3> QED BY <2>1, <2>2, <3>1 DEF RecordType
  <2>3. CASE ~(r \in ids /\ RecordIsCurrent(records[r]))
    <3>1. recs[r] = records[r]
      BY <1>4, <2>3
    <3> QED BY <2>1, <2>3, <3>1
  <2> QED BY <2>2, <2>3
<1>10. recs \in [Resources -> RecordType]
  BY <1>4, <1>9
<1>11. /\ Live(recs) = Live(records) /\ Announced(recs) =
            {r \in Announced(records) : ~(r \in ids /\ RecordIsCurrent(records[r]))}
  BY <1>9 DEF Live, Announced
<1>12. m \in MemType /\ m.records = recs /\ Become(m)
  BY <1>3, <1>8, <1>10 DEF MemType, Become, NoMemory, Now
<1> HIDE DEF m
<1>13. Announced(recs) \ Ids(W) = Announced(records) \ Ids(W)
  <2>1. ids \subseteq Ids(W)
    BY <1>2 DEF ids, Ids
  <2> QED BY <1>11, <2>1
<1>14. Exact(Announced(recs), U)
  <2> SUFFICES ASSUME NEW j \in DOMAIN U
               PROVE  U[j].resource \in Announced(recs) <=> Announces(U[j])
    BY DEF Exact
  <2>1. j \in DOMAIN W /\ U[j].resource = W[j].resource
    BY <1>5, <1>6
  <2>2. W[j].resource \in Announced(records) <=> Announces(W[j])
    BY <1>1, <2>1 DEF Exact
  <2>3. CASE j \in Prior
    <3>1. W[j].resource \in ids
      BY <2>3 DEF ids
    <3>2. W[j].resource \in Announced(records)
      BY <1>2, <2>2, <2>3 DEF Announces
    <3>3. Announces(U[j]) <=> ~RecordIsCurrent(records[W[j].resource])
      BY <1>5, <2>1, <2>3
    <3> HIDE DEF W
    <3> QED BY <1>11, <2>1, <3>1, <3>2, <3>3
  <2>4. CASE j \notin Prior
    <3>1. W[j].resource \notin ids
      BY <1>1, <1>2, <2>1, <2>4 DEF ids, Different
    <3>2. U[j] = W[j]
      BY <1>5, <2>1, <2>4
    <3> HIDE DEF W
    <3> QED BY <1>11, <2>1, <2>2, <3>1, <3>2
  <2> QED BY <2>3, <2>4
<1>15. sub \in LeaseType /\ sub.views = U /\ sub.backing = retained[k].backing
       /\ sub.done = retained[k].done
  BY <1>1, <1>7 DEF LeaseType
<1>16. /\ retained \in [Slots -> LeaseType] /\ executing \in SUBSET Backings
       /\ InUse(executing, retained)
  BY DEF LeaseInv, TypeOK
<1> HIDE DEF sub
<1> DEFINE R == [retained EXCEPT ![k] = sub]
<1>17. R[k] = sub /\ \A t \in Slots : t # k => R[t] = retained[t]
  BY <1>1, <1>16
<1>18. InUse(executing, R)
  <2> HIDE DEF R
  <2>1. \A t \in Slots : R[t].backing = retained[t].backing /\ R[t].done = retained[t].done
    BY <1>15, <1>17
  <2> QED BY <1>16, <2>1 DEF InUse
<1>19. host' \in HostType /\ HostConsistent'
  BY <1>1, <1>3, HostIdle
<1> HIDE DEF R, W, k
<1> QED BY <1>1, <1>3, <1>7, <1>11, <1>12, <1>13, <1>14, <1>15, <1>16, <1>18, <1>19,
           SlotChanges DEF R, W

-----------------------------------------------------------------------------
(* The device.                                                             *)

LEMMA HeldIsOwned ==
  ASSUME LeaseInv
  PROVE  /\ Registered(HeldViews) = UNION {Ids(Views(lease, retained)[o]) : o \in Holders}
         /\ Dirt(Views(lease, retained)) =
              {v.resource : v \in {w \in HeldViews : w.dirty \/ w.stuck}}
         /\ Lost(HeldViews, TRUE) \subseteq Dirt(Views(lease, retained))
<1> DEFINE V == Views(lease, retained)
<1>1. /\ V[0] = lease.views /\ 0 \in Holders
      /\ \A s \in Slots : s \in Holders /\ V[s] = retained[s].views
      /\ \A o \in Holders : o = 0 \/ o \in Slots
  BY SlotsAreHolders DEF Views
<1> HIDE DEF V
<1>2. \A v : v \in HeldViews <=> \E o \in Holders : \E i \in DOMAIN V[o] : v = V[o][i]
  BY <1>1 DEF HeldViews, ToSet
<1>3. Registered(HeldViews) = UNION {Ids(V[o]) : o \in Holders}
  BY <1>2 DEF Registered, Ids
<1>4. Dirt(V) = {v.resource : v \in {w \in HeldViews : w.dirty \/ w.stuck}}
  BY <1>2 DEF Dirt, Announces
<1>5. Lost(HeldViews, TRUE) \subseteq Dirt(V)
  BY <1>4 DEF Lost
<1> QED BY <1>3, <1>4, <1>5 DEF V

\* The device is lost: the registrations of dirty views stay, for good.
LEMMA DeviceLostKeeps ==
  ASSUME LeaseInv, DeviceLost
  PROVE  LeaseInv'
<1> DEFINE V == Views(lease, retained)
           recs == Unregister(records, HeldViews, TRUE)
           lost == lost_dirty \cup Lost(HeldViews, TRUE)
           none == [s \in Slots |-> NoLease]
<1>1. /\ TypeOK /\ Owned(Live(records) \ orphans, Announced(records), V, lost_dirty)
      /\ orphans \subseteq Live(records) /\ orphans \in SUBSET Resources
      /\ records \in [Resources -> RecordType] /\ lost_dirty \in SUBSET Resources
      /\ \A r \in Live(records) : r < next_resource_id
      /\ idle_backings \in SUBSET Backings
  BY DEF LeaseInv, TypeOK, RecordTypeOK
<1>2. /\ device_lost' = TRUE /\ records' = recs /\ lost_dirty' = lost
      /\ retained' = none /\ lease' = NoLease /\ host' = Idle /\ executing' = {}
      /\ UNCHANGED <<bytes, write_generation, write_generation_exhausted, idle_backings,
                     orphans, next_resource_id, identity, protection, location,
                     next_mapping_generation, mapping_generation_exhausted, reported>>
  BY DEF DeviceLost, LoseDevice, Elsewhere
<1>3. lost \subseteq Announced(records) /\ Announced(records) = Dirt(V) \cup lost_dirty
  <2>1. Lost(HeldViews, TRUE) \subseteq Dirt(V)
    BY HeldIsOwned
  <2>2. Announced(records) = Dirt(V) \cup lost_dirty
    BY <1>1, DirtExact
  <2> QED BY <2>1, <2>2
<1>4. /\ Live(recs) \ orphans = lost /\ Announced(recs) = lost
      /\ recs \in [Resources -> RecordType]
      /\ orphans \subseteq Live(recs) /\ Live(recs) \subseteq Live(records)
  <2> DEFINE H == HeldViews
             gone == Registered(H) \ Lost(H, TRUE)
  <2>1. /\ recs \in [Resources -> RecordType]
        /\ Live(recs) = Live(records) \ gone /\ Announced(recs) = Announced(records) \ gone
    <3> HIDE DEF H
    <3>1. /\ Unregister(records, H, TRUE) \in [Resources -> RecordType]
          /\ Live(Unregister(records, H, TRUE)) = Live(records) \ (Registered(H) \ Lost(H, TRUE))
          /\ Announced(Unregister(records, H, TRUE)) =
               Announced(records) \ (Registered(H) \ Lost(H, TRUE))
      BY <1>1, UnregisterFlags
    <3> QED BY <3>1 DEF H
  <2>2. \A r \in Live(records) : r \in orphans \/ r \in lost_dirty \/ r \in Registered(H)
    BY <1>1, HeldIsOwned DEF Owned, Ids
  <2>3. /\ lost_dirty \cap Registered(H) = {} /\ orphans \cap Registered(H) = {}
        /\ Announced(records) \subseteq Live(records) \ orphans
    <3>1. lost_dirty \cap Registered(H) = {} /\ orphans \cap Registered(H) = {}
      BY <1>1, HeldIsOwned DEF Owned, Ids
    <3> QED BY <1>1, <3>1 DEF Owned
  <2>4. Lost(H, TRUE) \subseteq Announced(records) /\ lost = lost_dirty \cup Lost(H, TRUE)
    BY <1>3
  <2>5. Lost(H, TRUE) \subseteq Registered(H)
    BY DEF Lost, Registered
  <2> HIDE DEF H, recs, lost
  <2>6. Live(recs) \ orphans = lost
    BY <1>3, <2>1, <2>2, <2>3, <2>4, <2>5
  <2>7. Announced(recs) = lost
    BY <1>3, <2>1, <2>2, <2>3, <2>4, <2>5
  <2> QED BY <1>1, <2>1, <2>3, <2>6, <2>7
<1> HIDE DEF recs, lost
<1>5. TypeOK'
  <2>1. lost \in SUBSET Resources
    BY <1>3 DEF Announced
  <2>0. executing' \in SUBSET Backings /\ orphans' \in SUBSET Resources
    BY <1>1, <1>2
  <2>2. none \in [Slots -> LeaseType] /\ NoLease \in LeaseType
    BY NoLeaseTyped
  <2>3. SpaceTypeOK'
    BY <1>1, <1>2 DEF TypeOK, SpaceTypeOK
  <2>4. RecordTypeOK'
    BY <1>1, <1>2, <1>4 DEF TypeOK, RecordTypeOK
  <2>5. host' \in HostType
    BY <1>2, HostIdle
  <2> QED BY <1>1, <1>2, <2>0, <2>1, <2>2, <2>3, <2>4, <2>5 DEF TypeOK
<1>6. Owned(Live(records) \ orphans, Announced(records), Views(lease, retained), lost_dirty)'
  <2> DEFINE X == Views(NoLease, none)
  <2>1. \A o \in Holders : DOMAIN X[o] = {}
    BY NoLeaseTyped, SlotsAreHolders DEF Views
  <2>2. Owned(lost, lost, X, lost)
    <3> HIDE DEF V, X
    <3> QED BY <2>1, LoseViews
  <2>3. /\ (Live(records) \ orphans)' = lost /\ Announced(records)' = lost /\ lost_dirty' = lost
        /\ Views(lease, retained)' = X
    BY <1>2, <1>4 DEF Live, Announced, Views
  <2> HIDE DEF X
  <2> QED BY <2>2, <2>3 DEF Owned, Apart
<1>7. (\A r \in Live(records) : r < next_resource_id)' /\ (orphans \subseteq Live(records))'
  <2>1. Live(records)' = Live(recs)
    BY <1>2 DEF Live
  <2> QED BY <1>1, <1>2, <1>4, <2>1
<1>8. BackingsApart(retained, lease, idle_backings)'
  <2>1. 0 \notin idle_backings
    BY <1>1 DEF Backings
  <2>2. \A s \in Slots : none[s].backing = 0 /\ DOMAIN none[s].views = {}
    BY NoLeaseTyped
  <2> HIDE DEF none
  <2> QED BY <1>2, <2>1, <2>2, NoLeaseTyped DEF BackingsApart
<1>9. HostConsistent' /\ InUse(executing, retained)'
  BY <1>2, HostIdle DEF InUse
<1> QED BY <1>5, <1>6, <1>7, <1>8, <1>9 DEF LeaseInv

\* The GPU writes results, which are not memory yet.
LEMMA GpuFinishesKeeps ==
  ASSUME LeaseInv, NEW s \in Slots, GpuFinishes(s)
  PROVE  LeaseInv'
<1> DEFINE W == retained[s].views
           busy == executing \ {retained[s].backing}
<1>1. /\ retained \in [Slots -> LeaseType] /\ executing \in SUBSET Backings
      /\ InUse(executing, retained) /\ HostConsistent /\ host \in HostType
      /\ Now \in MemType /\ Now.records = records
  BY ExecutorAccounted DEF LeaseInv, TypeOK
<1>2. retained[s] \in LeaseType /\ W \in Seq(ViewType)
  BY <1>1 DEF LeaseType
<1>3. PICK result \in [DOMAIN W -> [Pages -> Values]] :
        retained' = [retained EXCEPT
                       ![s].done = TRUE,
                       ![s].views = [i \in DOMAIN W |-> [W[i] EXCEPT !.gpu = result[i]]]]
  BY DEF GpuFinishes
<1> DEFINE U == [i \in DOMAIN W |-> [W[i] EXCEPT !.gpu = result[i]]]
           sub == [retained[s] EXCEPT !.done = TRUE, !.views = U]
           R == [retained EXCEPT ![s] = sub]
<1>4. ASSUME NEW i \in DOMAIN W
      PROVE  /\ U[i] \in ViewType /\ U[i].resource = W[i].resource
             /\ U[i].image = W[i].image /\ U[i].dirty = W[i].dirty
             /\ U[i].stuck = W[i].stuck /\ U[i].writes = W[i].writes
  <2>1. W[i] \in ViewType /\ result[i] \in [Pages -> Values]
    BY <1>2
  <2>2. U[i] = [W[i] EXCEPT !.gpu = result[i]]
    OBVIOUS
  <2> HIDE DEF U, W
  <2> QED BY <2>1, <2>2 DEF ViewType
<1>5. U \in Seq(ViewType) /\ DOMAIN U = DOMAIN W
  <2>1. DOMAIN W = 1 .. Len(W) /\ Len(W) \in Nat
    BY <1>2
  <2>2. U = [i \in 1 .. Len(W) |-> U[i]]
    BY <2>1
  <2> HIDE DEF U, W
  <2> QED BY <1>4, <2>1, <2>2
<1> HIDE DEF U
<1>6. sub \in LeaseType /\ sub.views = U /\ sub.backing = retained[s].backing
  BY <1>2, <1>5 DEF LeaseType
<1>7. retained' = R
  BY <1>1, <1>2, <1>3 DEF U, LeaseType
<1>8. Alike(W, U)
  BY <1>4, <1>5 DEF Alike
<1> HIDE DEF sub
<1>9. R[s] = sub /\ \A t \in Slots : t # s => R[t] = retained[t]
  BY <1>1, <1>6
<1>10. Exact(Announced(records), U)
  <2> DEFINE V == Views(lease, retained)
  <2>1. s \in Holders /\ V[s] = W /\ Owned(Live(records) \ orphans, Announced(records), V, lost_dirty)
    BY SlotsAreHolders DEF Views, LeaseInv
  <2>2. Exact(Announced(records), W)
    <3> HIDE DEF V, W
    <3> QED BY <2>1, OwnedHolder
  <2>3. \A i \in DOMAIN W : Announces(U[i]) <=> Announces(W[i])
    BY <1>4 DEF Announces
  <2> HIDE DEF W
  <2> QED BY <1>4, <1>5, <2>2, <2>3 DEF Exact
<1>11. InUse(busy, R) /\ busy \in SUBSET Backings
  <2>1. ASSUME NEW b \in busy PROVE \E t \in Slots : R[t].backing = b /\ ~R[t].done
    <3>1. PICK t \in Slots : retained[t].backing = b /\ ~retained[t].done
      BY <1>1 DEF InUse
    <3>2. t # s
      BY <3>1
    <3> HIDE DEF R
    <3> QED BY <1>9, <3>1, <3>2
  <2> HIDE DEF R
  <2> QED BY <1>1, <2>1 DEF InUse
<1>12. /\ executing' = busy /\ Elsewhere /\ Become(Now)
       /\ UNCHANGED <<host, lease, idle_backings, lost_dirty, device_lost, orphans,
                      next_resource_id>>
  BY DEF GpuFinishes, Become, Now, Elsewhere, spaceVars, recordVars
<1>13. host' \in HostType /\ HostConsistent'
  <2>1. ASSUME host.at = "mark"
        PROVE  MarkedBefore(retained'[host.slot].views, host.view)
    <3>1. host.slot \in Slots /\ MarkedBefore(retained[host.slot].views, host.view)
      BY <1>1, <2>1 DEF HostConsistent
    <3>2. CASE host.slot = s
      <4>1. retained'[s].views = U
        BY <1>6, <1>7, <1>9
      <4>2. MarkedBefore(U, host.view)
        <5> HIDE DEF W
        <5>1. MarkedBefore(W, host.view)
          BY <3>1, <3>2 DEF W
        <5> QED BY <1>4, <1>5, <5>1 DEF MarkedBefore
      <4> QED BY <3>2, <4>1, <4>2
    <3>3. CASE host.slot # s
      <4>1. retained'[host.slot] = retained[host.slot]
        BY <1>7, <1>9, <3>1, <3>3
      <4> QED BY <3>1, <4>1
    <3> QED BY <3>2, <3>3
  <2> HIDE DEF R
  <2> QED BY <1>1, <1>12, <2>1 DEF HostConsistent, HasBuffers
<1> HIDE DEF R, W, busy
<1> QED BY <1>1, <1>6, <1>7, <1>8, <1>10, <1>11, <1>12, <1>13, SlotChanges DEF R, W

-----------------------------------------------------------------------------
(* Other threads.                                                          *)

\* The executor with other memory, the flags of the records being the same.
LEMMA FlagsSuffice ==
  ASSUME LeaseInv, NEW m \in Flagged(Live(records), Announced(records)),
         NEW e, e = [Executor EXCEPT !.m = m]
  PROVE  /\ e \in Executions(lease, lost_dirty, orphans, executing, Live(records))
         /\ e.m = m /\ e.retained = retained /\ e.idle = idle_backings
<1>1. /\ Executor \in ExecType /\ Executor \in Executions(lease, lost_dirty, orphans, executing, Live(records))
      /\ Executor.m.records = records /\ Executor.retained = retained
      /\ Executor.idle = idle_backings
  BY ExecutorAccounted DEF Executions
<1>2. /\ m \in MemType /\ Live(m.records) = Live(records)
      /\ Announced(m.records) = Announced(records)
  BY DEF Flagged
<1>3. e \in ExecType /\ e.m = m /\ e.retained = retained /\ e.idle = idle_backings
  BY <1>1, <1>2 DEF ExecType
<1>4. e \in Executions(lease, lost_dirty, orphans, executing, Live(records))
  BY <1>1, <1>2, <1>3 DEF Executions
<1> QED BY <1>3, <1>4

\* Another thread changes bytes and reports it.
LEMMA BytesChange ==
  ASSUME LeaseInv, NEW S \in SUBSET Pages, NEW new \in [Pages -> Values],
         Become(HostWrite(Now, S, new)), UNCHANGED <<next_resource_id, leaseVars>>, Elsewhere
  PROVE  LeaseInv'
<1> DEFINE m == HostWrite(Now, S, new)
           e == [Executor EXCEPT !.m = m]
<1>1. Now \in Flagged(Live(records), Announced(records))
  BY ExecutorAccounted DEF Flagged
<1>2. m \in Flagged(Live(records), Announced(records))
  BY <1>1, HostWriteFlags
<1>3. Become(m)
  OBVIOUS
<1> HIDE DEF m
<1>4. /\ e \in Executions(lease, lost_dirty, orphans, executing, Live(records))
      /\ e.m = m /\ e.retained = retained /\ e.idle = idle_backings
  BY <1>2, FlagsSuffice
<1> HIDE DEF e
<1>5. /\ HostStep(e) /\ host' = host /\ lease' = lease /\ retained' = retained
      /\ UNCHANGED <<next_resource_id, history>>
  BY <1>3, <1>4 DEF HostStep, ExecutorBecomes, leaseVars
<1>6. lease \in LeaseType /\ host' \in HostType /\ HostConsistent'
  BY <1>5 DEF LeaseInv, TypeOK, HostConsistent, HasBuffers
<1> QED BY <1>4, <1>5, <1>6, HostStepStays

LEMMA GuestWriteKeeps ==
  ASSUME LeaseInv, NEW S \in SUBSET Pages, NEW value \in Values, GuestWrite(S, value)
  PROVE  LeaseInv'
<1> DEFINE new == [l \in Locations |-> value]
<1>1. new \in [Pages -> Values]
  BY ConstantsTyped
<1>2. Become(HostWrite(Now, S, new)) /\ UNCHANGED <<next_resource_id, leaseVars>> /\ Elsewhere
  BY DEF GuestWrite
<1> HIDE DEF new
<1> QED BY <1>1, <1>2, BytesChange

LEMMA GuestUnmapFailsKeeps ==
  ASSUME LeaseInv, NEW S \in Ranges, GuestUnmapFails(S)
  PROVE  LeaseInv'
<1> DEFINE new == [l \in Locations |-> Zero]
<1>1. new \in [Pages -> Values] /\ S \in SUBSET Pages
  BY ConstantsTyped, RangesArePages
<1>2. Become(HostWrite(Now, S, new)) /\ UNCHANGED <<next_resource_id, leaseVars>> /\ Elsewhere
  BY DEF GuestUnmapFails
<1> HIDE DEF new
<1> QED BY <1>1, <1>2, BytesChange

LEMMA RemapTyped ==
  ASSUME SpaceTypeOK, GuestRemaps
  PROVE  SpaceTypeOK'
<1>1. ASSUME NEW S \in Ranges, NEW rights \in Protections, Map(S, rights)
      PROVE  SpaceTypeOK'
  <2>1. next_mapping_generation + 1 \in 0..MaxMappingGeneration
    BY <1>1, ConstantsTyped DEF SpaceTypeOK, Map
  <2>2. /\ identity' \in [Pages -> 0..MaxMappingGeneration]
        /\ protection' \in [Pages -> Protections \cup {{}}]
    BY <1>1, <2>1 DEF SpaceTypeOK, Map
  <2> QED BY <1>1, <2>1, <2>2 DEF SpaceTypeOK, Map
<1>2. ASSUME NEW S \in Ranges, NEW rights \in Protections, Protect(S, rights)
      PROVE  SpaceTypeOK'
  BY <1>2 DEF SpaceTypeOK, Protect
<1>3. ASSUME MapFails PROVE SpaceTypeOK'
  <2>1. next_mapping_generation' \in 0..MaxMappingGeneration
    BY <1>3, ConstantsTyped DEF SpaceTypeOK, MapFails
  <2>2. mapping_generation_exhausted' \in BOOLEAN
    BY <1>3, Zenon DEF SpaceTypeOK, MapFails
  <2> QED BY <1>3, <2>1, <2>2 DEF SpaceTypeOK, MapFails
<1>4. ASSUME NEW S \in Ranges, Unmap(S) PROVE SpaceTypeOK'
  <2>1. 0 \in 0..MaxMappingGeneration /\ Zero \in Values /\ Pages = Locations
    BY ConstantsTyped
  <2>2. /\ identity' \in [Pages -> 0..MaxMappingGeneration]
        /\ protection' \in [Pages -> Protections \cup {{}}]
    BY <1>4, <2>1 DEF SpaceTypeOK, Unmap
  <2>3. location' \in [Pages -> Locations] /\ bytes' \in [Locations -> Values]
    BY <1>4, <2>1 DEF SpaceTypeOK, Unmap
  <2> QED BY <1>4, <2>2, <2>3 DEF SpaceTypeOK, Unmap
<1> QED BY <1>1, <1>2, <1>3, <1>4 DEF GuestRemaps

\* Nothing but the mappings and their bytes changes.
OnlySpace == SpaceTypeOK' /\ UNCHANGED <<recordVars, leaseVars>>

LEMMA OnlySpaceKeeps ==
  ASSUME LeaseInv, OnlySpace
  PROVE  LeaseInv'
<1>1. UNCHANGED <<records, next_resource_id, write_generation, write_generation_exhausted,
                  host, lease, retained, idle_backings, lost_dirty, device_lost,
                  orphans, executing>>
  BY DEF OnlySpace, recordVars, leaseVars, history
<1>2. TypeOK'
  BY <1>1 DEF LeaseInv, TypeOK, RecordTypeOK, OnlySpace
<1>3. /\ Live(records)' = Live(records) /\ Announced(records)' = Announced(records)
      /\ Views(lease, retained)' = Views(lease, retained)
  BY <1>1 DEF Live, Announced, Views
<1>4. Owned(Live(records) \ orphans, Announced(records), Views(lease, retained), lost_dirty)'
  BY <1>1, <1>3 DEF LeaseInv, Owned, Apart
<1>5. (\A r \in Live(records) : r < next_resource_id)' /\ (orphans \subseteq Live(records))'
  BY <1>1, <1>3 DEF LeaseInv
<1>6. /\ BackingsApart(retained, lease, idle_backings)' /\ HostConsistent'
      /\ InUse(executing, retained)'
  BY <1>1 DEF LeaseInv, BackingsApart, HostConsistent, HasBuffers, InUse
<1> QED BY <1>2, <1>4, <1>5, <1>6 DEF LeaseInv

LEMMA GuestRemapsKeeps ==
  ASSUME LeaseInv, GuestRemaps
  PROVE  LeaseInv'
<1>1. SpaceTypeOK'
  BY RemapTyped DEF LeaseInv, TypeOK
<1> QED BY <1>1, OnlySpaceKeeps DEF OnlySpace, GuestRemaps

-----------------------------------------------------------------------------
(* Acknowledgements.                                                       *)

LEMMA AcknowledgedFlags ==
  ASSUME LeaseInv, NEW W, AcknowledgeViews(W)
  PROVE  \E m \in Flagged(Live(records), Announced(records)) :
           /\ Become(m) /\ host' = [host EXCEPT !.at = "images"]
           /\ UNCHANGED <<retained, lost_dirty, device_lost, next_resource_id, history>>
           /\ Elsewhere
<1> DEFINE ids == Registered(W)
           recs == [r \in Resources |-> IF r \in ids
                                        THEN [records[r] EXCEPT !.needs_cpu_upload = FALSE]
                                        ELSE records[r]]
           m == [Now EXCEPT !.records = recs]
<1>1. records \in [Resources -> RecordType] /\ Now \in MemType
  BY ExecutorAccounted DEF LeaseInv, TypeOK, RecordTypeOK
<1> HIDE DEF ids
<1>2. ASSUME NEW r \in Resources
      PROVE  /\ recs[r] \in RecordType /\ recs[r].live = records[r].live
             /\ recs[r].gpu_write_pending = records[r].gpu_write_pending
  BY <1>1 DEF RecordType
<1>3. recs \in [Resources -> RecordType]
  BY <1>2
<1>4. records' = recs
  BY DEF AcknowledgeViews, ids
<1> HIDE DEF recs
<1>5. m \in MemType /\ m.records = recs
  BY <1>1, <1>3 DEF MemType
<1>6. Live(recs) = Live(records) /\ Announced(recs) = Announced(records)
  BY <1>2 DEF Live, Announced
<1>7. Become(m)
  BY <1>4 DEF AcknowledgeViews, NoMemory, Become, Now
<1> HIDE DEF m
<1>8. m \in Flagged(Live(records), Announced(records))
  BY <1>5, <1>6 DEF Flagged
<1> QED BY <1>7, <1>8 DEF AcknowledgeViews

LEMMA FinishImageKeeps ==
  ASSUME LeaseInv, FinishImage
  PROVE  LeaseInv'
<1>1. PICK m \in Flagged(Live(records), Announced(records)) :
        /\ Become(m) /\ host' = [host EXCEPT !.at = "images"]
        /\ UNCHANGED <<retained, lost_dirty, device_lost, next_resource_id, history>>
        /\ Elsewhere
  BY AcknowledgedFlags DEF FinishImage
<1> DEFINE e == [Executor EXCEPT !.m = m]
<1>2. /\ e \in Executions(lease, lost_dirty, orphans, executing, Live(records))
      /\ e.m = m /\ e.retained = retained /\ e.idle = idle_backings
  BY FlagsSuffice
<1> HIDE DEF e
<1>3. HostStep(e) /\ lease' = lease
  BY <1>1, <1>2 DEF HostStep, ExecutorBecomes, FinishImage
<1>4. host' \in HostType /\ host'.at = "images"
  BY <1>1 DEF LeaseInv, TypeOK, HostType
<1>5. HostConsistent'
  BY <1>3, <1>4 DEF LeaseInv, HostConsistent, HasBuffers, FinishImage, HostAt
<1>6. lease \in LeaseType
  BY DEF LeaseInv, TypeOK
<1> QED BY <1>1, <1>2, <1>3, <1>4, <1>5, <1>6, HostStepStays

\* A lease without a device buffer gets one that nobody has.
LEMMA CandidateApart ==
  ASSUME LeaseInv, lease.backing = 0, NEW b \in Candidates
  PROVE  /\ b \in Backings /\ b # 0
         /\ \A s \in Slots : retained[s].backing # b
         /\ BackingsApart(retained, [lease EXCEPT !.backing = b], IdleWithout(b))
<1>1. /\ lease \in LeaseType /\ BackingsApart(retained, lease, idle_backings)
      /\ idle_backings \in SUBSET Backings
  BY DEF LeaseInv, TypeOK
<1>2. b \in Backings /\ \A s \in Slots : retained[s].backing # b
  <2>1. b \in idle_backings \/ b \in Backings \ (Used \cup idle_backings)
    BY DEF Candidates
  <2> QED BY <1>1, <2>1 DEF Used, BackingsApart
<1>3. b # 0
  BY <1>2 DEF Backings
<1> DEFINE l == [lease EXCEPT !.backing = b]
<1>4. l.backing = b
  BY <1>1 DEF LeaseType
<1> HIDE DEF l
<1>5. BackingsApart(retained, l, IdleWithout(b))
  BY <1>1, <1>2, <1>3, <1>4 DEF BackingsApart, IdleWithout
<1> QED BY <1>2, <1>3, <1>5 DEF l

LEMMA FinishBuffersKeeps ==
  ASSUME LeaseInv, FinishBuffers
  PROVE  LeaseInv'
<1>1. PICK m \in Flagged(Live(records), Announced(records)) :
        /\ Become(m) /\ host' = [host EXCEPT !.at = "images"]
        /\ UNCHANGED <<retained, lost_dirty, device_lost, next_resource_id, history>>
        /\ Elsewhere
  BY AcknowledgedFlags DEF FinishBuffers
<1> DEFINE e == [Executor EXCEPT !.m = m]
<1>2. /\ e \in Executions(lease, lost_dirty, orphans, executing, Live(records))
      /\ e.m = m /\ e.retained = retained /\ e.idle = idle_backings
  BY FlagsSuffice
<1> HIDE DEF e
<1>3. host' \in HostType /\ host'.at = "images"
  BY <1>1 DEF LeaseInv, TypeOK, HostType
<1>4. /\ lease \in LeaseType /\ lease.backing = 0 /\ idle_backings \in SUBSET Backings
      /\ HostConsistent
  BY DEF LeaseInv, TypeOK, HostConsistent, FinishBuffers, HostAt
<1>5. CASE ~HasBuffers /\ lease' = lease /\ idle_backings' = idle_backings
  <2>1. HostStep(e)
    BY <1>1, <1>2, <1>5 DEF HostStep, ExecutorBecomes
  <2>2. HostConsistent'
    BY <1>3, <1>4, <1>5 DEF HostConsistent, HasBuffers
  <2> QED BY <1>1, <1>2, <1>3, <1>4, <1>5, <2>1, <2>2, HostStepStays
<1>6. ASSUME NEW b \in Candidates, lease' = [lease EXCEPT !.backing = b],
             idle_backings' = IdleWithout(b)
      PROVE  LeaseInv'
  <2> DEFINE l == [lease EXCEPT !.backing = b]
             x == [e EXCEPT !.idle = IdleWithout(b)]
  <2>1. b \in Backings /\ b # 0 /\ BackingsApart(retained, l, IdleWithout(b))
    BY <1>4, CandidateApart
  <2>2. l \in LeaseType /\ l.views = lease.views /\ l.backing = b /\ l.done = lease.done
    BY <1>4, <2>1 DEF LeaseType, Backings
  <2> HIDE DEF l
  <2>3. IdleWithout(b) \in SUBSET Backings
    BY <1>4 DEF IdleWithout
  <2>4. x \in ExecType /\ x.m = e.m /\ x.retained = e.retained /\ x.idle = IdleWithout(b)
    BY <1>2, <2>3 DEF Executions, ExecType
  <2> HIDE DEF x
  <2>5. Views(l, retained) = Views(lease, retained)
    BY <2>2 DEF Views
  <2>6. x \in Executions(l, lost_dirty, orphans, executing, Live(records))
    BY <1>2, <2>1, <2>4, <2>5 DEF Executions
  <2>7. HostStep(x) /\ lease' = l
    BY <1>1, <1>2, <1>6, <2>4 DEF HostStep, ExecutorBecomes, l
  <2>8. HostConsistent'
    BY <1>3, <1>4, <2>1, <2>2, <2>7 DEF HostConsistent, HasBuffers, Unseen
  <2> QED BY <1>1, <1>3, <2>2, <2>6, <2>7, <2>8, HostStepStays
<1> QED BY <1>5, <1>6 DEF FinishBuffers

\* The device buffer in hand is destroyed with the lease.
LEMMA UploadFailsKeeps ==
  ASSUME LeaseInv, UploadFails
  PROVE  LeaseInv'
<1>1. PICK b \in Candidates : DropLeaseFrom(records, IdleWithout(b))
  BY DEF UploadFails
<1>2. UNCHANGED <<next_resource_id, orphans>>
  BY DEF UploadFails
<1> DEFINE x == [Executor EXCEPT !.idle = IdleWithout(b)]
<1>3. /\ Executor \in ExecType
      /\ Executor \in Executions(lease, lost_dirty, orphans, executing, Live(records))
      /\ Executor.m = Now /\ Executor.retained = retained /\ Executor.idle = idle_backings
  BY ExecutorAccounted DEF Executions
<1>4. IdleWithout(b) \subseteq idle_backings
  BY DEF IdleWithout
<1>5. x \in ExecType /\ x.m = Now /\ x.retained = retained /\ x.idle = IdleWithout(b)
  BY <1>3, <1>4 DEF ExecType
<1> HIDE DEF x
<1>6. BackingsApart(retained, lease, IdleWithout(b))
  BY <1>4 DEF LeaseInv, BackingsApart
<1>7. x \in Executions(lease, lost_dirty, orphans, executing, Live(records))
  BY <1>3, <1>5, <1>6 DEF Executions
<1>8. x.m = [Now EXCEPT !.records = records]
  BY <1>5 DEF Now
<1>9. /\ orphans \in SUBSET Resources /\ next_resource_id \in 1..(MaxResource + 1)
      /\ \A r \in Live(records) : r < next_resource_id
  BY DEF LeaseInv, TypeOK, RecordTypeOK
<1> QED BY <1>1, <1>2, <1>5, <1>7, <1>8, <1>9, DropLeaseFromKeeps

-----------------------------------------------------------------------------
(* Preparation.                                                            *)

\* A bounded set of natural numbers that is not empty has a greatest element.
LEMMA GreatestElement ==
  ASSUME NEW n \in Nat, NEW T \in SUBSET (0..n), T # {}
  PROVE  \E g \in T : \A m \in T : m <= g
<1> DEFINE D == {e \in Nat : n - e \in T}
<1>1. D \in SUBSET Nat /\ D # {}
  <2>1. PICK m \in T : TRUE
    OBVIOUS
  <2>2. n - m \in Nat /\ n - (n - m) = m
    BY <2>1
  <2>3. n - m \in D
    BY <2>1, <2>2
  <2> QED BY <2>3
<1>2. PICK d \in D : \A e \in D : d <= e
  <2> HIDE DEF D
  <2> QED BY <1>1, LeastElement
<1>3. ASSUME NEW m \in T PROVE m <= n - d
  <2>1. n - m \in Nat /\ n - (n - m) = m
    OBVIOUS
  <2>2. n - m \in D
    BY <2>1
  <2>3. d <= n - m /\ d \in Nat /\ m \in Nat
    BY <1>2, <2>2
  <2> QED BY <2>3
<1> QED BY <1>2, <1>3

\* What RegisterResource stores is a record nothing is announced for.
LEMMA NewRecordTyped ==
  ASSUME TypeOK, NEW S \in Ranges
  PROVE  /\ NewRecord(S) \in RecordType /\ NewRecord(S).live
         /\ ~NewRecord(S).gpu_write_pending
<1> DEFINE T == {identity[p] : p \in S}
<1>1. S \in SUBSET Pages /\ S # {}
  BY RangesArePages
<1>2. MaxMappingGeneration \in Nat /\ T \in SUBSET (0..MaxMappingGeneration) /\ T # {}
  BY <1>1, ConstantsTyped DEF TypeOK, SpaceTypeOK
<1>3. PICK g \in T : \A m \in T : m <= g
  BY <1>2, GreatestElement
<1>4. \A p \in S : identity[p] <= g
  BY <1>3
<1>5. Newest(S) \in T
  BY <1>3, <1>4 DEF Newest
<1>6. Newest(S) \in 0..MaxMappingGeneration
  BY <1>2, <1>5
<1>7. /\ write_generation \in Generations
      /\ (~write_generation_exhausted) \in BOOLEAN
  BY DEF TypeOK, RecordTypeOK
<1>8. NewRecord(S) \in RecordType
  BY <1>1, <1>6, <1>7 DEF NewRecord, RecordType
<1> QED BY <1>8 DEF NewRecord

\* The descriptor whose turn it is.
LEMMA BindingTyped ==
  ASSUME LeaseInv, Bindings # <<>>
  PROVE  /\ Bindings \in Seq(BindingType) /\ Head(Bindings) \in BindingType
         /\ Tail(Bindings) \in Seq(BindingType) /\ Head(Bindings).pages \in Ranges
<1>1. Bindings \in Seq(BindingType)
  BY DEF LeaseInv, TypeOK, HostType, Bindings
<1>2. Head(Bindings) \in BindingType /\ Tail(Bindings) \in Seq(BindingType)
  BY <1>1
<1> QED BY <1>1, <1>2 DEF BindingType

\* A registration: its id is new, and nothing is announced for it.
LEMMA Registration ==
  ASSUME LeaseInv, NEW binding \in BindingType, CanPrepare(binding)
  PROVE  /\ next_resource_id \in Resources /\ next_resource_id + 1 \in 1..(MaxResource + 1)
         /\ next_resource_id \notin Live(records)
         /\ WithNewRecord(binding) \in [Resources -> RecordType]
         /\ Live(WithNewRecord(binding)) = Live(records) \cup {next_resource_id}
         /\ Announced(WithNewRecord(binding)) = Announced(records)
         /\ \A r \in Live(records) \cup {next_resource_id} : r < next_resource_id + 1
<1> DEFINE next == next_resource_id
           new == NewRecord(binding.pages)
           recs == [records EXCEPT ![next] = new]
<1>1. /\ TypeOK /\ records \in [Resources -> RecordType] /\ next \in 1..(MaxResource + 1)
      /\ MaxResource \in Nat /\ next <= MaxResource
      /\ Announced(records) \subseteq Live(records)
      /\ \A r \in Live(records) : r \in Resources /\ r < next
  <2>1. Announced(records) \subseteq Live(records)
    BY DEF LeaseInv, Owned
  <2> QED BY <2>1, ConstantsTyped DEF LeaseInv, TypeOK, RecordTypeOK, Live, CanPrepare
<1>2. next \in Resources /\ next + 1 \in 1..(MaxResource + 1)
  BY <1>1 DEF Resources
<1>3. next \notin Live(records)
  BY <1>1
<1>4. new \in RecordType /\ new.live /\ ~new.gpu_write_pending
  <2>1. binding.pages \in Ranges
    BY DEF BindingType
  <2> QED BY <1>1, <2>1, NewRecordTyped
<1>5. WithNewRecord(binding) = recs
  BY DEF WithNewRecord
<1> HIDE DEF new, next
<1>6. /\ recs \in [Resources -> RecordType] /\ recs[next] = new
      /\ \A r \in Resources : r # next => recs[r] = records[r]
  BY <1>1, <1>2, <1>4
<1> HIDE DEF recs
<1>7. Live(recs) = Live(records) \cup {next}
  BY <1>2, <1>4, <1>6 DEF Live
<1>8. Announced(recs) = Announced(records)
  <2>1. next \notin Announced(records)
    BY <1>1, <1>3
  <2> QED BY <1>2, <1>4, <1>6, <2>1 DEF Announced
<1>9. \A r \in Live(records) \cup {next} : r < next + 1
  BY <1>1, <1>2 DEF Resources
<1> QED BY <1>2, <1>3, <1>5, <1>6, <1>7, <1>8, <1>9 DEF next

\* The read fails: the registration is gone again, its id used up.
LEMMA ReadFailsKeeps ==
  ASSUME LeaseInv, ReadFails
  PROVE  LeaseInv'
<1>1. /\ Bindings # <<>> /\ CanPrepare(Head(Bindings))
      /\ DropLeaseFrom(records, idle_backings)
      /\ next_resource_id' = next_resource_id + 1 /\ orphans' = orphans
  BY DEF ReadFails
<1>2. /\ next_resource_id + 1 \in 1..(MaxResource + 1)
      /\ \A r \in Live(records) : r < next_resource_id + 1
  BY <1>1, BindingTyped, Registration
<1>3. /\ Executor \in Executions(lease, lost_dirty, orphans, executing, Live(records))
      /\ Executor.m = [Now EXCEPT !.records = records] /\ Executor.retained = retained
      /\ Executor.idle = idle_backings
  BY ExecutorAccounted DEF Now
<1>4. orphans \in SUBSET Resources
  BY DEF LeaseInv, TypeOK
<1> QED BY <1>1, <1>2, <1>3, <1>4, DropLeaseFromKeeps

\* An allocation fails: the registration stays, and is counted among the orphans.
LEMMA AllocationFailsKeeps ==
  ASSUME LeaseInv, AllocationFails
  PROVE  LeaseInv'
<1> DEFINE next == next_resource_id
           recs == WithNewRecord(Head(Bindings))
           kept == orphans \cup {next}
           live == Live(records) \cup {next}
           m == [Now EXCEPT !.records = recs]
           x == [Executor EXCEPT !.m = m]
<1>1. /\ Bindings # <<>> /\ CanPrepare(Head(Bindings))
      /\ DropLeaseFrom(recs, idle_backings)
      /\ next_resource_id' = next + 1 /\ orphans' = kept
  BY DEF AllocationFails
<1>2. /\ next \in Resources /\ next + 1 \in 1..(MaxResource + 1) /\ next \notin Live(records)
      /\ recs \in [Resources -> RecordType] /\ Live(recs) = live
      /\ Announced(recs) = Announced(records)
      /\ \A r \in live : r < next + 1
  BY <1>1, BindingTyped, Registration
<1> HIDE DEF recs, next
<1>3. /\ Executor \in ExecType /\ Now \in MemType
      /\ Executor.retained = retained /\ Executor.idle = idle_backings
  BY ExecutorAccounted DEF Executions
<1>4. m \in MemType /\ m.records = recs
  BY <1>2, <1>3 DEF MemType
<1> HIDE DEF m
<1>5. x \in ExecType /\ x.m = m /\ x.retained = retained /\ x.idle = idle_backings
  BY <1>3, <1>4 DEF ExecType
<1> HIDE DEF x
<1>6. /\ Owned(Live(records) \ orphans, Announced(records), Views(lease, retained), lost_dirty)
      /\ orphans \subseteq Live(records) /\ orphans \in SUBSET Resources
      /\ BackingsApart(retained, lease, idle_backings) /\ InUse(executing, retained)
  BY DEF LeaseInv, TypeOK
<1>7. Live(recs) \ kept = Live(records) \ orphans /\ kept \subseteq Live(recs)
  BY <1>2, <1>6
<1>8. x \in Executions(lease, lost_dirty, kept, executing, live)
  <2> HIDE DEF kept, live
  <2> QED BY <1>2, <1>4, <1>5, <1>6, <1>7 DEF Executions
<1>9. kept \in SUBSET Resources
  BY <1>2, <1>6
<1>10. x.m = [Now EXCEPT !.records = recs]
  BY <1>5 DEF m
<1> HIDE DEF kept, live
<1> QED BY <1>1, <1>2, <1>5, <1>8, <1>9, <1>10, DropLeaseFromKeeps

LEMMA NewViewTyped ==
  ASSUME TypeOK, NEW binding \in BindingType, NEW image \in BOOLEAN,
         next_resource_id \in Resources
  PROVE  /\ NewView(binding, image) \in ViewType
         /\ NewView(binding, image).resource = next_resource_id
         /\ NewView(binding, image).image = image
         /\ ~Announces(NewView(binding, image))
         /\ NewView(binding, image).lifecycle = "abandoned"
<1> DEFINE snapshot == [p \in Pages |-> IF p \in binding.pages THEN bytes[p] ELSE Zero]
           v == NewView(binding, image)
<1>1. snapshot \in [Pages -> Values]
  BY ConstantsTyped DEF TypeOK, SpaceTypeOK
<1>2. v = [resource |-> next_resource_id, pages |-> binding.pages,
           writes |-> binding.writes, image |-> image,
           uploaded |-> snapshot, gpu |-> snapshot,
           dirty |-> FALSE, stuck |-> FALSE, lifecycle |-> "abandoned"]
  BY DEF NewView
<1> HIDE DEF snapshot, v
<1>3. binding.pages \in Ranges /\ binding.writes \in BOOLEAN
  BY DEF BindingType
<1>4. v \in ViewType
  BY <1>1, <1>2, <1>3 DEF ViewType
<1>5. /\ v.resource = next_resource_id /\ v.image = image /\ v.lifecycle = "abandoned"
      /\ ~v.dirty /\ ~v.stuck
  BY <1>2
<1> QED BY <1>4, <1>5 DEF v, Announces

\* The lease in hand gets the next view.
LEMMA PrepareViewKeeps ==
  ASSUME LeaseInv, NEW binding \in BindingType, NEW image \in BOOLEAN,
         PrepareView(binding, image), host' \in HostType,
         host'.at = "buffers" => lease.backing = 0,
         host'.at \in {"buffers", "image"}, host'.at = "image" => image /\ HostAt("images")
  PROVE  LeaseInv'
<1> DEFINE v == NewView(binding, image)
           next == next_resource_id
           recs == WithNewRecord(binding)
           live == Live(records) \cup {next}
           V == Views(lease, retained)
           l == [lease EXCEPT !.views = Append(@, v)]
           X == Views(l, retained)
           m == [Now EXCEPT !.records = recs]
           e == [Executor EXCEPT !.m = m]
<1>1. /\ TypeOK /\ lease \in LeaseType /\ lease.views \in Seq(ViewType)
      /\ retained \in [Slots -> LeaseType] /\ HostConsistent
      /\ orphans \in SUBSET Resources /\ executing \in SUBSET Backings
      /\ Owned(Live(records) \ orphans, Announced(records), V, lost_dirty)
      /\ orphans \subseteq Live(records)
      /\ BackingsApart(retained, lease, idle_backings) /\ InUse(executing, retained)
  BY DEF LeaseInv, TypeOK, LeaseType
<1>2. /\ CanPrepare(binding) /\ records' = recs /\ next_resource_id' = next + 1
      /\ lease' = l /\ UNCHANGED <<retained, idle_backings, lost_dirty, device_lost, history>>
      /\ NoMemory /\ Elsewhere
  BY DEF PrepareView
<1>3. /\ next \in Resources /\ next + 1 \in 1..(MaxResource + 1) /\ next \notin Live(records)
      /\ recs \in [Resources -> RecordType] /\ Live(recs) = live
      /\ Announced(recs) = Announced(records)
      /\ \A r \in live : r < next + 1
  BY <1>2, Registration
<1>4. /\ v \in ViewType /\ v.resource = next /\ v.image = image /\ ~Announces(v)
      /\ v.lifecycle = "abandoned"
  BY <1>1, <1>3, NewViewTyped
<1> HIDE DEF v, recs, next
<1>5. /\ l \in LeaseType /\ l.backing = lease.backing /\ l.done = lease.done
      /\ l.views = Append(lease.views, v)
  <2> DEFINE W == Append(lease.views, v)
  <2>1. W \in Seq(ViewType) /\ l = [lease EXCEPT !.views = W]
    BY <1>1, <1>4
  <2> HIDE DEF W, l
  <2>2. /\ l \in LeaseType /\ l.backing = lease.backing /\ l.done = lease.done
        /\ l.views = W
    BY <1>1, <2>1 DEF LeaseType
  <2> QED BY <2>2 DEF W
<1> HIDE DEF l
<1>6. Owned((Live(records) \ orphans) \cup {next}, Announced(records), X, lost_dirty)
  <2>1. /\ 0 \in Holders /\ OthersStay(V, X, 0) /\ X[0] = Append(V[0], v)
        /\ V \in [Holders -> Seq(ViewType)]
    BY <1>1, <1>5, SlotsAreHolders, ViewsTyped DEF Views, OthersStay
  <2> HIDE DEF V, X
  <2>2. v.resource \notin Live(records) \ orphans
    BY <1>3, <1>4
  <2>3. Owned((Live(records) \ orphans) \cup {v.resource}, Announced(records), X, lost_dirty)
    BY <1>1, <1>4, <2>1, <2>2, AddView
  <2> QED BY <1>4, <2>3
<1>7. /\ Live(recs) \ orphans = (Live(records) \ orphans) \cup {next}
      /\ orphans \subseteq Live(recs)
  BY <1>1, <1>3
<1>8. /\ Executor \in ExecType /\ Now \in MemType
      /\ Executor.retained = retained /\ Executor.idle = idle_backings
  BY ExecutorAccounted DEF Executions
<1>9. m \in MemType /\ m.records = recs /\ Become(m)
  BY <1>2, <1>3, <1>8 DEF MemType, Become, NoMemory, Now
<1> HIDE DEF m
<1>10. e \in ExecType /\ e.m = m /\ e.retained = retained /\ e.idle = idle_backings
  BY <1>8, <1>9 DEF ExecType
<1> HIDE DEF e
<1>11. BackingsApart(retained, l, idle_backings)
  BY <1>1, <1>5 DEF BackingsApart
<1>12. e \in Executions(l, lost_dirty, orphans, executing, live)
  <2> HIDE DEF live, X, V
  <2> QED BY <1>1, <1>3, <1>6, <1>7, <1>9, <1>10, <1>11 DEF Executions, X
<1>13. HostStep(e) /\ orphans' = orphans /\ executing' = executing
  BY <1>2, <1>9, <1>10 DEF HostStep, ExecutorBecomes, history
<1>14. \A i \in DOMAIN l.views : \/ i \in DOMAIN lease.views /\ l.views[i] = lease.views[i]
                                 \/ l.views[i] = v
  BY <1>1, <1>4, <1>5
<1>15. HostConsistent'
  <2>1. Unseen(l)
    BY <1>1, <1>4, <1>5, <1>14 DEF HostConsistent, Unseen
  <2>2. CASE host'.at = "image"
    <3>1. HasBuffers => lease.backing # 0
      BY <1>1, <2>2 DEF HostConsistent, HostAt
    <3>2. (\E i \in DOMAIN l.views : ~l.views[i].image) => HasBuffers
      BY <1>4, <1>14, <2>2 DEF HasBuffers
    <3> QED BY <1>2, <1>5, <2>1, <2>2, <3>1, <3>2 DEF HostConsistent, HasBuffers
  <2>3. CASE host'.at = "buffers"
    BY <1>2, <1>5, <2>1, <2>3 DEF HostConsistent
  <2> QED BY <2>2, <2>3
<1> HIDE DEF live
<1> QED BY <1>1, <1>2, <1>3, <1>5, <1>12, <1>13, <1>15, HostStepKeeps

LEMMA PrepareBufferKeeps ==
  ASSUME LeaseInv, PrepareBuffer
  PROVE  LeaseInv'
<1>1. /\ host \in HostType /\ host.at = "buffers" /\ host.buffers # <<>>
      /\ host' = [host EXCEPT !.buffers = Tail(@)]
      /\ PrepareView(Head(host.buffers), FALSE) /\ lease.backing = 0
  BY DEF LeaseInv, TypeOK, HostConsistent, PrepareBuffer, HostAt
<1>2. Head(host.buffers) \in BindingType /\ Tail(host.buffers) \in Seq(BindingType)
  BY <1>1 DEF HostType
<1>3. host' \in HostType /\ host'.at = "buffers"
  BY <1>1, <1>2 DEF HostType
<1> QED BY <1>1, <1>2, <1>3, PrepareViewKeeps

LEMMA PrepareImageKeeps ==
  ASSUME LeaseInv, PrepareImage
  PROVE  LeaseInv'
<1>1. /\ host \in HostType /\ HostAt("images") /\ host.images # <<>>
      /\ host' = [host EXCEPT !.at = "image", !.images = Tail(@)]
      /\ PrepareView(Head(host.images), TRUE)
  BY DEF LeaseInv, TypeOK, PrepareImage
<1>2. Head(host.images) \in BindingType /\ Tail(host.images) \in Seq(BindingType)
  BY <1>1 DEF HostType
<1>3. host' \in HostType /\ host'.at = "image"
  BY <1>1, <1>2 DEF HostType
<1> QED BY <1>1, <1>2, <1>3, PrepareViewKeeps

\* A dispatch is given to the executor.
LEMMA PrepareKeeps ==
  ASSUME LeaseInv, NEW shape \in Shapes, Prepare(shape)
  PROVE  LeaseInv'
<1>1. shape.buffers \in Seq(BindingType) /\ shape.images \in Seq(BindingType)
  BY LeaseAssumption
<1>2. /\ host' = [Idle EXCEPT !.at = "buffers", !.buffers = shape.buffers,
                               !.images = shape.images]
      /\ UNCHANGED <<lease, retained, idle_backings, lost_dirty, device_lost, history>>
      /\ UNCHANGED recordVars /\ UNCHANGED spaceVars /\ host.at = "idle"
  BY DEF Prepare, HostAt
<1>3. host' \in HostType /\ host'.at = "buffers"
  <2>1. 0 \in 0..MaxRetained /\ 0 \in Nat
    BY ConstantsTyped
  <2> QED BY <1>1, <1>2, <2>1 DEF Idle, HostType
<1>4. lease = NoLease /\ Unseen(lease) /\ lease \in LeaseType
  BY <1>2, NoLeaseTyped DEF LeaseInv, HostConsistent
<1>5. HostConsistent'
  BY <1>2, <1>3, <1>4, NoLeaseTyped DEF HostConsistent
<1>6. Executor \in Executions(lease, lost_dirty, orphans, executing, Live(records))
  BY ExecutorAccounted
<1>7. HostStep(Executor) /\ lease' = lease /\ UNCHANGED <<next_resource_id, history>>
  BY <1>2, ExecutorAccounted DEF HostStep, ExecutorBecomes, Become, Now, Elsewhere,
     spaceVars, recordVars
<1> QED BY <1>3, <1>4, <1>5, <1>6, <1>7, HostStepStays

-----------------------------------------------------------------------------
(* The invariant.                                                          *)

LEMMA LeaseInvInit == Init => LeaseInv
<1> SUFFICES ASSUME Init PROVE LeaseInv
  OBVIOUS
<1>1. /\ 0 \in 0..MaxMappingGeneration /\ 0 \in Generations
      /\ 1 \in 1..(MaxResource + 1) /\ Zero \in Values /\ Pages = Locations
      /\ 0 \in 0..MaxRetained /\ 0 \in Nat /\ <<>> \in Seq(BindingType)
  BY ConstantsTyped DEF Generations
<1>2. SpaceTypeOK
  <2>1. {} \in SUBSET Pages /\ {} \in Protections \cup {{}}
    OBVIOUS
  <2> QED BY <1>1, <2>1 DEF Init, SpaceInit, SpaceTypeOK
<1>3. NoRecord \in RecordType /\ ~NoRecord.live /\ ~NoRecord.gpu_write_pending
  BY <1>1 DEF NoRecord, RecordType
<1>4. RecordTypeOK
  BY <1>1, <1>3 DEF Init, RecordInit, RecordTypeOK
<1>5. host \in HostType /\ host.at = "idle"
  BY <1>1 DEF Init, Idle, HostType
<1>6. TypeOK
  BY <1>2, <1>4, <1>5, NoLeaseTyped DEF Init, TypeOK
<1>7. Live(records) = {} /\ Announced(records) = {} /\ orphans = {}
  BY <1>3 DEF Init, RecordInit, Live, Announced
<1>8. \A o \in Holders : DOMAIN Views(lease, retained)[o] = {}
  BY NoLeaseTyped, SlotsAreHolders DEF Init, Views
<1>9. Owned(Live(records) \ orphans, Announced(records), Views(lease, retained), lost_dirty)
  BY <1>7, <1>8 DEF Init, Owned, Apart
<1>10. BackingsApart(retained, lease, idle_backings) /\ InUse(executing, retained)
  BY NoLeaseTyped DEF Init, BackingsApart, InUse
<1>11. HostConsistent
  BY <1>5, NoLeaseTyped DEF Init, HostConsistent, Unseen
<1> QED BY <1>6, <1>7, <1>9, <1>10, <1>11 DEF LeaseInv

LEMMA LeaseInvStep == LeaseInv /\ [Next]_vars => LeaseInv'
<1> SUFFICES ASSUME LeaseInv, [Next]_vars PROVE LeaseInv'
  OBVIOUS
<1>1. ASSUME NEW shape \in Shapes, Prepare(shape) PROVE LeaseInv'
  BY <1>1, PrepareKeeps
<1>2. CASE PrepareBuffer
  BY <1>2, PrepareBufferKeeps
<1>3. CASE FinishBuffers
  BY <1>3, FinishBuffersKeeps
<1>4. CASE PrepareBuffersFails
  BY <1>4, DropLeaseKeeps DEF PrepareBuffersFails
<1>5. CASE UploadFails
  BY <1>5, UploadFailsKeeps
<1>6. CASE PrepareImage
  BY <1>6, PrepareImageKeeps
<1>7. CASE FinishImage
  BY <1>7, FinishImageKeeps
<1>8. CASE PrepareImagesFails
  BY <1>8, DropLeaseKeeps DEF PrepareImagesFails
<1>9. CASE ReadFails
  BY <1>9, ReadFailsKeeps
<1>10. CASE AllocationFails
  BY <1>10, AllocationFailsKeeps
<1>11. ASSUME NEW stop \in Stops, Poll(stop) PROVE LeaseInv'
  BY <1>11, PollKeeps
<1>12. ASSUME NEW stop \in Stops, SubmitReclaims(stop) PROVE LeaseInv'
  BY <1>12, SubmitReclaimsKeeps
<1>13. CASE SubmitRefused
  BY <1>13, DropLeaseKeeps DEF SubmitRefused
<1>14. CASE SubmitFails
  BY <1>14, DropLeaseKeeps DEF SubmitFails
<1>15. CASE Submit
  BY <1>15, SubmitKeeps
<1>16. CASE MarkView
  BY <1>16, MarkViewKeeps
<1>17. CASE MarkFails
  BY <1>17, MarkFailsKeeps
<1>18. CASE WaitSucceeds
  BY <1>18, WaitSucceedsKeeps
<1>19. CASE WaitTimesOut
  BY <1>19, WaitTimesOutKeeps
<1>20. CASE DeviceLost
  BY <1>20, DeviceLostKeeps
<1>21. ASSUME NEW s \in Slots, GpuFinishes(s) PROVE LeaseInv'
  BY <1>21, GpuFinishesKeeps
<1>22. ASSUME NEW p \in Pages, NEW value \in Values, GuestWrite({p}, value) PROVE LeaseInv'
  BY <1>22, GuestWriteKeeps
<1>23. ASSUME NEW S \in Ranges, GuestUnmapFails(S) PROVE LeaseInv'
  BY <1>23, GuestUnmapFailsKeeps
<1>24. CASE GuestRemaps
  BY <1>24, GuestRemapsKeeps
<1>25. CASE UNCHANGED vars
  <2>1. SpaceTypeOK' /\ UNCHANGED <<recordVars, leaseVars>>
    BY <1>25 DEF LeaseInv, TypeOK, SpaceTypeOK, vars, spaceVars
  <2> QED BY <2>1, OnlySpaceKeeps DEF OnlySpace
<1> QED BY <1>1, <1>2, <1>3, <1>4, <1>5, <1>6, <1>7, <1>8, <1>9, <1>10, <1>11,
           <1>12, <1>13, <1>14, <1>15, <1>16, <1>17, <1>18, <1>19, <1>20, <1>21,
           <1>22, <1>23, <1>24, <1>25 DEF Next

\* Whatever the host thread, the GPU and the other threads do, every view of a
\* lease is registered once and announced exactly while it is dirty or stuck, what
\* else is registered is lost work or an orphan, device buffers have one holder and
\* those the GPU works with an unfinished one, and the lease in hand is one the GPU
\* has not seen.
THEOREM Invariance == Spec => []LeaseInv
BY LeaseInvInit, LeaseInvStep, PTL DEF Spec

\* The caches and the executor keep the types of their state: no id beyond those
\* there are, no device buffer beyond MaxBacking.
THEOREM TypeCorrect == Spec => []TypeOK
<1>1. LeaseInv => TypeOK
  BY DEF LeaseInv
<1> QED BY <1>1, Invariance, PTL

LEMMA InvOwned == LeaseInv => RecordsOwned
<1> SUFFICES ASSUME LeaseInv PROVE RecordsOwned
  OBVIOUS
<1> DEFINE V == Views(lease, retained)
           ids == Registered(HeldViews)
<1>1. /\ Owned(Live(records) \ orphans, Announced(records), V, lost_dirty)
      /\ orphans \subseteq Live(records)
  BY DEF LeaseInv
<1>2. ids = UNION {Ids(V[o]) : o \in Holders}
  BY HeldIsOwned
<1>3. \A o \in Holders : V[o] = ViewsOf(o)
  BY DEF Views, ViewsOf
<1> HIDE DEF V, ids
<1>4. {r \in Resources : records[r].live} = ids \cup lost_dirty \cup orphans
  <2>1. Live(records) \ orphans = ids \cup lost_dirty
    BY <1>1, <1>2 DEF Owned, Ids
  <2> QED BY <1>1, <2>1 DEF Live
<1>5. ids \cap lost_dirty = {} /\ orphans \cap (ids \cup lost_dirty) = {}
  BY <1>1, <1>2 DEF Owned, Ids
<1>6. \A o, p \in Holders : \A i \in DOMAIN ViewsOf(o), j \in DOMAIN ViewsOf(p) :
        ViewsOf(o)[i].resource = ViewsOf(p)[j].resource => o = p /\ i = j
  <2>1. Apart(V)
    BY <1>1 DEF Owned
  <2> QED BY <1>3, <2>1 DEF Apart
<1> QED BY <1>4, <1>5, <1>6 DEF RecordsOwned, ids

\* RecordsOwned: no registration is dropped under a lease that still needs it, and
\* none outlives its lease but those of lost work and of preparations that ran out
\* of memory between the registration and the list, whatever else fails between a
\* preparation and a completion.
THEOREM NothingLeaks == Spec => []RecordsOwned
BY InvOwned, Invariance, PTL

LEMMA InvPending == LeaseInv => PendingExact
<1> SUFFICES ASSUME LeaseInv PROVE PendingExact
  OBVIOUS
<1>1. Announced(records) = Dirt(Views(lease, retained)) \cup lost_dirty
  BY DirtExact DEF LeaseInv
<1>2. Dirt(Views(lease, retained)) =
        {v.resource : v \in {w \in HeldViews : w.dirty \/ w.stuck}}
  BY HeldIsOwned
<1> QED BY <1>1, <1>2 DEF PendingExact, Announced

\* PendingExact: gpu_write_pending of a record is set exactly while a submission
\* has not published its result, the device took it along or a rollback found the
\* record no longer current.
THEOREM AnnouncedExactly == Spec => []PendingExact
BY InvPending, Invariance, PTL

\* BackingOwnedOnce: two submissions never share a device buffer, and none is
\* handed out again while a lease holds it.
THEOREM BackingsOwnedOnce == Spec => []BackingOwnedOnce
<1>1. LeaseInv => BackingOwnedOnce
  BY DEF LeaseInv, BackingsApart, BackingOwnedOnce
<1> QED BY <1>1, Invariance, PTL

\* GpuBackingKept: no failure, time-out or reclaim takes a device buffer from the
\* submission the GPU still works on.
THEOREM BusyBackingsKept == Spec => []GpuBackingKept
<1>1. LeaseInv => GpuBackingKept
  BY DEF LeaseInv, InUse, GpuBackingKept
<1> QED BY <1>1, Invariance, PTL
=============================================================================

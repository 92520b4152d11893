----------------------------- MODULE GuestLeases -----------------------------
(***************************************************************************)
(* The leases of guest memory that translated compute work holds: the      *)
(* buffer cache and the image cache (src/src/gpu/vulkan/buffer_cache.cpp,  *)
(* image_cache.cpp) prepare snapshots of guest ranges, the executor        *)
(* (execution.cpp) submits them, retains what the GPU has not finished and *)
(* merges what it wrote back into guest memory.  One host thread runs the  *)
(* executor, and between its steps other threads write and remap memory.   *)
(***************************************************************************)
EXTENDS CoherenceRecords, Sequences, SequencesExt

CONSTANTS
  Shapes,         \* what a dispatch binds: its buffers and its images
  MaxRetained,    \* kMaximumVulkanComputeRetainedSubmissions
  MaxBacking,     \* device buffers that can exist
  LogicalSize,    \* logical_size of each of them, in pages
  MaxIdle         \* kMaximumIdleBackings

VARIABLES
  host,           \* what the host thread is doing
  lease,          \* the preparation that is not yet a submission
  retained,       \* the submissions in the executor's slots
  idle_backings,  \* device buffers kept for reuse
  lost_dirty,     \* lost_dirty_resources_ of the two caches
  device_lost,
  executing,      \* history: device buffers the GPU works with
  orphans         \* history: ids registered by a preparation that ran out of memory

history == <<executing, orphans>>
leaseVars == <<host, lease, retained, idle_backings, lost_dirty, device_lost, history>>
vars == <<spaceVars, recordVars, leaseVars>>

Slots == 1..MaxRetained
Backings == 1..MaxBacking

\* A descriptor: the pages of its range, and whether the GPU may write them.
Binding(pages, writes) == [pages |-> pages, writes |-> writes]
BindingType == [pages : Ranges, writes : BOOLEAN]

ASSUME LeaseAssumption ==
  /\ Shapes \subseteq [buffers : Seq(BindingType), images : Seq(BindingType)]
  /\ \A shape \in Shapes : shape.buffers # <<>> \/ shape.images # <<>>
  /\ LogicalSize \in [Backings -> Pages]
  /\ MaxRetained \in Nat \ {0} /\ MaxBacking \in Nat \ {0} /\ MaxIdle \in Nat
  /\ BackingSize = 0      \* titles run on host pages, which are never shared

NoLease == [views |-> <<>>, backing |-> 0, done |-> FALSE]
Idle == [at |-> "idle", slot |-> 0, view |-> 0, buffers |-> <<>>, images |-> <<>>]

Init ==
  /\ SpaceInit /\ RecordInit
  /\ host = Idle
  /\ lease = NoLease
  /\ retained = [s \in Slots |-> NoLease]
  /\ idle_backings = {}
  /\ lost_dirty = {}
  /\ device_lost = FALSE
  /\ executing = {} /\ orphans = {}

\* stuck: a rollback found the record no longer current and could not unmark it.
ViewType ==
  [resource : Resources, pages : Ranges, writes : BOOLEAN, image : BOOLEAN,
   uploaded : [Pages -> Values], gpu : [Pages -> Values], dirty : BOOLEAN,
   stuck : BOOLEAN, lifecycle : {"abandoned", "pending", "completed"}]

LeaseType == [views : Seq(ViewType), backing : 0..MaxBacking, done : BOOLEAN]

HostType ==
  [at : {"idle", "buffers", "image", "images", "ready", "mark", "wait"},
   slot : 0..MaxRetained, view : Nat, buffers : Seq(BindingType),
   images : Seq(BindingType)]

TypeOK ==
  /\ SpaceTypeOK /\ RecordTypeOK
  /\ host \in HostType
  /\ lease \in LeaseType
  /\ retained \in [Slots -> LeaseType]
  /\ idle_backings \in SUBSET Backings
  /\ lost_dirty \in SUBSET Resources
  /\ device_lost \in BOOLEAN
  /\ executing \in SUBSET Backings
  /\ orphans \in SUBSET Resources

HostAt(at) == host.at = at

-----------------------------------------------------------------------------
(* What the host thread does to the records and the bytes, as functions of  *)
(* [records, bytes, generation, exhausted]: it writes, takes its            *)
(* generations and runs its callbacks without leaving the call.             *)

Now == [records |-> records, bytes |-> bytes, generation |-> write_generation,
        exhausted |-> write_generation_exhausted]

Become(m) ==
  /\ records' = m.records /\ bytes' = m.bytes /\ write_generation' = m.generation
  /\ write_generation_exhausted' = m.exhausted

\* A checked write of the range R by the host, with its callback.
HostWrite(m, R, new) ==
  LET event == Event(R, m.generation)
  IN  [m EXCEPT !.bytes = [l \in Locations |-> IF l \in R THEN new[l] ELSE @[l]],
                !.generation = event.generation, !.exhausted = event.exhausted,
                !.records = [r \in Resources |-> Observed(@[r], event)]]

SetPending(m, r, pending) == [m EXCEPT !.records[r].gpu_write_pending = pending]
Current(m, r) == RecordIsCurrent(m.records[r])

\* The pages of a view that its GPU result may be published to: the GPU changed
\* them and memory still holds what was uploaded.
Mergeable(m, v) ==
  {p \in v.pages : v.gpu[p] # v.uploaded[p] /\ m.bytes[p] = v.uploaded[p]}

\* The three-way merge of one view, and whether it went through: the runs of
\* mergeable pages are written one by one.
Merge(m, v) ==
  LET pages   == Mergeable(m, v)
      run(p)  == {q \in pages : p <= q /\ p .. q \subseteq pages}
      Written(t, p) ==
        IF CanAccess(run(p), {"write"}) THEN [t EXCEPT !.m = HostWrite(@, run(p), v.gpu)]
        ELSE [t EXCEPT !.ok = FALSE]
      merged[p \in 0 .. Size] ==
        IF p = 0 THEN [m |-> m, ok |-> TRUE]
        ELSE IF p \in pages /\ p - 1 \notin pages /\ merged[p - 1].ok
             THEN Written(merged[p - 1], p) ELSE merged[p - 1]
  IN  CASE ~v.writes -> [m |-> m, ok |-> TRUE]
        [] v.writes /\ ~CanAccess(v.pages, {"read"}) -> [m |-> m, ok |-> FALSE]
        [] OTHER -> merged[Size]

-----------------------------------------------------------------------------
(* Completion, discard and loss.  A step s is [m, views, ok].               *)

Indices(views, image) == {i \in DOMAIN views : views[i].image = image}

\* One stage of a completion over some of the views, in order; it stops where it
\* fails.
Stage(s, indices, Do(_, _)) ==
  LET after[i \in 0 .. Len(s.views)] ==
        IF i = 0 THEN s
        ELSE IF i \in indices /\ after[i - 1].ok THEN Do(after[i - 1], i)
             ELSE after[i - 1]
  IN  after[Len(s.views)]

MergeView(s, i) ==
  LET done == Merge(s.m, s.views[i]) IN [s EXCEPT !.m = done.m, !.ok = done.ok]

\* InvalidateGpuWrite of one view.
ResolveView(s, i) ==
  CASE ~s.views[i].writes -> s
    [] s.views[i].writes /\ ~Current(s.m, s.views[i].resource) ->
         [s EXCEPT !.ok = FALSE]
    [] OTHER -> [s EXCEPT !.m = SetPending(@, s.views[i].resource, FALSE),
                          !.views[i].dirty = FALSE, !.views[i].stuck = FALSE]

\* VulkanGuestBufferCache::Complete: all merges, then all resolutions.  A device
\* buffer that cannot be read back fails before the first merge, which leaves
\* what a failing fence status at that slot leaves.
CompleteBuffers(s) ==
  LET indices == Indices(s.views, FALSE)
  IN  Stage(Stage(s, indices, MergeView), indices, ResolveView)

\* VulkanGuestImageCache::Complete checks the mapping before it merges.
CompleteImage(s, i) ==
  LET v == s.views[i]
      Completed(t) ==
        IF t.ok THEN [t EXCEPT !.views[i].lifecycle = "completed"] ELSE t
  IN  CASE ~v.writes -> Completed(s)
        [] /\ v.writes
           /\ \/ ~v.dirty \/ ~Current(s.m, v.resource)
              \/ ~s.m.records[v.resource].gpu_write_pending -> [s EXCEPT !.ok = FALSE]
        [] OTHER -> Completed(Stage(MergeView(s, i), {i}, ResolveView))

\* Buffers of a lease have one lifecycle, images one each.
Pending(views, image) ==
  {i \in Indices(views, image) : views[i].lifecycle = "pending"}

WithLifecycle(views, image, lifecycle) ==
  [i \in DOMAIN views |-> IF views[i].image = image
                          THEN [views[i] EXCEPT !.lifecycle = lifecycle] ELSE views[i]]

\* CompleteRetainedResources: what is completed is not completed again.
CompleteRetained(m, views) ==
  LET Completed(t) ==
        IF t.ok THEN [t EXCEPT !.views = WithLifecycle(@, FALSE, "completed")] ELSE t
      Buffers(s) ==
        IF Pending(views, FALSE) = {} THEN s ELSE Completed(CompleteBuffers(s))
  IN  Stage(Buffers([m |-> m, views |-> views, ok |-> TRUE]),
            Pending(views, TRUE), CompleteImage)

\* The ids a discard leaves registered because the device was lost.
Lost(views, lost) == IF lost THEN {v.resource : v \in {w \in views : w.dirty}} ELSE {}

Registered(views) == {v.resource : v \in views}

\* Discard of the leases whose views are given: the registrations go, except
\* those of lost work.
Unregister(recs, views, lost) ==
  [r \in Resources |-> IF r \in Registered(views) \ Lost(views, lost) THEN NoRecord
                       ELSE recs[r]]

\* backing_reusable: Complete of the buffers went through.
Reusable(views) ==
  \E i \in DOMAIN views : ~views[i].image /\ views[i].lifecycle = "completed"

\* The pool after a discard: it takes a reusable device buffer while it has
\* room, the others are destroyed.
IdleAfter(idle, backing, views, lost) ==
  IF ~lost /\ Reusable(views) /\ Cardinality(idle) < MaxIdle
  THEN idle \cup {backing} ELSE idle

\* The views of the lease in hand and of every retained submission.
HeldViews == ToSet(lease.views) \cup UNION {ToSet(retained[s].views) : s \in Slots}

\* MarkDeviceLost and DestroyLostRetainedSubmissions, with the lease in hand.
LoseDevice ==
  /\ device_lost' = TRUE
  /\ records' = Unregister(records, HeldViews, TRUE)
  /\ lost_dirty' = lost_dirty \cup Lost(HeldViews, TRUE)
  /\ retained' = [s \in Slots |-> NoLease]
  /\ lease' = NoLease
  /\ host' = Idle
  /\ executing' = {}
  /\ UNCHANGED <<bytes, write_generation, write_generation_exhausted,
                 idle_backings, orphans>>

\* The mappings are not touched.
Elsewhere ==
  UNCHANGED <<identity, protection, location, next_mapping_generation,
              mapping_generation_exhausted, reported>>

NoMemory == UNCHANGED <<bytes, write_generation, write_generation_exhausted>>

\* Variant for the checks: the registrations of a refused lease stay.
DropLeaseRegistered(recs, idle) ==
  /\ records' = recs
  /\ idle_backings' = IdleAfter(idle, lease.backing, lease.views, device_lost)
  /\ lease' = NoLease
  /\ host' = Idle
  /\ UNCHANGED <<retained, lost_dirty, device_lost, executing>>
  /\ NoMemory /\ Elsewhere

\* The preparation in hand is discarded, where recs and idle are the records and
\* the pool by then.
DropLeaseFrom(recs, idle) ==
  /\ records' = Unregister(recs, ToSet(lease.views), device_lost)
  /\ idle_backings' = IdleAfter(idle, lease.backing, lease.views, device_lost)
  /\ lease' = NoLease
  /\ host' = Idle
  /\ UNCHANGED <<retained, lost_dirty, device_lost, executing>>
  /\ NoMemory /\ Elsewhere

\* A discard and nothing else.
DropLease ==
  /\ DropLeaseFrom(records, idle_backings)
  /\ UNCHANGED <<next_resource_id, orphans>>

-----------------------------------------------------------------------------
(* Preparation.                                                             *)

\* The executor is given a dispatch, for as long as ids last.
Prepare(shape) ==
  /\ HostAt("idle")
  /\ next_resource_id <= MaxResource
  /\ host' = [Idle EXCEPT !.at = "buffers", !.buffers = shape.buffers,
                          !.images = shape.images]
  /\ UNCHANGED <<lease, retained, idle_backings, lost_dirty, device_lost, history>>
  /\ UNCHANGED recordVars /\ UNCHANGED spaceVars

\* The descriptors the caches go through: what is left of the buffers, then of the
\* images.
Bindings == CASE HostAt("buffers") -> host.buffers
              [] HostAt("images") -> host.images
              [] OTHER -> <<>>

\* Its range is mapped with the rights it needs and has a token, and an id is
\* left for it.
CanPrepare(binding) ==
  /\ CanAccess(binding.pages, {"read"})
  /\ binding.writes => CanAccess(binding.pages, {"write"})
  /\ HasToken(binding.pages)
  /\ next_resource_id <= MaxResource

WithNewRecord(binding) ==
  [records EXCEPT ![next_resource_id] = NewRecord(binding.pages)]

NewView(binding, image) ==
  LET snapshot == [p \in Pages |-> IF p \in binding.pages THEN bytes[p] ELSE Zero]
  IN  [resource |-> next_resource_id, pages |-> binding.pages,
       writes |-> binding.writes, image |-> image,
       uploaded |-> snapshot, gpu |-> snapshot,
       dirty |-> FALSE, stuck |-> FALSE, lifecycle |-> "abandoned"]

\* The next view of the lease: access checks, registration and the read.
PrepareView(binding, image) ==
  /\ CanPrepare(binding)
  /\ records' = WithNewRecord(binding)
  /\ next_resource_id' = next_resource_id + 1
  /\ lease' = [lease EXCEPT !.views = Append(@, NewView(binding, image))]
  /\ UNCHANGED <<retained, idle_backings, lost_dirty, device_lost, history>>
  /\ NoMemory /\ Elsewhere

\* One round of VulkanGuestBufferCache::Prepare.
PrepareBuffer ==
  /\ HostAt("buffers") /\ host.buffers # <<>>
  /\ PrepareView(Head(host.buffers), FALSE)
  /\ host' = [host EXCEPT !.buffers = Tail(@)]

\* Another thread took the rights away after the check, and the bytes cannot be
\* read: the registration is taken back with the rest, and its id used up.
ReadFails ==
  /\ Bindings # <<>>
  /\ CanPrepare(Head(Bindings))
  /\ DropLeaseFrom(records, idle_backings)
  /\ next_resource_id' = next_resource_id + 1
  /\ UNCHANGED orphans

\* There is no memory for the copy, the detiled image or the list of views: the
\* handler discards what the lists hold, and the registration is in none.
AllocationFails ==
  /\ Bindings # <<>>
  /\ CanPrepare(Head(Bindings))
  /\ DropLeaseFrom(WithNewRecord(Head(Bindings)), idle_backings)
  /\ next_resource_id' = next_resource_id + 1
  /\ orphans' = orphans \cup {next_resource_id}

\* Query and AcknowledgeCpuUpload of the generation it returned.
Acknowledged(record) == CanAcknowledge(record, record.generation)

Used == {lease.backing} \cup {retained[s].backing : s \in Slots}

\* backing_end: the pages from the first to the last of the lease's buffers.
BackingEnd ==
  LET bound == UNION {v.pages : v \in ToSet(lease.views)}
  IN  Cardinality({p \in Pages : \E a, b \in bound : a <= p /\ p <= b})

\* The smallest idle device buffer that is large enough, or a new one beside those
\* that are too small.
Candidates ==
  LET large == {b \in idle_backings : LogicalSize[b] >= BackingEnd}
      new   == {b \in Backings \ (Used \cup idle_backings) : LogicalSize[b] = BackingEnd}
  IN  IF large # {} THEN {b \in large : \A c \in large : LogicalSize[b] <= LogicalSize[c]}
      ELSE {b \in new : \A c \in new : b <= c}

\* Variant for the checks: a reused device buffer stays in the pool.
IdleShared(b) == idle_backings

IdleWithout(b) == idle_backings \ {b}

HasBuffers == \E i \in DOMAIN lease.views : ~lease.views[i].image

\* The uploads of the given views are acknowledged.
AcknowledgeViews(views) ==
  /\ \A v \in views : Acknowledged(records[v.resource])
  /\ records' = [r \in Resources |-> IF r \in Registered(views)
                                     THEN [records[r] EXCEPT !.needs_cpu_upload = FALSE]
                                     ELSE records[r]]
  /\ host' = [host EXCEPT !.at = "images"]
  /\ UNCHANGED <<retained, lost_dirty, device_lost, next_resource_id, history>>
  /\ NoMemory /\ Elsewhere

\* The rest of the buffers' Prepare: a device buffer, reused or new, and the
\* acknowledgements.
FinishBuffers ==
  /\ HostAt("buffers") /\ host.buffers = <<>>
  /\ AcknowledgeViews(ToSet(lease.views))
  /\ IF HasBuffers
     THEN \E b \in Candidates :
            /\ lease' = [lease EXCEPT !.backing = b]
            /\ idle_backings' = IdleWithout(b)
     ELSE UNCHANGED <<lease, idle_backings>>

\* VulkanGuestImageCache::Prepare of the next image, up to its snapshot ...
PrepareImage ==
  /\ HostAt("images") /\ host.images # <<>>
  /\ PrepareView(Head(host.images), TRUE)
  /\ host' = [host EXCEPT !.at = "image", !.images = Tail(@)]

\* ... and the rest of it.
FinishImage ==
  /\ HostAt("image")
  /\ AcknowledgeViews({Last(lease.views)})
  /\ UNCHANGED <<lease, idle_backings>>

\* Every descriptor has its lease, and the executor is called.
Prepared == HostAt("images") /\ host.images = <<>>

\* A descriptor, a range or a device resource is refused: the rollback of Prepare
\* discards the buffers.
PrepareBuffersFails ==
  /\ HostAt("buffers")
  /\ DropLease

\* A flush or an acknowledgement is refused when the device buffer is in hand: it
\* is destroyed, and if it was an idle one the pool has lost it.
UploadFails ==
  /\ HostAt("buffers") /\ host.buffers = <<>> /\ HasBuffers
  /\ \E b \in Candidates : DropLeaseFrom(records, IdleWithout(b))
  /\ UNCHANGED <<next_resource_id, orphans>>

\* An image, a view or a sampler cannot be prepared: the caller discards the
\* images and the buffers.
PrepareImagesFails ==
  /\ HostAt("image") \/ HostAt("images")
  /\ ~Prepared
  /\ DropLease

-----------------------------------------------------------------------------
(* The executor.                                                            *)

\* Variant for the checks: a slot is reclaimed before its fence has signalled.
ReclaimUnfinishedSlot(s, k) ==
  LET sub == s.retained[k]
      done == CompleteRetained(s.m, sub.views)
  IN  IF s.ok /\ sub # NoLease /\ done.ok
      THEN [m |-> [done.m EXCEPT !.records = Unregister(@, ToSet(done.views), FALSE)],
            retained |-> [s.retained EXCEPT ![k] = NoLease],
            idle |-> IdleAfter(s.idle, sub.backing, done.views, FALSE), ok |-> TRUE]
      ELSE s

\* One slot of the reclaim loop, on [m, retained, idle, ok]: a free slot or one
\* the GPU is not done with is passed; otherwise it is completed and freed, or
\* kept, which ends the loop.
ReclaimSlot(s, k) ==
  LET sub == s.retained[k]
      After(done) ==
        IF done.ok
        THEN [m |-> [done.m EXCEPT !.records = Unregister(@, ToSet(done.views), FALSE)],
              retained |-> [s.retained EXCEPT ![k] = NoLease],
              idle |-> IdleAfter(s.idle, sub.backing, done.views, FALSE),
              ok |-> TRUE]
        ELSE [s EXCEPT !.m = done.m, !.retained[k].views = done.views, !.ok = FALSE]
  IN  IF s.ok /\ sub.done THEN After(CompleteRetained(s.m, sub.views)) ELSE s

Executor == [m |-> Now, retained |-> retained, idle |-> idle_backings, ok |-> TRUE]

\* ReclaimCompletedLocked over the slots before stop; at stop, if it is a slot,
\* vkGetFenceStatus fails.
Reclaimed(stop) ==
  LET after[k \in 0 .. (stop - 1)] ==
        IF k = 0 THEN Executor ELSE ReclaimSlot(after[k - 1], k)
  IN  [after[stop - 1] EXCEPT !.ok = @ /\ stop > MaxRetained]

Stops == {k \in Slots : retained[k] # NoLease} \cup {MaxRetained + 1}

ExecutorBecomes(after) ==
  /\ Become(after.m)
  /\ retained' = after.retained
  /\ idle_backings' = after.idle

\* PollCompleted.
Poll(stop) ==
  /\ HostAt("idle")
  /\ ~device_lost
  /\ ExecutorBecomes(Reclaimed(stop))
  /\ UNCHANGED <<host, lease, lost_dirty, device_lost, next_resource_id, history>>
  /\ Elsewhere

\* What reclaiming leaves for the lease in hand: it goes on if there is a free
\* slot, and is dropped if the loop failed or every slot is taken.
Admit(after) ==
  IF after.ok /\ \E k \in Slots : after.retained[k] = NoLease
  THEN /\ ExecutorBecomes(after)
       /\ host' = [Idle EXCEPT !.at = "ready"]
       /\ UNCHANGED lease
  ELSE /\ ExecutorBecomes(
            [after EXCEPT
               !.m.records = Unregister(@, ToSet(lease.views), FALSE),
               !.idle = IdleAfter(@, lease.backing, lease.views, FALSE)])
       /\ host' = Idle
       /\ lease' = NoLease

\* SubmitTranslatedPrepared up to the slot.
SubmitReclaims(stop) ==
  /\ Prepared
  /\ ~device_lost
  /\ Admit(Reclaimed(stop))
  /\ UNCHANGED <<lost_dirty, device_lost, next_resource_id, history>> /\ Elsewhere

\* The arguments are invalid or the device is lost already: the lease is dropped.
SubmitRefused ==
  /\ Prepared
  /\ DropLease

\* A call before the queue takes the work fails, and the transaction drops the
\* lease with what was built for it.
SubmitFails ==
  /\ HostAt("ready")
  /\ DropLease

\* The queue takes the work, and it gets a slot.
Submit ==
  /\ HostAt("ready")
  /\ \E s \in Slots :
       /\ retained[s] = NoLease
       /\ \A t \in Slots : retained[t] = NoLease => s <= t
       /\ retained' = [retained EXCEPT ![s] = lease]
       /\ host' = [Idle EXCEPT !.at = "mark", !.slot = s, !.view = 1]
  /\ executing' = executing \cup ({lease.backing} \ {0})
  /\ lease' = NoLease
  /\ UNCHANGED <<idle_backings, lost_dirty, device_lost, orphans>>
  /\ UNCHANGED recordVars /\ UNCHANGED spaceVars

\* The views as they are after view i is marked: the buffers are pending once all
\* of them are marked, an image once it is.
Marked(views, i) ==
  LET marked == [views EXCEPT ![i].dirty = @ \/ views[i].writes]
  IN  CASE views[i].image -> [marked EXCEPT ![i].lifecycle = "pending"]
        [] ~views[i].image /\ \A j \in DOMAIN views : j > i => views[j].image ->
             WithLifecycle(marked, FALSE, "pending")
        [] OTHER -> marked

Marking == HostAt("mark") /\ host.view \in DOMAIN retained[host.slot].views

\* The submitted view whose turn it is, and whether MarkGpuWrite refuses it.
MarkedView == retained[host.slot].views[host.view]
MarkRefused == MarkedView.writes /\ ~RecordIsCurrent(records[MarkedView.resource])

\* MarkSubmitted: one view is announced as about to be written; after the last
\* one the host waits for the fence.
MarkView ==
  /\ Marking /\ ~MarkRefused
  /\ records' = IF MarkedView.writes
                THEN [records EXCEPT ![MarkedView.resource].gpu_write_pending = TRUE]
                ELSE records
  /\ retained' = [retained EXCEPT ![host.slot].views = Marked(@, host.view)]
  /\ host' = IF host.view < Len(retained[host.slot].views)
             THEN [host EXCEPT !.view = @ + 1] ELSE [host EXCEPT !.at = "wait", !.view = 0]
  /\ UNCHANGED <<lease, idle_backings, lost_dirty, device_lost, history,
                 next_resource_id>>
  /\ NoMemory /\ Elsewhere

\* The buffers announced so far, which a buffer that is refused takes back.
Prior == IF MarkedView.image THEN {}
         ELSE {j \in 1 .. (host.view - 1) : retained[host.slot].views[j].writes}

\* Variant for the checks: the rollback leaves the records pending.
UnmarkedKept == records

\* InvalidateGpuWrite of the prior views, whose result nobody looks at.
Unmarked ==
  LET prior == {retained[host.slot].views[j].resource : j \in Prior}
  IN  [r \in Resources |-> IF r \in prior /\ RecordIsCurrent(records[r])
                           THEN [records[r] EXCEPT !.gpu_write_pending = FALSE]
                           ELSE records[r]]

\* A view cannot be marked: the submission keeps its slot, and nobody waits.
MarkFails ==
  LET views == retained[host.slot].views
  IN  /\ Marking /\ MarkRefused
      /\ records' = Unmarked
      /\ retained' = [retained EXCEPT ![host.slot].views =
                        [j \in DOMAIN views |->
                           IF j \in Prior
                           THEN [views[j] EXCEPT
                                   !.dirty = FALSE,
                                   !.stuck = ~RecordIsCurrent(records[views[j].resource])]
                           ELSE views[j]]]
      /\ host' = Idle
      /\ UNCHANGED <<lease, idle_backings, lost_dirty, device_lost, history,
                     next_resource_id>>
      /\ NoMemory /\ Elsewhere

\* The fence signals in time: complete at once.
WaitSucceeds ==
  /\ HostAt("wait")
  /\ retained[host.slot].done
  /\ ExecutorBecomes(ReclaimSlot(Executor, host.slot))
  /\ host' = Idle
  /\ UNCHANGED <<lease, lost_dirty, device_lost, next_resource_id, history>>
  /\ Elsewhere

\* The wait times out or fails: the submission keeps its slot and its leases.
WaitTimesOut ==
  /\ HostAt("wait")
  /\ host' = Idle
  /\ UNCHANGED <<lease, retained, idle_backings, lost_dirty, device_lost, history>>
  /\ UNCHANGED recordVars /\ UNCHANGED spaceVars

\* A call of the executor finds the device lost: a fence status, the queue or
\* the wait says so.
DeviceLost ==
  /\ Prepared \/ HostAt("idle") \/ HostAt("ready") \/ HostAt("wait")
  /\ Prepared \/ HostAt("idle") => Stops # {MaxRetained + 1}
  /\ ~device_lost
  /\ LoseDevice
  /\ UNCHANGED next_resource_id /\ Elsewhere

\* The GPU finishes a submission and has written what its views allow.
GpuFinishes(s) ==
  LET views == retained[s].views
      Results(v) == {g \in [Pages -> Values] :
                       \A p \in Pages : (p \in v.pages /\ v.writes) \/ g[p] = v.gpu[p]}
  IN  /\ ~retained[s].done /\ views # <<>>
      /\ \E result \in [DOMAIN views -> [Pages -> Values]] :
           /\ \A i \in DOMAIN views : result[i] \in Results(views[i])
           /\ retained' = [retained EXCEPT
                ![s].done = TRUE,
                ![s].views = [i \in DOMAIN views |->
                                [views[i] EXCEPT !.gpu = result[i]]]]
      /\ executing' = executing \ {retained[s].backing}
      /\ UNCHANGED <<host, lease, idle_backings, lost_dirty, device_lost, orphans>>
      /\ UNCHANGED recordVars /\ UNCHANGED spaceVars

\* Another thread writes memory, for as long as generations last.
GuestWrite(S, value) ==
  /\ ~write_generation_exhausted
  /\ CanAccess(S, {"write"})
  /\ Become(HostWrite(Now, S, [l \in Locations |-> value]))
  /\ UNCHANGED <<next_resource_id, leaseVars>> /\ Elsewhere

\* An Unmap of another thread fails after it cleared the bytes, which it reports.
GuestUnmapFails(S) ==
  /\ ~write_generation_exhausted
  /\ Mapped(S)
  /\ Become(HostWrite(Now, S, [l \in Locations |-> Zero]))
  /\ UNCHANGED <<next_resource_id, leaseVars>> /\ Elsewhere

\* Another thread maps, protects and unmaps.
GuestRemaps ==
  /\ \/ \E S \in Ranges, rights \in Protections : Map(S, rights) \/ Protect(S, rights)
     \/ MapFails
     \/ \E S \in Ranges : Unmap(S)
  /\ UNCHANGED <<recordVars, leaseVars>>

Next ==
  \/ \E shape \in Shapes : Prepare(shape)
  \/ PrepareBuffer \/ FinishBuffers \/ PrepareBuffersFails \/ UploadFails
  \/ PrepareImage \/ FinishImage \/ PrepareImagesFails
  \/ ReadFails \/ AllocationFails
  \/ \E stop \in Stops : Poll(stop) \/ SubmitReclaims(stop)
  \/ SubmitRefused \/ SubmitFails \/ Submit \/ MarkView \/ MarkFails
  \/ WaitSucceeds \/ WaitTimesOut \/ DeviceLost
  \/ \E s \in Slots : GpuFinishes(s)
  \/ \E p \in Pages, value \in Values : GuestWrite({p}, value)
  \/ \E S \in Ranges : GuestUnmapFails(S)
  \/ GuestRemaps

Spec == Init /\ [][Next]_vars

-----------------------------------------------------------------------------
(* Properties.                                                              *)

\* The views of one holder: a slot, or the host thread with the lease in hand.
Holders == {0} \cup Slots
ViewsOf(o) == IF o = 0 THEN lease.views ELSE retained[o].views

\* Who owns a registration: the registered ids are exactly the ids of the leases
\* still held, those kept for lost work and those of preparations that ran out of
\* memory between registration and list, and each has one owner, whatever else is
\* refused, fails, times out or is lost on the way.
RecordsOwned ==
  LET ids == Registered(HeldViews)
  IN  /\ {r \in Resources : records[r].live} = ids \cup lost_dirty \cup orphans
      /\ ids \cap lost_dirty = {}
      /\ orphans \cap (ids \cup lost_dirty) = {}
      /\ \A o, p \in Holders : \A i \in DOMAIN ViewsOf(o), j \in DOMAIN ViewsOf(p) :
           ViewsOf(o)[i].resource = ViewsOf(p)[j].resource => o = p /\ i = j

\* A range is announced as about to be written by the GPU exactly while some
\* submission has not published its result or the device took it along, and
\* where a rollback could not take the announcement back.
PendingExact ==
  {r \in Resources : records[r].gpu_write_pending} =
    {v.resource : v \in {w \in HeldViews : w.dirty \/ w.stuck}} \cup lost_dirty

\* A device buffer has one owner: the pool of idle ones, the lease in hand or one
\* submission.
BackingOwnedOnce ==
  /\ \A s, t \in Slots : (s # t /\ retained[s].backing # 0) =>
                            retained[s].backing # retained[t].backing
  /\ \A s \in Slots : retained[s].backing \notin idle_backings
  /\ lease.backing = 0 \/ lease.backing \notin
       idle_backings \cup {retained[s].backing : s \in Slots}

\* A device buffer the GPU works with belongs to a submission whose fence has not
\* signalled: no time-out, failure or refused mark gives it back to the pool,
\* hands it to another dispatch or destroys it before.
GpuBackingKept ==
  \A b \in executing : \E s \in Slots : retained[s].backing = b /\ ~retained[s].done

\* What gpu/vulkan/buffer_cache.h lines 103-104 say of Discard: the registrations
\* of a preparation that fails are released.
FailedPreparationReleases ==
  {r \in Resources : records[r].live} \subseteq Registered(HeldViews) \cup lost_dirty

\* What gpu/vulkan/buffer_cache.h lines 110-111 say of Complete: as long as the
\* buffers of a submission are not completed, each one it writes is dirty.
FailedCompletionKeepsPending ==
  \A s \in Slots :
    LET views == retained[s].views
    IN  Pending(views, FALSE) # {} =>
          \A i \in Indices(views, FALSE) : views[i].writes => views[i].dirty
=============================================================================

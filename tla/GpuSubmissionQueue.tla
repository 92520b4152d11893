------------------------- MODULE GpuSubmissionQueue -------------------------
(***************************************************************************)
(* The submission queues of src/src/gpu/submission_queue.cpp: one FIFO for *)
(* graphics (queue 0) and one per compute owner, an exact cursor per       *)
(* submission, and Drain, which every accepted driver submission runs      *)
(* (hle/agc_exports.cpp FinishDriverSubmission).  Drain holds the queue's  *)
(* lock from its first packet to its last and the guest's host thread is   *)
(* inside it, so no guest step happens while drain # Idle; only the host   *)
(* GPU runs on.  Drain is modelled one decoded packet per step.            *)
(***************************************************************************)
EXTENDS CommandCursor, VulkanActionBridge, FiniteSetsExt

CONSTANTS
  MaxOwner,               \* compute owners are 1..MaxOwner, drained in order
  MaxValue,               \* largest label value the guest stores
  MaxBatch,               \* largest number of buffers of a batch call
  MaxSubmissionId,        \* largest value of the 64-bit submission counter
  MaxPendingSubmissions,  \* GpuQueueLimits::max_pending_submissions
  MaxPendingDwords,       \* GpuQueueLimits::max_pending_root_dwords
  MaxDrainPasses          \* GpuQueueLimits::max_drain_passes

VARIABLES
  queues,               \* graphics_ and compute_queues_
  next_submission_id,   \* 0 once the counter has wrapped
  pending_submissions,
  pending_root_dwords,
  memory,               \* the labels in guest memory
  drain,                \* how far the running Drain is, or Idle
  failed                \* a submission has failed: first_failure of the Drain

queueVars == <<queues, next_submission_id, pending_submissions,
               pending_root_dwords>>
vars == <<queueVars, memory, drain, failed, bridgeVars>>

Queues == 0..MaxOwner
Idle == [queue |-> MaxOwner + 2, pass |-> 0, progressed |-> FALSE]
PassStart(pass) == [queue |-> 0, pass |-> pass, progressed |-> FALSE]

ASSUME QueueAssumption ==
  /\ MaxOwner \in Nat /\ MaxValue \in Nat /\ MaxBatch \in Nat \ {0}
  /\ MaxSubmissionId \in Nat \ {0} /\ MaxPendingSubmissions \in Nat \ {0}
  /\ MaxPendingDwords \in Nat \ {0} /\ MaxDrainPasses \in Nat \ {0}

Init ==
  /\ queues = [q \in Queues |-> <<>>]
  /\ next_submission_id = 1
  /\ pending_submissions = 0 /\ pending_root_dwords = 0
  /\ memory = [l \in Labels |-> 0]
  /\ drain = Idle
  /\ failed = FALSE
  /\ BridgeInit

-----------------------------------------------------------------------------
(* Submission.  A refused call changes nothing and is not a step.  The call *)
(* whose Drain met a failed submission returns a status that stops the      *)
(* guest and fails the session: no guest step follows.                      *)

GuestRuns == drain = Idle /\ ~failed

Dwords(b) == Len(Code[b])
TotalDwords(bufs) == FoldLeft(LAMBDA n, b : n + Dwords(b), 0, bufs)

\* Prepare and Commit for one buffer.
CanEnqueue(b) ==
  /\ pending_submissions < MaxPendingSubmissions
  /\ Dwords(b) + pending_root_dwords <= MaxPendingDwords
  /\ next_submission_id # 0

\* Variant for the checks: a batch is admitted while one more buffer fits.
CanEnqueueBatchIfOneFits(bufs) ==
  /\ pending_submissions < MaxPendingSubmissions
  /\ pending_root_dwords + TotalDwords(bufs) <= MaxPendingDwords
  /\ next_submission_id # 0
  /\ next_submission_id + Len(bufs) - 1 <= MaxSubmissionId

\* EnqueueBatch: the limits are checked for the whole batch at once.
CanEnqueueBatch(bufs) ==
  /\ pending_submissions + Len(bufs) <= MaxPendingSubmissions
  /\ pending_root_dwords + TotalDwords(bufs) <= MaxPendingDwords
  /\ next_submission_id # 0
  /\ next_submission_id + Len(bufs) - 1 <= MaxSubmissionId

\* The submissions of a call, with consecutive ids.
Submissions(bufs) ==
  [i \in DOMAIN bufs |->
     [id |-> next_submission_id + i - 1, dwords |-> Dwords(bufs[i]),
      cursor |-> BeginCommandBuffer(bufs[i])]]

Enqueue(q, bufs) ==
  /\ queues' = [queues EXCEPT ![q] = @ \o Submissions(bufs)]
  /\ next_submission_id' =
       (next_submission_id + Len(bufs)) % (MaxSubmissionId + 1)
  /\ pending_submissions' = pending_submissions + Len(bufs)
  /\ pending_root_dwords' = pending_root_dwords + TotalDwords(bufs)
  /\ drain' = PassStart(0)
  /\ UNCHANGED <<memory, failed, bridgeVars>>

\* sceAgcDriverSubmitDcb, ...SubmitAcb and the direct form.
SubmitCommandBuffer(q, b) ==
  /\ GuestRuns
  /\ CanEnqueue(b)
  /\ Enqueue(q, <<b>>)

\* The multi-buffer calls: every buffer must be readable before any is queued.
SubmitCommandBufferBatch(q, bufs) ==
  /\ GuestRuns
  /\ CanEnqueueBatch(bufs)
  /\ Enqueue(q, bufs)

\* The guest stores to a label between two driver calls.
GuestStore(l, v) ==
  /\ GuestRuns
  /\ memory[l] # v
  /\ memory' = [memory EXCEPT ![l] = v]
  /\ UNCHANGED <<queueVars, drain, failed, bridgeVars>>

-----------------------------------------------------------------------------
(* Drain.  The steps below act on the front submission of queue             *)
(* drain.queue, in the order ProcessFrames takes them.                      *)

Draining == drain.queue \in Queues
HasFront == Draining /\ queues[drain.queue] # <<>>
FrontCursor == Head(queues[drain.queue]).cursor

Update(c) == queues' = [queues EXCEPT ![drain.queue][1].cursor = c]
LeaveQueue == drain' = [drain EXCEPT !.queue = @ + 1]

\* Variant for the checks: only a retired submission counts as progress.
ActionUncounted(parked) ==
  drain' = [drain EXCEPT !.queue = IF parked THEN @ + 1 ELSE @]

\* submitted_actions has grown, so the pass has made progress.
ActionSubmitted(parked) ==
  drain' = [drain EXCEPT !.progressed = TRUE,
                         !.queue = IF parked THEN @ + 1 ELSE @]

Counts == <<next_submission_id, pending_submissions, pending_root_dwords>>

\* The front submission is complete or has failed: both are retired alike, and
\* the queue goes on.
Retire ==
  /\ queues' = [queues EXCEPT ![drain.queue] = Tail(@)]
  /\ pending_submissions' = pending_submissions - 1
  /\ pending_root_dwords' =
       pending_root_dwords - Head(queues[drain.queue]).dwords
  /\ drain' = [drain EXCEPT !.progressed = TRUE]
  /\ UNCHANGED next_submission_id

QueueEmpty ==
  /\ Draining /\ ~HasFront
  /\ LeaveQueue
  /\ UNCHANGED <<queueVars, memory, failed, bridgeVars>>

WaitHolds(p) == CompareWait(memory[p.arg], p.val, p.fn)

\* Variant for the checks: a blocked submission does not end the queue's turn.
WaitSpins ==
  /\ HasFront /\ FrontCursor.wait
  /\ ~WaitHolds(CurrentPacket(FrontCursor))
  /\ UNCHANGED <<queueVars, memory, drain, failed, bridgeVars>>

\* ResumePendingWait re-reads the label, once per visit of the queue.
WaitStillFalse ==
  /\ HasFront /\ FrontCursor.wait
  /\ ~WaitHolds(CurrentPacket(FrontCursor))
  /\ LeaveQueue
  /\ UNCHANGED <<queueVars, memory, failed, bridgeVars>>

WaitReleased ==
  /\ HasFront /\ FrontCursor.wait
  /\ WaitHolds(CurrentPacket(FrontCursor))
  /\ Update(ResumePendingWait(FrontCursor))
  /\ UNCHANGED <<Counts, memory, drain, failed, bridgeVars>>

FinishFrame ==
  /\ HasFront /\ ~FrontCursor.wait /\ ~AtEnd(FrontCursor)
  /\ FrameDone(FrontCursor)
  /\ Update(PopFrame(FrontCursor))
  /\ UNCHANGED <<Counts, memory, drain, failed, bridgeVars>>

FinishSubmission ==
  /\ HasFront /\ ~FrontCursor.wait /\ AtEnd(FrontCursor)
  /\ Retire
  /\ UNCHANGED <<memory, failed, bridgeVars>>

\* The next packet of the front submission, decoded and counted.
AtPacket ==
  /\ HasFront /\ ~FrontCursor.wait /\ ~AtEnd(FrontCursor)
  /\ ~FrameDone(FrontCursor)

Decodes(op) ==
  /\ AtPacket /\ WithinBudget(FrontCursor) /\ CanEmit(FrontCursor)
  /\ CurrentPacket(FrontCursor).op \in op

(* Everything that stops a submission for good before its packet has an     *)
(* effect: the budgets, a bad packet, an unmapped label, and, after the     *)
(* call's action was emitted, a buffer that cannot be entered.              *)
PacketFails ==
  LET c == FrontCursor
      p == CurrentPacket(c)
  IN  /\ AtPacket
      /\ \/ ~WithinBudget(c)
         \/ p.op = "bad"
         \/ ~CanEmit(c)
         \/ p.op \in {"write", "wait"} /\ p.arg \notin Labels
         \/ /\ p.op = "call" /\ p.arg # NoBuffer
            /\ ~CanSnapshot(c.frames, p.arg)
      /\ Retire
      /\ failed' = TRUE
      /\ UNCHANGED <<memory, bridgeVars>>

WriteLabel ==
  LET c == FrontCursor
      p == CurrentPacket(c)
  IN  /\ Decodes({"write"}) /\ p.arg \in Labels
      /\ memory' = [memory EXCEPT ![p.arg] = p.val]
      /\ Update(Advance(Emit(Count(c)), Len(c.frames)))
      /\ ActionSubmitted(FALSE)
      /\ UNCHANGED <<Counts, failed, bridgeVars>>

\* A wait that holds at once passes; otherwise the cursor parks on it.
ReachWait ==
  LET c == FrontCursor
      p == CurrentPacket(c)
  IN  /\ Decodes({"wait"}) /\ p.arg \in Labels
      /\ \/ /\ WaitHolds(p)
            /\ Update(Advance(Emit(Count(c)), Len(c.frames)))
            /\ ActionSubmitted(FALSE)
         \/ /\ ~WaitHolds(p)
            /\ Update(StartWait(Count(c)))
            /\ ActionSubmitted(TRUE)
      /\ UNCHANGED <<Counts, memory, failed, bridgeVars>>

CallBuffer ==
  LET c == FrontCursor
      p == CurrentPacket(c)
  IN  /\ Decodes({"call"})
      /\ \/ /\ p.arg = NoBuffer
            /\ Update(Advance(Emit(Count(c)), Len(c.frames)))
         \/ /\ p.arg # NoBuffer /\ CanSnapshot(c.frames, p.arg)
            /\ Update(EnterIndirectBuffer(Count(c), p.arg))
      /\ ActionSubmitted(FALSE)
      /\ UNCHANGED <<Counts, memory, failed, bridgeVars>>

(* A draw or dispatch goes through the bridge.  When it blocks, the packet  *)
(* has been counted but neither emitted nor passed: the next visit decodes  *)
(* it again.                                                                *)
DrawOrDispatch(status) ==
  LET c == FrontCursor
      p == CurrentPacket(c)
      id == Head(queues[drain.queue]).id
  IN  /\ Decodes({"draw", "dispatch"})
      /\ BridgeSubmit(p.op, p.arg, <<Top(c).buf, Top(c).offset, p>>,
                      <<id, c.actions>>, status)
      /\ \/ /\ status = "completed"
            /\ Update(Advance(Emit(Count(c)), Len(c.frames)))
            /\ ActionSubmitted(FALSE)
            /\ UNCHANGED Counts
         \/ /\ status = "blocked"
            /\ Update(Count(c))
            /\ LeaveQueue
            /\ UNCHANGED Counts
         \/ /\ status = "failed"
            /\ Retire
      /\ failed' = (failed \/ status = "failed")
      /\ UNCHANGED memory

\* Another pass while something moved, at most MaxDrainPasses of them.
EndPass ==
  /\ drain.queue = MaxOwner + 1
  /\ drain' = IF drain.progressed /\ drain.pass + 1 < MaxDrainPasses
              THEN PassStart(drain.pass + 1) ELSE Idle
  /\ UNCHANGED <<queueVars, memory, failed, bridgeVars>>

DrainStep ==
  \/ QueueEmpty \/ WaitStillFalse \/ WaitReleased \/ FinishFrame
  \/ FinishSubmission \/ PacketFails \/ WriteLabel \/ ReachWait \/ CallBuffer
  \/ \E status \in {"completed", "blocked", "failed"} : DrawOrDispatch(status)
  \/ EndPass

GuestStep ==
  \/ \E q \in Queues, b \in Buffers : SubmitCommandBuffer(q, b)
  \/ \E q \in Queues, bufs \in BoundedSeq(Buffers, MaxBatch) :
       bufs # <<>> /\ SubmitCommandBufferBatch(q, bufs)
  \/ \E l \in Labels, v \in 0..MaxValue : GuestStore(l, v)

HostFence ==
  /\ FenceSignals
  /\ UNCHANGED <<queueVars, memory, drain, failed>>

Next == DrainStep \/ GuestStep \/ HostFence

Spec == Init /\ [][Next]_vars

\* The host thread inside Drain keeps running; the guest need not submit.
FairSpec == Spec /\ WF_vars(DrainStep)

-----------------------------------------------------------------------------
(* Properties *)

AllSubmissions ==
  UNION {{queues[q][i] : i \in DOMAIN queues[q]} : q \in Queues}

TypeOK ==
  /\ DOMAIN queues = Queues
  /\ \A s \in AllSubmissions :
       /\ s.id \in 1..MaxSubmissionId
       /\ s.cursor.actions \in 0..MaxActions
       /\ s.cursor.processed \in 0..MaxProcessed
       /\ Len(s.cursor.frames) <= MaxIndirectDepth + 1
  /\ next_submission_id \in 0..MaxSubmissionId
  /\ memory \in [Labels -> 0..MaxValue]
  /\ drain \in [queue : 0..(MaxOwner + 2), pass : 0..(MaxDrainPasses - 1),
                progressed : BOOLEAN]
  /\ failed \in BOOLEAN
  /\ enabled \in BOOLEAN
  /\ Cardinality(RetainedBy("draw", retained)) <= MaxRetained
  /\ Cardinality(RetainedBy("dispatch", retained)) <= MaxRetained

(* The two counters the limits are enforced with always agree with the      *)
(* queues, whatever completed, failed or was admitted as a batch, and the   *)
(* limits hold; every submission has an id of its own, also at the end of   *)
(* the id range, and each queue holds them in order of submission           *)
(* (submission_queue.cpp EnqueueBatch, Prepare, Commit, Drain).             *)
PendingAccounted ==
  /\ pending_submissions = Cardinality(AllSubmissions)
  /\ pending_root_dwords = MapThenSumSet(LAMBDA s : s.dwords, AllSubmissions)
  /\ pending_submissions <= MaxPendingSubmissions
  /\ pending_root_dwords <= MaxPendingDwords
  /\ \A s, t \in AllSubmissions : s.id = t.id => s = t
  /\ \A q \in Queues : \A i, j \in DOMAIN queues[q] :
       i < j => queues[q][i].id < queues[q][j].id

(* However often a submission is parked on a wait or on host work and       *)
(* resumed, the sink has received exactly the packets of the buffer as the  *)
(* reference expansion orders them: none skipped, repeated or reordered     *)
(* ("exact nested cursor", README.md; ResumePendingWait, ProcessFrames).    *)
ExecutesProgram ==
  \A s \in AllSubmissions :
    LET whole == Expansion[MaxIndirectDepth + 1][s.cursor.root]
    IN  /\ IsPrefix(s.cursor.sunk, whole)
        /\ AtEnd(s.cursor) => s.cursor.sunk = whole

\* The submission can do nothing until a label or a fence changes.
Stuck(c) ==
  \/ c.wait /\ ~WaitHolds(CurrentPacket(c))
  \/ /\ enabled /\ ~c.wait /\ ~AtEnd(c) /\ ~FrameDone(c)
     /\ CurrentPacket(c).op \in {"draw", "dispatch"}

(* A drain that gives up because nothing moved leaves nothing runnable: a   *)
(* label written late in the last pass by one queue has released every      *)
(* queue that waited for it (Drain; docs/upstreams.md "to a fixed point").  *)
DrainSettles ==
  [][(drain # Idle /\ drain' = Idle /\ ~drain.progressed) =>
       \A q \in Queues : queues[q] # <<>> => Stuck(Head(queues[q]).cursor)]_vars

(* A driver submission returns: Drain ends whatever the buffers contain,    *)
(* self-calling buffers and queues that wait for each other included.       *)
DrainEnds == (drain # Idle) ~> (drain = Idle)

(* README.md: "Later submissions resume blocked work without repeating      *)
(* completed draws".  While nothing has failed, no packet is launched on    *)
(* the host twice.                                                          *)
NoDrawRepeated == ~failed => repeated = {}

(* runtime.cpp:888: a draw refused beside overlapping retained work is to   *)
(* "retry after PollVulkanGraphics".  While nothing has failed, a refused   *)
(* draw that the sink has accepted since was launched on the host.          *)
NoDrawLost ==
  ~failed =>
    \A s \in AllSubmissions : \A i \in DOMAIN s.cursor.sunk :
      <<s.id, i - 1>> \in refused => <<s.id, i - 1>> \in launched
=============================================================================

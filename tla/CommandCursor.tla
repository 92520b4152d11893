--------------------------- MODULE CommandCursor ---------------------------
(***************************************************************************)
(* The resumable decoder of src/src/gpu/command_processor.cpp: a cursor is *)
(* a stack of frames, each a private copy of one command buffer with an    *)
(* offset into it, and possibly one pending wait.  Packets are records of  *)
(* the few kinds whose control differs:                                    *)
(*   "write"     WRITE_DATA / RELEASE_MEM of val to label arg              *)
(*   "wait"      WAIT_REG_MEM on label arg: CompareWait(label, val, fn)    *)
(*   "call"      INDIRECT_BUFFER to buffer arg (NoBuffer: not taken)       *)
(*   "draw", "dispatch"  work for the host GPU writing target arg          *)
(*   "bad"       malformed or unsupported                                  *)
(* Every packet is one dword long; register state is not modelled.         *)
(***************************************************************************)
EXTENDS Naturals, Sequences, SequencesExt

CONSTANTS
  Code,              \* guest memory: [buffer address -> sequence of packets]
  Labels,            \* mapped addresses that WRITE_DATA and waits may use
  MaxIndirectDepth,  \* GpuCommandLimits::max_indirect_depth
  MaxActions,        \* GpuCommandLimits::max_actions
  MaxProcessed       \* GpuCommandLimits::max_processed_dwords

NoBuffer == 0
Buffers == DOMAIN Code

PacketOps == {"write", "wait", "call", "draw", "dispatch", "bad"}
Packet == [op : PacketOps, arg : Nat, val : Nat, fn : 0..7]

ASSUME CursorAssumption ==
  /\ NoBuffer \notin Buffers
  /\ Buffers \subseteq Nat
  /\ \A b \in Buffers : Code[b] \in Seq(Packet) /\ Code[b] # <<>>
  /\ MaxIndirectDepth \in Nat /\ MaxActions \in Nat /\ MaxProcessed \in Nat

\* The comparison functions of WAIT_REG_MEM, the mask already applied.
CompareWait(value, reference, fn) ==
  CASE fn \in {0, 7} -> TRUE
    [] fn = 1 -> value < reference
    [] fn = 2 -> value <= reference
    [] fn = 3 -> value = reference
    [] fn = 4 -> value # reference
    [] fn = 5 -> value >= reference
    [] fn = 6 -> value > reference

\* A private copy of a buffer as it is when the decoder reaches it.
Frame(b) == [buf |-> b, words |-> Code[b], offset |-> 0]

\* SnapshotFrame refuses excessive depth, a buffer that is already on the
\* stack, and memory it cannot read.
CanSnapshot(frames, b) ==
  /\ Len(frames) <= MaxIndirectDepth
  /\ \A i \in DOMAIN frames : frames[i].buf # b
  /\ b \in Buffers

(* A fresh cursor.  root and sunk are history: the buffer submitted and the *)
(* packets whose actions the sink has accepted so far.                      *)
BeginCommandBuffer(b) ==
  [frames |-> <<Frame(b)>>, wait |-> FALSE, actions |-> 0, processed |-> 0,
   root |-> b, sunk |-> <<>>]

Top(c) == Last(c.frames)
AtEnd(c) == c.frames = <<>>
FrameDone(c) == Top(c).offset = Len(Top(c).words)
CurrentPacket(c) == Top(c).words[Top(c).offset + 1]

\* Moves the frame that was on top before any push past its packet.
Advance(c, depth) == [c EXCEPT !.frames[depth].offset = @ + 1]

\* A finished frame is dropped; the caller's offset is already past the call.
PopFrame(c) == [c EXCEPT !.frames = Front(@)]

\* The header check counts the packet before it is executed, so a packet
\* that blocks in the sink and is decoded again is counted again.
WithinBudget(c) == c.processed < MaxProcessed
Count(c) == [c EXCEPT !.processed = @ + 1]

\* Emit: one more action reached the sink.
CanEmit(c) == c.actions < MaxActions
Emit(c) == [c EXCEPT !.actions = @ + 1, !.sunk = Append(@, CurrentPacket(c))]

\* ProcessWait emits the wait action once; a false condition parks the
\* cursor on the packet, which stays at the top frame's offset.
StartWait(c) == [Emit(c) EXCEPT !.wait = TRUE]

\* Variant for the checks: the resumed wait does not move past its packet.
ResumeReplaysWait(c) == [c EXCEPT !.wait = FALSE]

\* A released wait moves past its packet without emitting it again.
ResumePendingWait(c) == Advance([c EXCEPT !.wait = FALSE], Len(c.frames))

\* An indirect buffer's action is emitted, the child is pushed, and the
\* parent's offset moves past the call.
EnterIndirectBuffer(c, b) ==
  LET emitted == Advance(Emit(c), Len(c.frames))
  IN  [emitted EXCEPT !.frames = Append(@, Frame(b))]

(* Reference definition: the packets of buffer b in execution order, with   *)
(* the buffers it calls spliced in after the call, down to depth levels.    *)
Expansion[depth \in Nat] ==
  [b \in Buffers |->
     FlattenSeq([i \in DOMAIN Code[b] |->
       <<Code[b][i]>> \o
         (IF /\ Code[b][i].op = "call" /\ Code[b][i].arg \in Buffers
             /\ depth > 0
          THEN Expansion[depth - 1][Code[b][i].arg] ELSE <<>>)])]
=============================================================================

------------------------- MODULE VulkanActionBridge -------------------------
(***************************************************************************)
(* The sink stage that hands draws and dispatches to the host GPU          *)
(* (src/src/gpu/vulkan_action_bridge.cpp) and, as far as the bridge can    *)
(* tell, the executors behind it (runtime.cpp, vulkan/execution.cpp,       *)
(* vulkan/graphics_execution.cpp).  A launch whose fence does not signal   *)
(* within the timeout is retained; the bridge then answers kBlocked, keeps *)
(* one blocked_action_, and polls instead of launching when it sees an     *)
(* equal action again.  Device loss is not modelled.                       *)
(***************************************************************************)
EXTENDS Naturals, FiniteSets

CONSTANT
  MaxRetained  \* kMaximumRetainedSubmissions of each executor

VARIABLES
  enabled,   \* EnableVulkanActionExecution, set once by the application
  blocked,   \* blocked_action_: an action identity, or NoAction
  retained,  \* launches kept: [slot, op, target, signalled]
  launched,  \* history: keys of the packets launched on the host
  repeated,  \* history: keys launched more than once
  refused    \* history: keys of the draws refused beside pending work

history == <<launched, repeated, refused>>
bridgeVars == <<enabled, blocked, retained, history>>

NoAction == <<>>

ASSUME BridgeAssumption == MaxRetained \in Nat

BridgeInit ==
  /\ enabled \in BOOLEAN
  /\ blocked = NoAction
  /\ retained = {} /\ launched = {} /\ repeated = {} /\ refused = {}

\* vkGetFenceStatus: the fences that have signalled free their launches.
Reclaim(op) == {r \in retained : ~(r.op = op /\ r.signalled)}
RetainedBy(op, launches) == {r \in launches : r.op = op}

\* Reclaiming fails at a launch whose fence or whose read-back fails: those
\* before it may be gone.
ReclaimFails(op) == {retained \ freed : freed \in SUBSET (retained \ Reclaim(op))}

\* Poll...ActionExecution: done once the executor retains nothing any more.
PollAction(op, status) ==
  /\ \/ /\ retained' = Reclaim(op)
        /\ status = IF RetainedBy(op, retained') = {} THEN "completed" ELSE "blocked"
     \/ /\ RetainedBy(op, retained) # {}
        /\ retained' \in ReclaimFails(op)
        /\ status = "failed"
  /\ UNCHANGED history

\* A draw whose target a retained launch still writes is not launched.
TargetPending(op, target) ==
  /\ op = "draw"
  /\ \E r \in Reclaim(op) : r.target = target

\* FindFreeRetainedSlot, in the executor for op.
FreeSlot(op) ==
  CHOOSE i \in 1..MaxRetained : \A r \in RetainedBy(op, Reclaim(op)) : r.slot # i

\* A target no launch announces.
NoTarget == 0

(* The queue takes the work.  A launch that completes in time frees its     *)
(* slot, one that times out is retained.  It fails and is retained all the  *)
(* same when a resource cannot be marked (its target is then not announced),*)
(* the wait fails, or what it wrote cannot be read back.                    *)
Launch(op, target, key, status) ==
  LET Kept(announced, signalled) ==
        Reclaim(op) \cup {[slot |-> FreeSlot(op), op |-> op, target |-> announced,
                           signalled |-> signalled]}
  IN  /\ launched' = launched \cup {key}
      /\ repeated' = repeated \cup ({key} \cap launched)
      /\ \/ status = "completed" /\ retained' = Reclaim(op)
         \/ status = "blocked" /\ retained' = Kept(target, FALSE)
         \/ /\ status = "failed"
            /\ \/ retained' = Kept(NoTarget, FALSE)
               \/ \E signalled \in BOOLEAN : retained' = Kept(target, signalled)

(* ExecuteVulkanAction.  An action outside the bridge's subset (shaders,    *)
(* formats, topology) fails before anything reaches the host; which ones do *)
(* is not modelled, so any may, and reclaiming may fail before the launch.  *)
ExecuteAction(op, target, key, status) ==
  \/ /\ status = "failed"
     /\ retained' \in ReclaimFails(op)
     /\ UNCHANGED history
  \/ /\ TargetPending(op, target)
     /\ status = "blocked"
     /\ retained' = Reclaim(op)
     /\ refused' = refused \cup {key}
     /\ UNCHANGED <<launched, repeated>>
  \/ /\ ~TargetPending(op, target)
     /\ Cardinality(RetainedBy(op, Reclaim(op))) >= MaxRetained
     /\ status = "failed"
     /\ retained' = Reclaim(op)
     /\ UNCHANGED history
  \/ /\ ~TargetPending(op, target)
     /\ Cardinality(RetainedBy(op, Reclaim(op))) < MaxRetained
     /\ Launch(op, target, key, status)
     /\ UNCHANGED refused

(* VulkanActionBridge::Submit.  identity is what SameAction compares: the   *)
(* packet's address and contents; key is the packet's place in its own      *)
(* submission.  The first blocked action keeps the slot; any action that    *)
(* does not block empties it.                                               *)
BridgeSubmit(op, target, identity, key, status) ==
  /\ UNCHANGED enabled
  /\ \/ /\ ~enabled
        /\ status = "completed"
        /\ UNCHANGED <<blocked, retained, history>>
     \/ /\ enabled
        /\ IF blocked = identity THEN PollAction(op, status)
           ELSE ExecuteAction(op, target, key, status)
        /\ blocked' = IF status # "blocked" THEN NoAction
                      ELSE IF blocked = NoAction THEN identity ELSE blocked

\* The host GPU signals a fence, at any time.
FenceSignals ==
  /\ \E r \in retained :
       /\ ~r.signalled
       /\ retained' = (retained \ {r}) \cup {[r EXCEPT !.signalled = TRUE]}
  /\ UNCHANGED <<enabled, blocked, history>>
=============================================================================

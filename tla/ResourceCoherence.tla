-------------------------- MODULE ResourceCoherence --------------------------
(***************************************************************************)
(* Concurrent writers and the coherence records.  A checked write changes  *)
(* bytes page by page while it shares GuestMemory's mapping lock with      *)
(* other writers and readers, takes a write generation under the coherence *)
(* lock and calls the observer outside both, so writes of several threads  *)
(* interleave and their callbacks arrive in any order.  The backend is the *)
(* one of gpu/vulkan/buffer_cache.cpp and image_cache.cpp: it registers a  *)
(* range, copies its bytes, asks for the generation and acknowledges that, *)
(* once per registration.                                                  *)
(***************************************************************************)
EXTENDS CoherenceRecords

CONSTANTS
  Writers     \* host threads that use the checked memory interface

VARIABLES
  writers,    \* what each writing thread still has to report
  uploads,    \* the backend's upload of each record; history: what memory
              \* held when its generation was asked for
  born        \* history: the identities when an id was registered

coherenceVars == <<recordVars, writers, uploads, born>>
vars == <<spaceVars, coherenceVars>>

\* The address space stays as it is; nothing new is reported.
SpaceStays ==
  /\ reported' = {}
  /\ UNCHANGED <<identity, protection, location, bytes, next_mapping_generation,
                 mapping_generation_exhausted>>

NoEvent == [pages |-> {}, generation |-> 0, exhausted |-> FALSE]
NotWriting == [writing |-> {}, todo |-> {}, event |-> NoEvent]
Cleared == [p \in Pages |-> Zero]
NoUpload == [stage |-> "none", generation |-> 0, bytes |-> Cleared, seen |-> Cleared]

EventType == [pages : SUBSET Pages, generation : Generations,
              exhausted : BOOLEAN]
WriterType == [writing : SUBSET Pages, todo : SUBSET Pages, event : EventType]
UploadType == [stage : {"none", "copied", "queried", "acknowledged"},
               generation : Generations, bytes : [Pages -> Values],
               seen : [Pages -> Values]]

TypeOK ==
  /\ SpaceTypeOK /\ RecordTypeOK
  /\ writers \in [Writers -> WriterType]
  /\ uploads \in [Resources -> UploadType]
  /\ born \in [Resources -> [Pages -> 0..MaxMappingGeneration]]

Init ==
  /\ SpaceInit /\ RecordInit
  /\ writers = [w \in Writers |-> NotWriting]
  /\ uploads = [r \in Resources |-> NoUpload]
  /\ born = [r \in Resources |-> [p \in Pages |-> 0]]

-----------------------------------------------------------------------------
(* Writing threads.                                                         *)

\* The lowest page of a set.
First(S) == CHOOSE p \in S : \A q \in S : p <= q

\* The page of S that comes next is written; after the last one the shared lock
\* is released and the report is in hand.
WritePage(w, S) ==
  LET rest == S \ {First(S)}
  IN  /\ Change({First(S)})
      /\ reported' = Showing({First(S)})
      /\ writers' = [writers EXCEPT
                        ![w].writing = rest,
                        ![w].todo = @ \cup Showing({First(S)})]
      /\ UNCHANGED <<recordVars, uploads, born>>

\* A checked mutation of S starts.
WriteMemory(w, S) ==
  /\ writers[w] = NotWriting
  /\ CanAccess(S, {"write"})
  /\ WritePage(w, S)

\* It goes on.
ContinueWrite(w) ==
  /\ writers[w].writing # {}
  /\ WritePage(w, writers[w].writing)

\* NotifyWrite up to the callback.
NotifyWrite(w, R) ==
  /\ writers[w].writing = {} /\ writers[w].event = NoEvent
  /\ R \in Runs(writers[w].todo)
  /\ writers' = [writers EXCEPT ![w].todo = @ \ R,
                                ![w].event = Event(R, write_generation)]
  /\ write_generation' = NextGeneration(write_generation)
  /\ write_generation_exhausted' = (write_generation = MaxWriteGeneration)
  /\ UNCHANGED <<records, next_resource_id, uploads, born>>
  /\ SpaceStays

\* The callback reaches the records under their lock.
OnGuestMemoryWrite(w) ==
  /\ writers[w].event # NoEvent
  /\ records' = [r \in Resources |-> Observed(records[r], writers[w].event)]
  /\ writers' = [writers EXCEPT ![w].event = NoEvent]
  /\ UNCHANGED <<next_resource_id, write_generation, write_generation_exhausted,
                 uploads, born>>
  /\ SpaceStays

\* The mapping calls that succeed, and a Map that fails, take the mapping lock
\* alone and report nothing: bytes change only where the mapping goes.
RemapMemory ==
  /\ \A w \in Writers : writers[w].writing = {}
  /\ \/ \E S \in Ranges, rights \in Protections : Map(S, rights) \/ Protect(S, rights)
     \/ MapFails
     \/ \E S \in Ranges : Unmap(S)
  /\ UNCHANGED coherenceVars

\* An Unmap of host pages that fails: the map table stays as it was, yet the
\* bytes are cleared, which is reported once the mapping lock is released.
UnmapFails(w, S) ==
  /\ BackingSize = 0
  /\ writers[w] = NotWriting
  /\ \A v \in Writers : writers[v].writing = {}
  /\ Mapped(S)
  /\ bytes' = [l \in Locations |-> IF l \in S THEN Zero ELSE bytes[l]]
  /\ reported' = S
  /\ writers' = [writers EXCEPT ![w].todo = S]
  /\ UNCHANGED <<identity, protection, location, next_mapping_generation,
                 mapping_generation_exhausted, recordVars, uploads, born>>

-----------------------------------------------------------------------------
(* The backend.                                                             *)

\* What the pages of a record hold.
Contents(S) == [p \in Pages |-> IF p \in S THEN Holds(p) ELSE Zero]

RegisterResource(S) ==
  /\ HasToken(S)
  /\ next_resource_id <= MaxResource
  /\ records' = [records EXCEPT ![next_resource_id] = NewRecord(S)]
  /\ born' = [born EXCEPT ![next_resource_id] =
                [p \in Pages |-> IF p \in S THEN identity[p] ELSE 0]]
  /\ next_resource_id' = next_resource_id + 1
  /\ UNCHANGED <<write_generation, write_generation_exhausted, writers, uploads>>
  /\ SpaceStays

UnregisterResource(r) ==
  /\ records[r].live
  /\ records' = [records EXCEPT ![r] = NoRecord]
  /\ uploads' = [uploads EXCEPT ![r] = NoUpload]
  /\ UNCHANGED <<next_resource_id, write_generation, write_generation_exhausted,
                 writers, born>>
  /\ SpaceStays

\* The backend copies the bytes ...
Upload(r) ==
  /\ records[r].live /\ uploads[r].stage = "none"
  /\ CanAccess(records[r].pages, {"read"})
  /\ uploads' = [uploads EXCEPT ![r].stage = "copied",
                                ![r].bytes = Contents(records[r].pages)]
  /\ UNCHANGED <<recordVars, writers, born>>
  /\ SpaceStays

\* ... asks for the generation ...
Query(r) ==
  /\ records[r].live /\ uploads[r].stage = "copied"
  /\ uploads' = [uploads EXCEPT ![r].stage = "queried",
                                ![r].generation = records[r].generation,
                                ![r].seen = Contents(records[r].pages)]
  /\ UNCHANGED <<recordVars, writers, born>>
  /\ SpaceStays

\* ... and acknowledges the one it was told.
AcknowledgeCpuUpload(r) ==
  /\ uploads[r].stage = "queried"
  /\ CanAcknowledge(records[r], uploads[r].generation)
  /\ records' = [records EXCEPT ![r].needs_cpu_upload = FALSE]
  /\ uploads' = [uploads EXCEPT ![r].stage = "acknowledged"]
  /\ UNCHANGED <<next_resource_id, write_generation, write_generation_exhausted,
                 writers, born>>
  /\ SpaceStays

Next ==
  \/ \E w \in Writers, S \in Ranges : WriteMemory(w, S)
  \/ \E w \in Writers : ContinueWrite(w)
  \/ \E w \in Writers, R \in Ranges : NotifyWrite(w, R)
  \/ \E w \in Writers : OnGuestMemoryWrite(w)
  \/ RemapMemory
  \/ \E w \in Writers, S \in Ranges : UnmapFails(w, S)
  \/ \E S \in Ranges : RegisterResource(S)
  \/ \E r \in Resources :
       UnregisterResource(r) \/ Upload(r) \/ Query(r) \/ AcknowledgeCpuUpload(r)

Spec == Init /\ [][Next]_vars

-----------------------------------------------------------------------------
(* Properties.                                                              *)

\* A record that passes the token check is about the very mappings it was
\* registered on: every page of it still has the identity it had then, whatever
\* was unmapped, mapped again and re-protected since.  A read-back that checks
\* the token first never lands in a mapping that came later.
TokenSound ==
  \A r \in Resources :
    RecordIsCurrent(records[r]) =>
      \A p \in records[r].pages : identity[p] = born[r][p]

\* Some writing thread has changed the page and not yet told the records.
InFlight(p) ==
  \E w \in Writers : p \in writers[w].todo \cup writers[w].event.pages

\* The records' half of the promise: a record that AcknowledgeCpuUpload made
\* clean is clean only as long as guest memory holds what it held when the
\* acknowledged generation was asked for, except where a writer's callback is
\* still on its way, however the callbacks overtake each other and also when the
\* generations run out.
CleanIsUnchanged ==
  \A r \in Resources :
    (RecordIsCurrent(records[r]) /\ ~records[r].needs_cpu_upload) =>
      \A p \in records[r].pages : uploads[r].seen[p] = Holds(p) \/ InFlight(p)

\* What gpu/resource_coherence.h line 56 asks of the backend with it: a clean
\* record's uploaded bytes are those of guest memory, callbacks on their way
\* excepted.  The caches ask for the generation after the copy and miss it.
CleanIsFresh ==
  \A r \in Resources :
    (RecordIsCurrent(records[r]) /\ ~records[r].needs_cpu_upload) =>
      \A p \in records[r].pages : uploads[r].bytes[p] = Holds(p) \/ InFlight(p)
=============================================================================

-------------------------- MODULE CoherenceRecords --------------------------
(***************************************************************************)
(* The records of src/src/gpu/resource_coherence.cpp: what is registered   *)
(* about a range of guest memory, when a record is about the mappings it   *)
(* was registered on, and what a write callback does to it.  The write     *)
(* generations are those of core/memory/guest_memory.cpp.                  *)
(***************************************************************************)
EXTENDS AddressSpace

CONSTANTS
  MaxResource,         \* resource ids are 1..MaxResource
  MaxWriteGeneration   \* last value of the 128-bit write generation

VARIABLES
  records,             \* records_, with NoRecord for an id that has none
  next_resource_id,
  write_generation,
  write_generation_exhausted

recordVars == <<records, next_resource_id, write_generation,
                write_generation_exhausted>>

Resources == 1..MaxResource
Generations == 0..MaxWriteGeneration

ASSUME RecordAssumption ==
  MaxResource \in Nat \ {0} /\ MaxWriteGeneration \in Nat \ {0}

NoRecord == [live |-> FALSE, pages |-> {}, token |-> 0, generation |-> 0,
             precise |-> TRUE, needs_cpu_upload |-> TRUE,
             gpu_write_pending |-> FALSE]

RecordType ==
  [live : BOOLEAN, pages : SUBSET Pages, token : 0..MaxMappingGeneration,
   generation : Generations, precise : BOOLEAN, needs_cpu_upload : BOOLEAN,
   gpu_write_pending : BOOLEAN]

RecordTypeOK ==
  /\ records \in [Resources -> RecordType]
  /\ next_resource_id \in 1..(MaxResource + 1)
  /\ write_generation \in Generations
  /\ write_generation_exhausted \in BOOLEAN

RecordInit ==
  /\ records = [r \in Resources |-> NoRecord]
  /\ next_resource_id = 1
  /\ write_generation = 0
  /\ write_generation_exhausted = FALSE

-----------------------------------------------------------------------------
\* The range has a token, and its generations are not used up.
HasToken(S) == Mapped(S) /\ ~mapping_generation_exhausted

\* Variant for the checks: the range only has to be mapped.
RecordIsMapped(record) == record.live /\ HasToken(record.pages)

RecordIsCurrent(record) ==
  /\ record.live
  /\ HasToken(record.pages)
  /\ Newest(record.pages) = record.token

\* What RegisterResource stores: the record starts at the newest write
\* generation and needs an upload.
NewRecord(S) ==
  [live |-> TRUE, pages |-> S, token |-> Newest(S),
   generation |-> write_generation, precise |-> ~write_generation_exhausted,
   needs_cpu_upload |-> TRUE, gpu_write_pending |-> FALSE]

\* Variant for the checks: any generation is accepted.
CanAcknowledgeAny(record, generation) ==
  RecordIsCurrent(record) /\ record.needs_cpu_upload /\ record.precise

\* AcknowledgeCpuUpload accepts a generation.
CanAcknowledge(record, generation) ==
  /\ RecordIsCurrent(record)
  /\ record.needs_cpu_upload /\ record.precise
  /\ record.generation = generation

\* OnGuestMemoryWrite for one record: an older event changes nothing, and lost
\* precision never comes back.
Observed(record, event) ==
  LET is_newer == event.generation > record.generation
      precise  == record.precise /\ ~event.exhausted
  IN  IF ~record.live \/ record.pages \cap event.pages = {} THEN record
      ELSE [record EXCEPT
              !.generation = IF is_newer THEN event.generation ELSE @,
              !.precise = precise,
              !.needs_cpu_upload = @ \/ is_newer \/ ~precise]

\* The maximal ranges of a set of pages: what a MutationReport lists.
Runs(S) == {R \in Ranges : /\ R \subseteq S
                           /\ \A T \in Ranges : (R \subseteq T /\ T \subseteq S) => T = R}

\* NotifyWrite's generation: the next one, or the last one again once they are
\* used up.
NextGeneration(g) == IF g = MaxWriteGeneration THEN g ELSE g + 1
Event(R, g) == [pages |-> R, generation |-> NextGeneration(g),
                exhausted |-> g = MaxWriteGeneration]
=============================================================================

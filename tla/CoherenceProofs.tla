-------------------------- MODULE CoherenceProofs --------------------------
(***************************************************************************)
(* The mapping tokens are sound for every number of pages, mappings,       *)
(* records and writing threads.                                            *)
(***************************************************************************)
EXTENDS ResourceCoherence, WellFoundedInduction, TLAPS

\* The parts of a record the token check reads.
About(record) == <<record.live, record.pages, record.token>>

\* What a live record knows of its pages: it has some, its token is a
\* generation that was given out, not older than what the pages were then, and
\* what a page is now is what it was, nothing, or newer than the token.
Anchored(r) ==
  records[r].live =>
    /\ records[r].pages # {}
    /\ records[r].token <= next_mapping_generation
    /\ \A p \in records[r].pages :
         /\ born[r][p] <= records[r].token
         /\ identity[p] \in {0, born[r][p]} \/ identity[p] > records[r].token

\* The inductive invariant.  Generations that were not given out are on no
\* page: that is what makes the next mapping newer than every token.
TokenInv ==
  /\ TypeOK
  /\ \A p \in Pages : identity[p] <= next_mapping_generation
  /\ \A r \in Resources : Anchored(r)

-----------------------------------------------------------------------------
(* Newest.                                                                 *)

\* A bounded set of natural numbers that is not empty has a greatest element.
LEMMA GreatestElement ==
  ASSUME NEW n \in Nat, NEW T \in SUBSET (0..n), T # {}
  PROVE  \E g \in T : \A m \in T : m <= g
<1> DEFINE D == {e \in Nat : \E m \in T : e = n - m}
<1>1. D \in SUBSET Nat /\ D # {}
  <2>1. PICK m \in T : TRUE
    OBVIOUS
  <2>2. n - m \in D
    OBVIOUS
  <2> QED BY <2>2
<1>2. IsWellFoundedOn(OpToRel(<, Nat), Nat)
  BY NatLessThanWellFounded
<1> HIDE DEF D
<1>3. PICK d \in D : \A e \in D : ~ (<<e, d>> \in OpToRel(<, Nat))
  BY <1>1, <1>2, WFMin, Zenon
<1>4. \A e \in D : ~ (e < d)
  BY <1>1, <1>3 DEF OpToRel
<1>5. PICK g \in T : d = n - g
  BY <1>3 DEF D
<1>6. \A m \in T : n - m \in D
  BY DEF D
<1>7. \A m \in T : m <= g
  BY <1>4, <1>5, <1>6
<1> QED BY <1>7

\* CaptureMappingToken of a range answers the newest identity of its pages.
LEMMA NewestIsGreatest ==
  ASSUME TypeOK, NEW S \in SUBSET Pages, S # {}
  PROVE  /\ Newest(S) \in 0..MaxMappingGeneration
         /\ \E p \in S : Newest(S) = identity[p]
         /\ \A p \in S : identity[p] <= Newest(S)
<1> DEFINE T == {identity[p] : p \in S}
<1>1. MaxMappingGeneration \in Nat
  BY SpaceAssumption
<1>2. T \in SUBSET (0..MaxMappingGeneration) /\ T # {}
  BY DEF TypeOK, SpaceTypeOK
<1>3. PICK g \in T : \A m \in T : m <= g
  BY <1>1, <1>2, GreatestElement
<1>4. \A p \in S : identity[p] <= g
  BY <1>3
<1>5. /\ Newest(S) \in T
      /\ \A p \in S : identity[p] <= Newest(S)
  BY <1>3, <1>4 DEF Newest
<1> QED BY <1>2, <1>5

-----------------------------------------------------------------------------
(* The invariant gives the property.                                       *)

LEMMA TokenInvSound == TokenInv => TokenSound
<1> SUFFICES ASSUME TokenInv, NEW r \in Resources, RecordIsCurrent(records[r]),
                    NEW p \in records[r].pages
             PROVE  identity[p] = born[r][p]
  BY DEF TokenSound
<1>1. records[r].live /\ Anchored(r) /\ TypeOK
  BY DEF TokenInv, RecordIsCurrent
<1>2. records[r].pages \in SUBSET Pages /\ records[r].pages # {}
  BY <1>1 DEF Anchored, TypeOK, RecordTypeOK, RecordType
<1>3. identity[p] # 0 /\ Newest(records[r].pages) = records[r].token
  BY DEF RecordIsCurrent, HasToken, Mapped
<1>4. identity[p] <= records[r].token
  BY <1>1, <1>2, <1>3, NewestIsGreatest
<1>5. identity[p] \in Nat /\ records[r].token \in Nat
  BY <1>1, <1>2, SpaceAssumption DEF TypeOK, SpaceTypeOK, RecordTypeOK, RecordType
<1>6. ~ (identity[p] > records[r].token)
  BY <1>4, <1>5
<1> QED BY <1>1, <1>3, <1>6 DEF Anchored

-----------------------------------------------------------------------------
(* Type correctness.                                                       *)

LEMMA ConstantsTyped ==
  /\ MaxMappingGeneration \in Nat /\ MaxWriteGeneration \in Nat
  /\ MaxResource \in Nat /\ Size \in Nat /\ BackingSize \in Nat
  /\ Zero \in Values
BY SpaceAssumption, RecordAssumption

LEMMA NextGenerationTyped ==
  ASSUME NEW g \in Generations
  PROVE  NextGeneration(g) \in Generations
BY ConstantsTyped DEF Generations, NextGeneration

LEMMA RangesArePages == \A S \in Ranges : S \in SUBSET Pages /\ S # {}
BY ConstantsTyped DEF Ranges, Pages

LEMMA SpaceStaysTyped ==
  ASSUME SpaceTypeOK, SpaceStays
  PROVE  SpaceTypeOK'
BY DEF SpaceTypeOK, SpaceStays

\* Observed keeps a record a record, about the same pages.
LEMMA ObservedTyped ==
  ASSUME NEW record \in RecordType, NEW event \in EventType
  PROVE  /\ Observed(record, event) \in RecordType
         /\ About(Observed(record, event)) = About(record)
BY DEF Observed, About, RecordType, EventType

LEMMA TypeInit == Init => TypeOK
<1> SUFFICES ASSUME Init PROVE TypeOK
  OBVIOUS
<1>1. /\ 0 \in 0..MaxMappingGeneration /\ 0 \in Generations
      /\ 1 \in 1..(MaxResource + 1) /\ Zero \in Values
      /\ \A p \in Pages : p \in Locations
  BY ConstantsTyped DEF Pages, Locations, Generations
<1>2. SpaceTypeOK
  <2>1. {} \in SUBSET Pages /\ {} \in Protections \cup {{}}
    OBVIOUS
  <2> QED BY <1>1, <2>1 DEF Init, SpaceInit, SpaceTypeOK
<1>3. RecordTypeOK
  <2>1. NoRecord \in RecordType
    BY <1>1 DEF NoRecord, RecordType
  <2> QED BY <1>1, <2>1 DEF Init, RecordInit, RecordTypeOK
<1>4. NotWriting \in WriterType
  BY <1>1 DEF NotWriting, NoEvent, WriterType, EventType
<1>5. NoUpload \in UploadType
  BY <1>1 DEF NoUpload, Cleared, UploadType
<1> QED BY <1>1, <1>2, <1>3, <1>4, <1>5 DEF TypeOK, Init

\* The steps of the address space.
LEMMA RemapTyped ==
  ASSUME SpaceTypeOK, RemapMemory
  PROVE  SpaceTypeOK'
<1>1. ASSUME NEW S \in Ranges, NEW rights \in Protections, Map(S, rights)
      PROVE  SpaceTypeOK'
  <2>1. next_mapping_generation + 1 \in 0..MaxMappingGeneration
    BY <1>1, ConstantsTyped DEF SpaceTypeOK, Map
  <2>2. identity' \in [Pages -> 0..MaxMappingGeneration]
    BY <1>1, <2>1 DEF SpaceTypeOK, Map
  <2>3. protection' \in [Pages -> Protections \cup {{}}]
    BY <1>1 DEF SpaceTypeOK, Map
  <2> QED BY <1>1, <2>1, <2>2, <2>3 DEF SpaceTypeOK, Map
<1>2. ASSUME NEW S \in Ranges, NEW rights \in Protections, Protect(S, rights)
      PROVE  SpaceTypeOK'
  BY <1>2 DEF SpaceTypeOK, Protect
<1>3. ASSUME MapFails PROVE SpaceTypeOK'
  <2>1. next_mapping_generation' \in 0..MaxMappingGeneration
    BY <1>3, ConstantsTyped DEF SpaceTypeOK, MapFails
  <2>2. mapping_generation_exhausted' \in BOOLEAN
    BY <1>3, Zenon DEF SpaceTypeOK, MapFails
  <2> QED BY <1>3, <2>1, <2>2 DEF SpaceTypeOK, MapFails
<1>4. ASSUME NEW S \in Ranges, Unmap(S) PROVE SpaceTypeOK'
  <2>1. 0 \in 0..MaxMappingGeneration /\ Zero \in Values
        /\ \A p \in Pages : p \in Locations
    BY ConstantsTyped DEF Pages, Locations
  <2>2. identity' \in [Pages -> 0..MaxMappingGeneration]
    BY <1>4, <2>1 DEF SpaceTypeOK, Unmap
  <2>3. protection' \in [Pages -> Protections \cup {{}}]
    BY <1>4 DEF SpaceTypeOK, Unmap
  <2>4. location' \in [Pages -> Locations] /\ bytes' \in [Locations -> Values]
    BY <1>4, <2>1 DEF SpaceTypeOK, Unmap
  <2> QED BY <1>4, <2>2, <2>3, <2>4 DEF SpaceTypeOK, Unmap
<1> QED BY <1>1, <1>2, <1>3, <1>4 DEF RemapMemory

\* Nothing the token check depends on changes.
Keeps ==
  /\ identity' = identity
  /\ next_mapping_generation' = next_mapping_generation
  /\ born' = born
  /\ \A r \in Resources : About(records[r])' = About(records[r])

-----------------------------------------------------------------------------
(* The writing threads keep the types and what the token check depends on. *)

LEMMA WritePageTyped ==
  ASSUME TypeOK, NEW w \in Writers, NEW S \in SUBSET Pages, S # {},
         WritePage(w, S)
  PROVE  TypeOK' /\ Keeps
<1> DEFINE shown == Showing({First(S)})
           rest == S \ {First(S)}
<1>1. shown \in SUBSET Pages /\ rest \in SUBSET Pages
  BY DEF Showing
<1> HIDE DEF shown, rest
<1>2. /\ writers' = [writers EXCEPT ![w].writing = rest,
                                     ![w].todo = @ \cup shown]
      /\ reported' = shown
      /\ UNCHANGED <<recordVars, uploads, born>>
      /\ UNCHANGED <<identity, protection, location, next_mapping_generation,
                      mapping_generation_exhausted>>
      /\ bytes' \in [Locations -> Values]
  BY DEF WritePage, Change, shown, rest
<1>3. SpaceTypeOK' /\ RecordTypeOK'
  BY <1>1, <1>2 DEF TypeOK, SpaceTypeOK, RecordTypeOK, recordVars
<1>4. writers' \in [Writers -> WriterType]
  BY <1>1, <1>2 DEF TypeOK, WriterType
<1>5. TypeOK'
  BY <1>2, <1>3, <1>4 DEF TypeOK
<1>6. Keeps
  BY <1>2 DEF Keeps, recordVars, About
<1> QED BY <1>5, <1>6

\* An Unmap that fails is a write of zeros.
LEMMA UnmapFailsTyped ==
  ASSUME TypeOK, NEW w \in Writers, NEW S \in Ranges, UnmapFails(w, S)
  PROVE  TypeOK' /\ Keeps
<1>1. S \in SUBSET Pages /\ Zero \in Values
  BY RangesArePages, ConstantsTyped
<1>2. SpaceTypeOK' /\ RecordTypeOK'
  BY <1>1 DEF TypeOK, SpaceTypeOK, RecordTypeOK, UnmapFails, recordVars
<1>3. writers' \in [Writers -> WriterType]
  BY <1>1 DEF TypeOK, WriterType, UnmapFails
<1>4. TypeOK'
  BY <1>2, <1>3 DEF TypeOK, UnmapFails
<1>5. Keeps
  BY DEF Keeps, UnmapFails, recordVars, About
<1> QED BY <1>4, <1>5

LEMMA NotifyWriteTyped ==
  ASSUME TypeOK, NEW w \in Writers, NEW R \in Ranges, NotifyWrite(w, R)
  PROVE  TypeOK' /\ Keeps
<1> DEFINE event == Event(R, write_generation)
<1>1. R \in SUBSET Pages
  BY RangesArePages
<1>2. NextGeneration(write_generation) \in Generations
  BY NextGenerationTyped DEF TypeOK, RecordTypeOK
<1>3. event \in EventType
  BY <1>1, <1>2 DEF Event, EventType
<1> HIDE DEF event
<1>4. /\ writers' = [writers EXCEPT ![w].todo = @ \ R, ![w].event = event]
      /\ write_generation' = NextGeneration(write_generation)
      /\ write_generation_exhausted' = (write_generation = MaxWriteGeneration)
      /\ UNCHANGED <<records, next_resource_id, uploads, born>>
      /\ SpaceStays
  BY DEF NotifyWrite, event
<1>5. SpaceTypeOK'
  BY <1>4, SpaceStaysTyped DEF TypeOK
<1>6. RecordTypeOK'
  BY <1>2, <1>4 DEF TypeOK, RecordTypeOK
<1>7. writers' \in [Writers -> WriterType]
  BY <1>3, <1>4 DEF TypeOK, WriterType
<1>8. TypeOK'
  BY <1>4, <1>5, <1>6, <1>7 DEF TypeOK
<1>9. Keeps
  BY <1>4 DEF Keeps, About, SpaceStays
<1> QED BY <1>8, <1>9

LEMMA OnGuestMemoryWriteTyped ==
  ASSUME TypeOK, NEW w \in Writers, OnGuestMemoryWrite(w)
  PROVE  TypeOK' /\ Keeps
<1>1. /\ writers[w].event \in EventType
      /\ NoEvent \in EventType
      /\ \A r \in Resources : records[r] \in RecordType
  BY ConstantsTyped DEF TypeOK, WriterType, NoEvent, EventType, Generations,
     RecordTypeOK
<1>2. SpaceTypeOK'
  BY SpaceStaysTyped DEF TypeOK, OnGuestMemoryWrite
<1>3. \A r \in Resources :
        /\ records'[r] = Observed(records[r], writers[w].event)
        /\ records'[r] \in RecordType
        /\ About(records'[r]) = About(records[r])
  BY <1>1, ObservedTyped DEF OnGuestMemoryWrite
<1>4. RecordTypeOK'
  BY <1>3 DEF TypeOK, RecordTypeOK, OnGuestMemoryWrite
<1>5. writers' \in [Writers -> WriterType]
  BY <1>1 DEF TypeOK, WriterType, OnGuestMemoryWrite
<1>6. TypeOK'
  BY <1>2, <1>4, <1>5 DEF TypeOK, OnGuestMemoryWrite
<1>7. Keeps
  BY <1>3 DEF Keeps, About, OnGuestMemoryWrite, SpaceStays
<1> QED BY <1>6, <1>7

-----------------------------------------------------------------------------
(* So do the steps of the backend that register nothing.                   *)

\* What the pages of a record hold is a value of every page.
LEMMA ContentsTyped ==
  ASSUME TypeOK, NEW r \in Resources
  PROVE  /\ Contents(records[r].pages) \in [Pages -> Values]
         /\ \A p \in records[r].pages :
              p \in Pages /\ Contents(records[r].pages)[p] = Holds(p)
<1>1. records[r].pages \in SUBSET Pages
  BY DEF TypeOK, RecordTypeOK, RecordType
<1>2. \A p \in Pages : Holds(p) \in Values
  BY DEF TypeOK, SpaceTypeOK, Holds
<1> QED BY <1>1, <1>2, ConstantsTyped DEF Contents

LEMMA QueryTyped ==
  ASSUME TypeOK, NEW r \in Resources, Query(r)
  PROVE  TypeOK' /\ Keeps
<1> DEFINE now == Contents(records[r].pages)
<1>1. records[r].generation \in Generations /\ now \in [Pages -> Values]
  BY ContentsTyped DEF TypeOK, RecordTypeOK, RecordType
<1> HIDE DEF now
<1>2. uploads' = [uploads EXCEPT ![r].stage = "queried",
                                 ![r].generation = records[r].generation,
                                 ![r].seen = now]
  BY DEF Query, now
<1>3. uploads' \in [Resources -> UploadType]
  BY <1>1, <1>2 DEF TypeOK, UploadType
<1>4. SpaceTypeOK' /\ RecordTypeOK'
  BY SpaceStaysTyped DEF TypeOK, RecordTypeOK, Query, recordVars
<1>5. TypeOK'
  BY <1>3, <1>4 DEF TypeOK, Query
<1>6. Keeps
  BY DEF Keeps, About, Query, SpaceStays, recordVars
<1> QED BY <1>5, <1>6

LEMMA UploadTyped ==
  ASSUME TypeOK, NEW r \in Resources, Upload(r)
  PROVE  TypeOK' /\ Keeps
<1> DEFINE copy == Contents(records[r].pages)
<1>1. copy \in [Pages -> Values]
  BY ContentsTyped
<1> HIDE DEF copy
<1>2. uploads' = [uploads EXCEPT ![r].stage = "copied", ![r].bytes = copy]
  BY DEF Upload, copy
<1>3. uploads' \in [Resources -> UploadType]
  BY <1>1, <1>2 DEF TypeOK, UploadType
<1>4. SpaceTypeOK' /\ RecordTypeOK'
  BY SpaceStaysTyped DEF TypeOK, RecordTypeOK, Upload, recordVars
<1>5. TypeOK'
  BY <1>3, <1>4 DEF TypeOK, Upload
<1>6. Keeps
  BY DEF Keeps, About, Upload, SpaceStays, recordVars
<1> QED BY <1>5, <1>6

LEMMA AcknowledgeTyped ==
  ASSUME TypeOK, NEW r \in Resources, AcknowledgeCpuUpload(r)
  PROVE  TypeOK' /\ Keeps
<1>1. records' \in [Resources -> RecordType]
  BY DEF TypeOK, RecordTypeOK, RecordType, AcknowledgeCpuUpload
<1>2. \A q \in Resources : About(records'[q]) = About(records[q])
  BY DEF TypeOK, RecordTypeOK, RecordType, AcknowledgeCpuUpload, About
<1>3. uploads' \in [Resources -> UploadType]
  BY DEF TypeOK, UploadType, AcknowledgeCpuUpload
<1>4. SpaceTypeOK' /\ RecordTypeOK'
  BY <1>1, SpaceStaysTyped DEF TypeOK, RecordTypeOK, AcknowledgeCpuUpload
<1>5. TypeOK'
  BY <1>3, <1>4 DEF TypeOK, AcknowledgeCpuUpload
<1>6. Keeps
  BY <1>2 DEF Keeps, About, AcknowledgeCpuUpload, SpaceStays
<1> QED BY <1>5, <1>6

-----------------------------------------------------------------------------
(* The steps preserve the invariant.                                       *)

LEMMA KeepsPreserves ==
  ASSUME TokenInv, TypeOK', Keeps
  PROVE  TokenInv'
<1>1. \A r \in Resources : /\ records'[r].live = records[r].live
                            /\ records'[r].pages = records[r].pages
                            /\ records'[r].token = records[r].token
  BY DEF Keeps, About
<1>2. \A p \in Pages : identity'[p] <= next_mapping_generation'
  BY DEF TokenInv, Keeps
<1>3. ASSUME NEW r \in Resources PROVE Anchored(r)'
  <2>1. Anchored(r)
    BY DEF TokenInv
  <2> QED BY <1>1, <2>1 DEF Anchored, Keeps
<1> QED BY <1>2, <1>3 DEF TokenInv

\* A step of the address space touches no record.  An identity it changes
\* becomes 0 or newer than everything given out so far.
LEMMA RemapPreserves ==
  ASSUME TokenInv, RemapMemory
  PROVE  TokenInv'
<1>1. TypeOK'
  <2>1. SpaceTypeOK'
    BY RemapTyped DEF TokenInv, TypeOK
  <2> QED BY <2>1 DEF TokenInv, TypeOK, RecordTypeOK, RemapMemory,
                      coherenceVars, recordVars
<1>2. /\ identity \in [Pages -> Nat] /\ next_mapping_generation \in Nat
      /\ next_mapping_generation' \in Nat
  BY <1>1, ConstantsTyped DEF TokenInv, TypeOK, SpaceTypeOK
<1>3. /\ next_mapping_generation <= next_mapping_generation'
      /\ \A p \in Pages :
           \/ identity'[p] = identity[p]
           \/ identity'[p] = 0
           \/ /\ identity'[p] = next_mapping_generation + 1
              /\ next_mapping_generation' = next_mapping_generation + 1
  <2>1. ASSUME NEW S \in Ranges, NEW rights \in Protections, Map(S, rights)
        PROVE  <1>3
    BY <1>2, <2>1 DEF Map
  <2>2. ASSUME NEW S \in Ranges, NEW rights \in Protections, Protect(S, rights)
        PROVE  <1>3
    BY <1>2, <2>2 DEF Protect
  <2>3. ASSUME MapFails PROVE <1>3
    BY <1>2, <2>3 DEF MapFails
  <2>4. ASSUME NEW S \in Ranges, Unmap(S) PROVE <1>3
    BY <1>2, <2>4 DEF Unmap
  <2> QED BY <2>1, <2>2, <2>3, <2>4 DEF RemapMemory
<1>4. \A p \in Pages : identity'[p] <= next_mapping_generation'
  BY <1>2, <1>3 DEF TokenInv
<1>5. ASSUME NEW r \in Resources PROVE Anchored(r)'
  <2>1. Anchored(r) /\ records' = records /\ born' = born
    BY DEF TokenInv, RemapMemory, coherenceVars, recordVars
  <2>2. records[r].token \in Nat /\ records[r].pages \in SUBSET Pages
    BY ConstantsTyped DEF TokenInv, TypeOK, RecordTypeOK, RecordType
  <2>3. SUFFICES ASSUME records[r].live, NEW p \in records[r].pages
                 PROVE  /\ records[r].token <= next_mapping_generation'
                        /\ \/ identity'[p] \in {0, born[r][p]}
                           \/ identity'[p] > records[r].token
    BY <2>1, <2>2, <1>2, <1>3 DEF Anchored
  <2>4. /\ records[r].token <= next_mapping_generation
        /\ \/ identity[p] \in {0, born[r][p]}
           \/ identity[p] > records[r].token
    BY <2>1, <2>3 DEF Anchored
  <2> QED BY <1>2, <1>3, <2>2, <2>4
<1> QED BY <1>1, <1>4, <1>5 DEF TokenInv

\* A new record is about what the pages are now.
LEMMA RegisterPreserves ==
  ASSUME TokenInv, NEW S \in Ranges, RegisterResource(S)
  PROVE  TokenInv'
<1> DEFINE id == next_resource_id
           now == [p \in Pages |-> IF p \in S THEN identity[p] ELSE 0]
<1>1. S \in SUBSET Pages /\ S # {}
  BY RangesArePages
<1>2. id \in Resources
  BY ConstantsTyped DEF TokenInv, TypeOK, RecordTypeOK, RegisterResource,
     Resources
<1>3. /\ Newest(S) \in 0..MaxMappingGeneration
      /\ \E p \in S : Newest(S) = identity[p]
      /\ \A p \in S : identity[p] <= Newest(S)
  BY <1>1, NewestIsGreatest DEF TokenInv
<1>4. NewRecord(S) \in RecordType
  BY <1>1, <1>3 DEF NewRecord, RecordType, TokenInv, TypeOK, RecordTypeOK
<1>5. now \in [Pages -> 0..MaxMappingGeneration]
  BY ConstantsTyped DEF TokenInv, TypeOK, SpaceTypeOK
<1>6. /\ records' = [records EXCEPT ![id] = NewRecord(S)]
      /\ born' = [born EXCEPT ![id] = now]
      /\ next_resource_id' = id + 1
      /\ identity' = identity
      /\ next_mapping_generation' = next_mapping_generation
  BY DEF RegisterResource, SpaceStays
<1>7. TypeOK'
  <2>1. SpaceTypeOK'
    BY SpaceStaysTyped DEF TokenInv, TypeOK, RegisterResource
  <2>2. next_resource_id' \in 1..(MaxResource + 1)
    BY <1>2, <1>6, ConstantsTyped DEF Resources
  <2>3. records' \in [Resources -> RecordType]
    BY <1>4, <1>6 DEF TokenInv, TypeOK, RecordTypeOK
  <2>4. RecordTypeOK'
    BY <2>2, <2>3 DEF TokenInv, TypeOK, RecordTypeOK, RegisterResource
  <2>5. born' \in [Resources -> [Pages -> 0..MaxMappingGeneration]]
    BY <1>5, <1>6 DEF TokenInv, TypeOK
  <2> QED BY <2>1, <2>4, <2>5 DEF TokenInv, TypeOK, RegisterResource
<1>8. ASSUME NEW r \in Resources PROVE Anchored(r)'
  <2>1. CASE r # id
    <3>1. records'[r] = records[r] /\ born'[r] = born[r]
      BY <1>6, <2>1 DEF TokenInv, TypeOK, RecordTypeOK
    <3>2. Anchored(r)
      BY DEF TokenInv
    <3> QED BY <1>6, <3>1, <3>2 DEF Anchored
  <2>2. CASE r = id
    <3>1. records'[r] = NewRecord(S) /\ born'[r] = now
      BY <1>2, <1>6, <2>2 DEF TokenInv, TypeOK, RecordTypeOK
    <3>2. records'[r].pages = S /\ records'[r].token = Newest(S)
      BY <3>1 DEF NewRecord
    <3>3. \A p \in S : born'[r][p] = identity[p]
      BY <1>1, <3>1
    <3>4. Newest(S) <= next_mapping_generation
      BY <1>1, <1>3 DEF TokenInv
    <3> HIDE DEF now
    <3> QED BY <1>1, <1>3, <1>6, <3>2, <3>3, <3>4 DEF Anchored
  <2> QED BY <2>1, <2>2
<1>9. \A p \in Pages : identity'[p] <= next_mapping_generation'
  BY <1>6 DEF TokenInv
<1> QED BY <1>7, <1>8, <1>9 DEF TokenInv

LEMMA UnregisterPreserves ==
  ASSUME TokenInv, NEW r \in Resources, UnregisterResource(r)
  PROVE  TokenInv'
<1>1. NoRecord \in RecordType /\ NoUpload \in UploadType
      /\ ~NoRecord.live
  BY ConstantsTyped DEF NoRecord, RecordType, NoUpload, Cleared, UploadType, Generations
<1>2. /\ records' = [records EXCEPT ![r] = NoRecord]
      /\ uploads' = [uploads EXCEPT ![r] = NoUpload]
      /\ born' = born /\ identity' = identity
      /\ next_mapping_generation' = next_mapping_generation
  BY DEF UnregisterResource, SpaceStays
<1>3. TypeOK'
  <2>1. SpaceTypeOK'
    BY SpaceStaysTyped DEF TokenInv, TypeOK, UnregisterResource
  <2>2. records' \in [Resources -> RecordType]
    BY <1>1, <1>2 DEF TokenInv, TypeOK, RecordTypeOK
  <2>3. uploads' \in [Resources -> UploadType]
    BY <1>1, <1>2 DEF TokenInv, TypeOK
  <2>4. RecordTypeOK'
    BY <2>2 DEF TokenInv, TypeOK, RecordTypeOK, UnregisterResource
  <2> QED BY <2>1, <2>3, <2>4 DEF TokenInv, TypeOK, UnregisterResource
<1>4. ASSUME NEW q \in Resources PROVE Anchored(q)'
  <2>1. CASE q = r
    <3>1. ~records'[q].live
      BY <1>1, <1>2, <2>1 DEF TokenInv, TypeOK, RecordTypeOK
    <3> QED BY <3>1 DEF Anchored
  <2>2. CASE q # r
    <3>1. records'[q] = records[q] /\ Anchored(q)
      BY <1>2, <2>2 DEF TokenInv, TypeOK, RecordTypeOK
    <3> QED BY <1>2, <3>1 DEF Anchored
  <2> QED BY <2>1, <2>2
<1>5. \A p \in Pages : identity'[p] <= next_mapping_generation'
  BY <1>2 DEF TokenInv
<1> QED BY <1>3, <1>4, <1>5 DEF TokenInv

LEMMA TokenInvInit == Init => TokenInv
<1> SUFFICES ASSUME Init PROVE TokenInv
  OBVIOUS
<1>1. TypeOK
  BY TypeInit
<1>2. \A p \in Pages : identity[p] <= next_mapping_generation
  BY DEF Init, SpaceInit
<1>3. \A r \in Resources : ~records[r].live
  BY DEF Init, RecordInit, NoRecord
<1> QED BY <1>1, <1>2, <1>3 DEF TokenInv, Anchored

LEMMA TokenInvNext == TokenInv /\ [Next]_vars => TokenInv'
<1> SUFFICES ASSUME TokenInv, [Next]_vars PROVE TokenInv'
  OBVIOUS
<1>1. TypeOK
  BY DEF TokenInv
<1>2. ASSUME NEW w \in Writers, NEW S \in Ranges, WriteMemory(w, S)
      PROVE  TokenInv'
  BY <1>1, <1>2, RangesArePages, WritePageTyped, KeepsPreserves DEF WriteMemory
<1>3. ASSUME NEW w \in Writers, ContinueWrite(w) PROVE TokenInv'
  <2>1. writers[w].writing \in SUBSET Pages
    BY <1>1 DEF TypeOK, WriterType
  <2> QED BY <1>1, <1>3, <2>1, WritePageTyped, KeepsPreserves DEF ContinueWrite
<1>4. ASSUME NEW w \in Writers, NEW R \in Ranges, NotifyWrite(w, R)
      PROVE  TokenInv'
  BY <1>1, <1>4, NotifyWriteTyped, KeepsPreserves
<1>5. ASSUME NEW w \in Writers, OnGuestMemoryWrite(w) PROVE TokenInv'
  BY <1>1, <1>5, OnGuestMemoryWriteTyped, KeepsPreserves
<1>6. ASSUME RemapMemory PROVE TokenInv'
  BY <1>6, RemapPreserves
<1>7. ASSUME NEW S \in Ranges, RegisterResource(S) PROVE TokenInv'
  BY <1>7, RegisterPreserves
<1>8. ASSUME NEW r \in Resources, UnregisterResource(r) PROVE TokenInv'
  BY <1>8, UnregisterPreserves
<1>9. ASSUME NEW r \in Resources, Query(r) PROVE TokenInv'
  BY <1>1, <1>9, QueryTyped, KeepsPreserves
<1>10. ASSUME NEW r \in Resources, Upload(r) PROVE TokenInv'
  BY <1>1, <1>10, UploadTyped, KeepsPreserves
<1>11. ASSUME NEW r \in Resources, AcknowledgeCpuUpload(r) PROVE TokenInv'
  BY <1>1, <1>11, AcknowledgeTyped, KeepsPreserves
<1>12. ASSUME NEW w \in Writers, NEW S \in Ranges, UnmapFails(w, S) PROVE TokenInv'
  BY <1>1, <1>12, UnmapFailsTyped, KeepsPreserves
<1>13. ASSUME UNCHANGED vars PROVE TokenInv'
  <2>1. UNCHANGED <<identity, protection, location, bytes,
                    next_mapping_generation, mapping_generation_exhausted,
                    reported, records, next_resource_id, write_generation,
                    write_generation_exhausted, writers, uploads, born>>
    BY <1>13 DEF vars, spaceVars, coherenceVars, recordVars
  <2>2. TypeOK'
    BY <1>1, <2>1 DEF TypeOK, SpaceTypeOK, RecordTypeOK
  <2>3. Keeps
    BY <2>1 DEF Keeps, About
  <2> QED BY <2>2, <2>3, KeepsPreserves
<1> QED
  BY <1>2, <1>3, <1>4, <1>5, <1>6, <1>7, <1>8, <1>9, <1>10, <1>11, <1>12,
     <1>13 DEF Next

-----------------------------------------------------------------------------
\* Type correctness of the writers, the records and the backend.
THEOREM TypeCorrect == Spec => []TypeOK
<1>1. TokenInv => TypeOK
  BY DEF TokenInv
<1> QED BY <1>1, TokenInvInit, TokenInvNext, PTL DEF Spec

\* A record that passes RecordIsCurrent is about the mappings it was registered
\* on, with any number of pages, records and writing threads, through every
\* order of mapping, unmapping, registering and writing.
THEOREM TokensAreSound == Spec => []TokenSound
BY TokenInvInit, TokenInvNext, TokenInvSound, PTL DEF Spec
-----------------------------------------------------------------------------
(* A clean record is unchanged.  CleanIsUnchanged is not inductive: it does  *)
(* not say that a callback on its way will be heard, nor that memory is still *)
(* what it was at a query that is not yet acknowledged.                      *)

\* Some writer has still to tell record r that page p changed, and will be heard:
\* the change is not notified yet, or its callback is newer than the record or
\* says that the generations ran out.
Owed(r, p) ==
  \E w \in Writers :
    \/ p \in writers[w].todo
    \/ /\ p \in writers[w].event.pages
       /\ \/ writers[w].event.generation > records[r].generation
          \/ writers[w].event.exhausted

\* What memory held at the query for r is what it holds, where no writer owes news.
Fresh(r) ==
  \A p \in records[r].pages : uploads[r].seen[p] = Holds(p) \/ Owed(r, p)

\* The backend has asked and the acknowledgement would be accepted.
Acknowledgeable(r) ==
  /\ uploads[r].stage = "queried"
  /\ records[r].precise
  /\ uploads[r].generation = records[r].generation

\* What the life of a record says of its upload and its generation.
UploadOK(r) ==
  /\ r >= next_resource_id => ~records[r].live
  /\ ~records[r].live => uploads[r].stage = "none"
  /\ records[r].live /\ ~records[r].needs_cpu_upload =>
       uploads[r].stage = "acknowledged"
  /\ records[r].generation <= write_generation
  /\ uploads[r].stage = "queried" => uploads[r].generation <= records[r].generation

\* Where a page's bytes can be: a page that is not in the shared backing has its
\* own, so clearing the bytes of one page never clears another's.
OwnBytes == \A p \in Pages : location[p] = p \/ location[p] > Size

\* A callback on its way carries a generation that was given out.
EventsGiven == \A w \in Writers : writers[w].event.generation <= write_generation

\* A record that is clean, or that the backend may make clean, is fresh while it
\* is about its own mappings.
Promise(r) ==
  /\ RecordIsCurrent(records[r])
  /\ ~records[r].needs_cpu_upload \/ Acknowledgeable(r)
  => Fresh(r)

\* The inductive invariant.
FreshInv ==
  /\ TokenInv
  /\ OwnBytes
  /\ EventsGiven
  /\ \A r \in Resources : UploadOK(r) /\ Promise(r)

\* The invariant gives the property.
LEMMA FreshInvClean == FreshInv => CleanIsUnchanged
<1>1. \A r, p : Owed(r, p) => InFlight(p)
  BY DEF Owed, InFlight
<1> QED BY <1>1 DEF FreshInv, Promise, Fresh, CleanIsUnchanged

\* The token check depends on the identities and on the record alone.
LEMMA CurrentStays ==
  ASSUME identity' = identity,
         mapping_generation_exhausted' = mapping_generation_exhausted,
         NEW r \in Resources, About(records[r])' = About(records[r])
  PROVE  /\ RecordIsCurrent(records[r])' <=> RecordIsCurrent(records[r])
         /\ records'[r].pages = records[r].pages
         /\ records'[r].live = records[r].live
<1>1. /\ records'[r].live = records[r].live /\ records'[r].pages = records[r].pages
      /\ records'[r].token = records[r].token
  BY DEF About
<1>2. \A S : Newest(S)' = Newest(S)
  BY DEF Newest
<1>3. \A S : HasToken(S)' <=> HasToken(S)
  BY DEF HasToken, Mapped
<1> QED BY <1>1, <1>2, <1>3 DEF RecordIsCurrent

\* A step that leaves a record, its upload and its news alone keeps the promise.
LEMMA PromiseKept ==
  ASSUME NEW r \in Resources, Promise(r),
         records'[r] = records[r], uploads'[r] = uploads[r],
         RecordIsCurrent(records[r])' => RecordIsCurrent(records[r]),
         RecordIsCurrent(records[r])' =>
           \A p \in records[r].pages : /\ Holds(p)' = Holds(p) \/ Owed(r, p)'
                                       /\ Owed(r, p) => Owed(r, p)'
  PROVE  Promise(r)'
<1> SUFFICES ASSUME RecordIsCurrent(records[r])',
                    (~records[r].needs_cpu_upload \/ Acknowledgeable(r))',
                    NEW p \in records'[r].pages
             PROVE  uploads'[r].seen[p] = Holds(p)' \/ Owed(r, p)'
  BY DEF Promise, Fresh
<1>1. ~records[r].needs_cpu_upload \/ Acknowledgeable(r)
  BY DEF Acknowledgeable
<1>2. uploads[r].seen[p] = Holds(p) \/ Owed(r, p)
  BY <1>1 DEF Promise, Fresh
<1> QED BY <1>2

-----------------------------------------------------------------------------
(* The steps preserve the invariant.                                         *)

\* A step of a writer that changes bytes only where it then owes the news.
LEMMA ChangeIsOwed ==
  ASSUME FreshInv, NEW w \in Writers, NEW shown,
         TypeOK', TokenInv', Keeps,
         UNCHANGED <<identity, location, mapping_generation_exhausted>>,
         UNCHANGED <<records, next_resource_id, write_generation, uploads>>,
         writers'[w].todo = writers[w].todo \cup shown,
         writers'[w].event = writers[w].event,
         \A v \in Writers : v # w => writers'[v] = writers[v],
         \A p \in Pages : identity[p] # 0 =>
            Holds(p)' = Holds(p) \/ p \in shown
  PROVE  FreshInv'
<1>1. TypeOK
  BY DEF FreshInv, TokenInv
<1>2. OwnBytes' /\ EventsGiven' /\ \A r \in Resources : UploadOK(r)'
  BY DEF FreshInv, OwnBytes, EventsGiven, UploadOK
<1>3. ASSUME NEW r \in Resources PROVE Promise(r)'
  <2>1. /\ RecordIsCurrent(records[r])' <=> RecordIsCurrent(records[r])
        /\ records'[r] = records[r] /\ uploads'[r] = uploads[r]
    BY CurrentStays DEF Keeps
  <2>2. ASSUME NEW p \in records[r].pages, RecordIsCurrent(records[r])
        PROVE  Holds(p)' = Holds(p) \/ Owed(r, p)'
    <3>1. p \in Pages /\ identity[p] # 0
      BY <1>1, <2>2 DEF TypeOK, RecordTypeOK, RecordType, RecordIsCurrent, HasToken,
                        Mapped
    <3>2. p \in shown => Owed(r, p)'
      BY DEF Owed
    <3> QED BY <3>1, <3>2
  <2>3. ASSUME NEW p, Owed(r, p) PROVE Owed(r, p)'
    <3>1. PICK v \in Writers :
             \/ p \in writers[v].todo
             \/ /\ p \in writers[v].event.pages
                /\ \/ writers[v].event.generation > records[r].generation
                   \/ writers[v].event.exhausted
      BY <2>3 DEF Owed
    <3>2. (p \in writers[v].todo => p \in writers'[v].todo)
          /\ writers'[v].event = writers[v].event
      OBVIOUS
    <3> QED BY <3>1, <3>2 DEF Owed
  <2> QED BY <2>1, <2>2, <2>3, PromiseKept DEF FreshInv
<1> QED BY <1>2, <1>3 DEF FreshInv

\* A page that is written is shown at every page that shares its bytes.
LEMMA WritePageFresh ==
  ASSUME FreshInv, NEW w \in Writers, NEW S \in SUBSET Pages, S # {},
         WritePage(w, S)
  PROVE  FreshInv'
<1> DEFINE x == First(S)
           shown == Showing({x})
<1>1. TypeOK /\ TypeOK' /\ Keeps /\ TokenInv'
  BY WritePageTyped, KeepsPreserves DEF FreshInv, TokenInv
<1>2. /\ \A l \in Locations : location[x] = l \/ bytes'[l] = bytes[l]
      /\ UNCHANGED <<identity, location, mapping_generation_exhausted>>
      /\ UNCHANGED <<records, next_resource_id, write_generation, uploads>>
  BY DEF WritePage, Change, recordVars
<1>3. /\ writers'[w].todo = writers[w].todo \cup shown
      /\ writers'[w].event = writers[w].event
      /\ \A v \in Writers : v # w => writers'[v] = writers[v]
  <2> HIDE DEF shown, x
  <2>1. \E R : writers' = [writers EXCEPT ![w].writing = R, ![w].todo = @ \cup shown]
    BY DEF WritePage, shown, x
  <2> QED BY <1>1, <2>1 DEF TypeOK, WriterType
<1>4. ASSUME NEW p \in Pages, identity[p] # 0
      PROVE  Holds(p)' = Holds(p) \/ p \in shown
  <2> HIDE DEF x
  <2>1. location[p] \in Locations
    BY <1>1 DEF TypeOK, SpaceTypeOK
  <2> QED BY <1>2, <1>4, <2>1 DEF Holds, Showing
<1> HIDE DEF shown
<1> QED BY <1>1, <1>2, <1>3, <1>4, ChangeIsOwed

\* An Unmap that fails owes the news of every page it cleared.
LEMMA UnmapFailsFresh ==
  ASSUME FreshInv, NEW w \in Writers, NEW S \in Ranges, UnmapFails(w, S)
  PROVE  FreshInv'
<1>1. TypeOK /\ TypeOK' /\ Keeps /\ TokenInv'
  BY UnmapFailsTyped, KeepsPreserves DEF FreshInv, TokenInv
<1>2. /\ UNCHANGED <<identity, location, mapping_generation_exhausted>>
      /\ UNCHANGED <<records, next_resource_id, write_generation, uploads>>
      /\ \A l \in Locations : l \in S \/ bytes'[l] = bytes[l]
      /\ BackingSize = 0 /\ writers[w].todo = {}
  BY DEF UnmapFails, recordVars, NotWriting
<1>3. /\ writers'[w].todo = writers[w].todo \cup S
      /\ writers'[w].event = writers[w].event
      /\ \A v \in Writers : v # w => writers'[v] = writers[v]
  BY <1>1, <1>2 DEF UnmapFails, TypeOK, WriterType
<1>4. ASSUME NEW p \in Pages PROVE Holds(p)' = Holds(p) \/ p \in S
  <2>1. location[p] \in 1..Size
    BY <1>1, <1>2, ConstantsTyped DEF TypeOK, SpaceTypeOK, Locations
  <2>2. location[p] = p
    BY <2>1, ConstantsTyped DEF FreshInv, OwnBytes
  <2>3. p \in Locations
    BY <1>2, ConstantsTyped DEF Pages, Locations
  <2> QED BY <1>2, <2>2, <2>3 DEF Holds
<1> QED BY <1>1, <1>2, <1>3, <1>4, ChangeIsOwed

\* A step that takes a generation: the callback it makes is newer than every
\* record, or says that the generations ran out.
LEMMA NotifyWriteFresh ==
  ASSUME FreshInv, NEW w \in Writers, NEW R \in Ranges, NotifyWrite(w, R)
  PROVE  FreshInv'
<1> DEFINE event == Event(R, write_generation)
<1>1. TypeOK /\ TypeOK' /\ Keeps /\ TokenInv'
  BY NotifyWriteTyped, KeepsPreserves DEF FreshInv, TokenInv
<1>2. /\ writers' = [writers EXCEPT ![w].todo = @ \ R, ![w].event = event]
      /\ writers[w].event = NoEvent
      /\ write_generation' = NextGeneration(write_generation)
      /\ UNCHANGED <<records, next_resource_id, uploads, identity, location, bytes,
                      mapping_generation_exhausted>>
  BY DEF NotifyWrite, SpaceStays
<1>3. /\ event.pages = R
      /\ write_generation \in Nat /\ MaxWriteGeneration \in Nat
      /\ write_generation <= MaxWriteGeneration
      /\ \A r \in Resources : records[r].generation \in Nat
      /\ \A r \in Resources : records[r].generation <= write_generation
  BY <1>1, ConstantsTyped DEF Event, TypeOK, RecordTypeOK, RecordType, Generations,
                              FreshInv, UploadOK
<1>4. /\ write_generation <= write_generation' /\ write_generation' \in Nat
      /\ \A r \in Resources :
           event.generation > records[r].generation \/ event.exhausted
  <2>1. CASE write_generation = MaxWriteGeneration
    <3>1. write_generation' = write_generation /\ event.exhausted
      BY <1>2, <2>1 DEF NextGeneration, Event
    <3> QED BY <1>3, <3>1
  <2>2. CASE write_generation # MaxWriteGeneration
    <3>1. /\ write_generation' = write_generation + 1
          /\ event.generation = write_generation + 1
      BY <1>2, <2>2 DEF NextGeneration, Event
    <3> HIDE DEF event
    <3> QED BY <1>3, <3>1
  <2> QED BY <2>1, <2>2
<1> HIDE DEF event
<1>5. /\ writers'[w].todo = writers[w].todo \ R
      /\ writers'[w].event = event
      /\ \A v \in Writers : v # w => writers'[v] = writers[v]
  BY <1>1, <1>2 DEF TypeOK, WriterType
<1>6. ASSUME NEW r \in Resources, NEW p, Owed(r, p) PROVE Owed(r, p)'
  <2>1. PICK v \in Writers :
           \/ p \in writers[v].todo
           \/ /\ p \in writers[v].event.pages
              /\ \/ writers[v].event.generation > records[r].generation
                 \/ writers[v].event.exhausted
    BY <1>6 DEF Owed
  <2>2. CASE v = w /\ p \in writers[w].todo
    BY <1>2, <1>3, <1>4, <1>5, <2>2 DEF Owed
  <2>3. CASE v # w
    <3>1. writers'[v] = writers[v]
      BY <1>5, <2>3
    <3> QED BY <1>2, <2>1, <3>1 DEF Owed
  <2>4. CASE v = w /\ p \notin writers[w].todo
    BY <1>2, <2>1, <2>4 DEF NoEvent
  <2> QED BY <2>2, <2>3, <2>4
<1>7. ASSUME NEW r \in Resources PROVE Promise(r)'
  <2>1. /\ RecordIsCurrent(records[r])' <=> RecordIsCurrent(records[r])
        /\ records'[r] = records[r] /\ uploads'[r] = uploads[r]
    BY <1>1, <1>2, CurrentStays DEF Keeps
  <2>2. \A p : Holds(p)' = Holds(p)
    BY <1>2 DEF Holds
  <2> QED BY <1>6, <2>1, <2>2, PromiseKept DEF FreshInv
<1>8. OwnBytes' /\ \A r \in Resources : UploadOK(r)'
  <2>1. OwnBytes'
    BY <1>2 DEF FreshInv, OwnBytes
  <2>2. ASSUME NEW r \in Resources PROVE UploadOK(r)'
    BY <1>2, <1>3, <1>4 DEF FreshInv, UploadOK
  <2> QED BY <2>1, <2>2
<1>9. ASSUME NEW v \in Writers PROVE writers'[v].event.generation <= write_generation'
  <2>1. writers[v].event.generation \in Nat
    BY <1>1, ConstantsTyped DEF TypeOK, WriterType, EventType, Generations
  <2>2. event.generation = write_generation'
    BY <1>2 DEF event, Event
  <2>3. writers'[v].event \in {event, writers[v].event}
    BY <1>5
  <2> QED BY <1>3, <1>4, <2>1, <2>2, <2>3 DEF FreshInv, EventsGiven
<1> QED BY <1>1, <1>7, <1>8, <1>9 DEF FreshInv, EventsGiven
\* What Observed does to the fields the promise reads.
LEMMA ObservedEffect ==
  ASSUME NEW record \in RecordType, NEW event \in EventType
  PROVE  LET o == Observed(record, event)
         IN  \/ /\ o = record
                /\ \/ ~record.live
                   \/ record.pages \cap event.pages = {}
                   \/ ~event.exhausted /\ ~(event.generation > record.generation)
             \/ /\ o.needs_cpu_upload
                /\ event.generation > record.generation
                /\ o.generation = event.generation
             \/ /\ o.needs_cpu_upload
                /\ ~o.precise
                /\ o.generation = record.generation
<1> DEFINE o == Observed(record, event)
           newer == event.generation > record.generation
<1>1. CASE ~record.live \/ record.pages \cap event.pages = {}
  BY <1>1 DEF Observed
<1>2. CASE record.live /\ record.pages \cap event.pages # {}
  <2>1. o = [record EXCEPT
               !.generation = IF newer THEN event.generation ELSE record.generation,
               !.precise = record.precise /\ ~event.exhausted,
               !.needs_cpu_upload = \/ record.needs_cpu_upload \/ newer
                                    \/ ~(record.precise /\ ~event.exhausted)]
    BY <1>2 DEF Observed
  <2> HIDE DEF o
  <2>2. /\ o.generation = IF newer THEN event.generation ELSE record.generation
        /\ o.precise = (record.precise /\ ~event.exhausted)
        /\ o.needs_cpu_upload = (\/ record.needs_cpu_upload \/ newer
                                 \/ ~(record.precise /\ ~event.exhausted))
    BY <2>1 DEF RecordType
  <2>3. CASE newer
    <3>1. o.generation = event.generation
      BY <2>2, <2>3
    <3>2. o.needs_cpu_upload
      BY <2>2, <2>3, Zenon
    <3> QED BY <2>3, <3>1, <3>2 DEF o
  <2>4. CASE ~newer /\ ~(record.precise /\ ~event.exhausted)
    <3>1. o.generation = record.generation
      BY <2>2, <2>4
    <3>2. o.needs_cpu_upload /\ ~o.precise
      <4> HIDE DEF newer
      <4> QED BY <2>2, <2>4, Zenon
    <3> QED BY <3>1, <3>2 DEF o
  <2>5. CASE ~newer /\ record.precise /\ ~event.exhausted
    <3> DEFINE g == record.generation
               c == record.precise
               u == record.needs_cpu_upload
    <3>1. (c /\ ~event.exhausted) = c /\ (u \/ newer \/ ~(c /\ ~event.exhausted)) = u
      <4>1. c = TRUE /\ event.exhausted = FALSE /\ newer = FALSE /\ u \in BOOLEAN
        BY <2>5 DEF RecordType, EventType
      <4> HIDE DEF c, u, newer
      <4> QED BY <4>1
    <3>2. o = [record EXCEPT !.generation = g, !.precise = c, !.needs_cpu_upload = u]
      BY <2>1, <2>5, <3>1
    <3>3. o = record
      BY <3>2 DEF RecordType
    <3> QED BY <2>5, <3>3 DEF o
  <2> QED BY <2>3, <2>4, <2>5 DEF o
<1> QED BY <1>1, <1>2

\* The callback: a record that hears news is clean no longer, and no generation
\* asked for before is accepted; one that ignores it was owed nothing by it.
LEMMA OnGuestMemoryWriteFresh ==
  ASSUME FreshInv, NEW w \in Writers, OnGuestMemoryWrite(w)
  PROVE  FreshInv'
<1> DEFINE event == writers[w].event
<1>1. TypeOK /\ TypeOK' /\ Keeps /\ TokenInv'
  BY OnGuestMemoryWriteTyped, KeepsPreserves DEF FreshInv, TokenInv
<1>2. /\ UNCHANGED <<next_resource_id, write_generation, uploads, identity,
                      location, bytes, mapping_generation_exhausted>>
      /\ \A r \in Resources : records'[r] = Observed(records[r], event)
      /\ writers' = [writers EXCEPT ![w].event = NoEvent]
  BY DEF OnGuestMemoryWrite, SpaceStays
<1>3. /\ writers'[w].todo = writers[w].todo
      /\ \A v \in Writers : v # w => writers'[v] = writers[v]
  BY <1>1, <1>2 DEF TypeOK, WriterType
<1>4. event \in EventType /\ event.generation \in Nat
  BY <1>1, ConstantsTyped DEF TypeOK, WriterType, EventType, Generations
<1> HIDE DEF event
<1>5. ASSUME NEW r \in Resources
      PROVE  Promise(r)' /\ UploadOK(r)'
  <2>1. /\ RecordIsCurrent(records[r])' <=> RecordIsCurrent(records[r])
        /\ records'[r].live = records[r].live
        /\ uploads'[r] = uploads[r]
        /\ records[r] \in RecordType /\ UploadOK(r)
        /\ records[r].generation \in Nat /\ uploads[r].generation \in Nat
        /\ write_generation \in Nat
    BY <1>1, <1>2, ConstantsTyped, CurrentStays
       DEF Keeps, TypeOK, RecordTypeOK, RecordType, UploadType, Generations, FreshInv
  <2>2. CASE /\ records'[r] = records[r]
             /\ \/ ~records[r].live
                \/ records[r].pages \cap event.pages = {}
                \/ ~event.exhausted /\ ~(event.generation > records[r].generation)
    <3>1. UploadOK(r)'
      BY <1>2, <2>1, <2>2 DEF UploadOK
    <3>2. ASSUME NEW p \in records[r].pages, Owed(r, p), RecordIsCurrent(records[r])
          PROVE  Owed(r, p)'
      <4>1. PICK v \in Writers :
               \/ p \in writers[v].todo
               \/ /\ p \in writers[v].event.pages
                  /\ \/ writers[v].event.generation > records[r].generation
                     \/ writers[v].event.exhausted
        BY <3>2 DEF Owed
      <4>2. CASE v # w
        <5>1. writers'[v] = writers[v]
          BY <1>3, <4>2
        <5> QED BY <2>2, <4>1, <5>1 DEF Owed
      <4>3. CASE v = w /\ p \in writers[w].todo
        BY <1>3, <4>3 DEF Owed
      <4>4. CASE v = w /\ p \notin writers[w].todo
        <5>1. records[r].live
          BY <3>2 DEF RecordIsCurrent
        <5> QED BY <2>2, <4>1, <4>4, <5>1 DEF event
      <4> QED BY <4>2, <4>3, <4>4
    <3>3. \A p : Holds(p)' = Holds(p)
      BY <1>2 DEF Holds
    <3>4. Promise(r)'
      BY <2>1, <2>2, <3>2, <3>3, PromiseKept DEF FreshInv
    <3> QED BY <3>1, <3>4
  <2>3. CASE /\ records'[r].needs_cpu_upload
             /\ event.generation > records[r].generation
             /\ records'[r].generation = event.generation
    <3>1. uploads[r].stage = "queried" => uploads[r].generation # event.generation
      BY <1>4, <2>1, <2>3 DEF UploadOK
    <3>2. Promise(r)'
      BY <2>1, <2>3, <3>1 DEF Promise, Acknowledgeable
    <3>3. event.generation <= write_generation
      BY DEF event, FreshInv, EventsGiven
    <3> QED BY <1>2, <1>4, <2>1, <2>3, <3>2, <3>3 DEF UploadOK
  <2>4. CASE /\ records'[r].needs_cpu_upload
             /\ ~records'[r].precise
             /\ records'[r].generation = records[r].generation
    <3>1. Promise(r)'
      BY <2>4 DEF Promise, Acknowledgeable
    <3> QED BY <1>2, <2>1, <2>4, <3>1 DEF UploadOK
  <2> QED BY <1>2, <1>4, <2>1, <2>2, <2>3, <2>4, ObservedEffect
<1>6. OwnBytes'
  BY <1>2 DEF FreshInv, OwnBytes
<1>7. EventsGiven'
  <2>1. writers'[w].event.generation = 0 /\ write_generation \in Nat
    BY <1>1, <1>2, ConstantsTyped DEF TypeOK, WriterType, RecordTypeOK, Generations,
                                      NoEvent
  <2> QED BY <1>2, <1>3, <2>1 DEF FreshInv, EventsGiven
<1> QED BY <1>1, <1>5, <1>6, <1>7 DEF FreshInv
\* A mapping call: a record that passes the token check afterwards passed it
\* before, and its pages kept their bytes.
LEMMA RemapKeepsCurrent ==
  ASSUME TokenInv, OwnBytes, RemapMemory, TokenInv', NEW r \in Resources,
         RecordIsCurrent(records[r])'
  PROVE  /\ RecordIsCurrent(records[r])
         /\ \A p \in records[r].pages : Holds(p)' = Holds(p)
<1> DEFINE S == records[r].pages
<1>1. /\ records' = records /\ born' = born
      /\ TypeOK /\ TypeOK' /\ S \in SUBSET Pages
      /\ records[r].live /\ records[r].token \in Nat
  BY ConstantsTyped DEF RemapMemory, coherenceVars, recordVars, TokenInv, TypeOK,
     RecordTypeOK, RecordType, RecordIsCurrent
<1>2. /\ identity \in [Pages -> Nat] /\ identity' \in [Pages -> Nat]
      /\ next_mapping_generation \in Nat
      /\ location \in [Pages -> Locations] /\ bytes \in [Locations -> Values]
      /\ S # {} /\ records[r].token <= next_mapping_generation
  BY <1>1, ConstantsTyped DEF TypeOK, SpaceTypeOK, TokenInv, Anchored
<1>3. \A p \in S : identity'[p] # 0 /\ identity'[p] <= records[r].token
  <2>1. Newest(S)' = records[r].token /\ \A p \in S : identity'[p] # 0
    BY <1>1 DEF RecordIsCurrent, HasToken, Mapped
  <2>2. \A p \in S : identity'[p] <= Newest(S)'
    <3>1. \A p \in records'[r].pages : identity'[p] <= Newest(records[r].pages)'
      <4>1. records'[r].pages \in SUBSET Pages /\ records'[r].pages # {}
        BY <1>1, <1>2
      <4>2. PICK g \in {identity'[p] : p \in S} :
              \A m \in {identity'[p] : p \in S} : m <= g
        <5> DEFINE T == {identity'[p] : p \in S}
        <5>1. MaxMappingGeneration \in Nat
          BY ConstantsTyped
        <5>2. T \in SUBSET (0..MaxMappingGeneration) /\ T # {}
          BY <1>1, <1>2 DEF TypeOK, SpaceTypeOK
        <5> QED BY <5>1, <5>2, GreatestElement
      <4>3. \A p \in S : identity'[p] <= g
        BY <4>2
      <4> QED BY <1>1, <4>2, <4>3 DEF Newest
    <3> QED BY <1>1, <3>1
  <2> QED BY <2>1, <2>2
<1>4. /\ \A p \in S : identity'[p] = identity[p] /\ Holds(p)' = Holds(p)
      /\ mapping_generation_exhausted => mapping_generation_exhausted'
  <2>1. ASSUME NEW R \in Ranges, NEW rights \in Protections, Map(R, rights)
        PROVE  <1>4
    <3>1. ASSUME NEW p \in S PROVE p \notin R
      <4>1. p \in R => identity'[p] = next_mapping_generation + 1
        BY <1>1, <2>1 DEF Map
      <4>2. identity'[p] <= records[r].token
        BY <1>3
      <4> QED BY <4>1, <4>2, <1>1, <1>2
    <3> QED BY <1>1, <1>2, <2>1, <3>1 DEF Map, Holds
  <2>2. ASSUME NEW R \in Ranges, NEW rights \in Protections, Protect(R, rights)
        PROVE  <1>4
    BY <2>2 DEF Protect, Holds
  <2>3. ASSUME MapFails PROVE <1>4
    BY <2>3 DEF MapFails, Holds
  <2>4. ASSUME NEW R \in Ranges, Unmap(R) PROVE <1>4
    <3>1. \A p \in S : p \notin R /\ p \in Pages
      BY <1>1, <1>2, <1>3, <2>4 DEF Unmap
    <3>2. \A p \in R : p \in Nat /\ p <= Size
      BY RangesArePages, ConstantsTyped DEF Pages
    <3>3. \A p \in S : location[p] \notin R /\ location[p] \in Locations
      <4> SUFFICES ASSUME NEW p \in S PROVE location[p] \notin R /\ location[p] \in Locations
        OBVIOUS
      <4>1. location[p] = p \/ location[p] > Size
        BY <3>1 DEF OwnBytes
      <4>2. location[p] \in Locations /\ p \notin R
        BY <1>2, <3>1
      <4> QED BY <3>2, <4>1, <4>2, ConstantsTyped DEF Locations
    <3> QED BY <1>1, <1>2, <2>4, <3>1, <3>3 DEF Unmap, Holds
  <2> QED BY <2>1, <2>2, <2>3, <2>4 DEF RemapMemory
<1>5. RecordIsCurrent(records[r])
  <2>1. HasToken(S)
    BY <1>1, <1>3, <1>4 DEF RecordIsCurrent, HasToken, Mapped
  <2>2. {identity'[p] : p \in S} = {identity[p] : p \in S}
    BY <1>4
  <2>3. Newest(S)' = Newest(S)
    <3>1. /\ Newest(S) \in {identity[p] : p \in S}
          /\ \A p \in S : identity[p] <= Newest(S)
      BY <1>1, <1>2, NewestIsGreatest
    <3>2. PICK q \in S : Newest(S) = identity'[q]
      BY <1>4, <3>1
    <3>3. \A p \in S : identity'[p] <= identity'[q]
      BY <1>4, <3>1, <3>2
    <3>4. Newest(S)' \in {identity'[p] : p \in S} /\ \A p \in S : identity'[p] <= Newest(S)'
      BY <1>1, <3>3 DEF Newest
    <3>5. PICK z \in S : Newest(S)' = identity'[z]
      BY <3>4
    <3>6. identity'[z] \in Nat /\ identity'[q] \in Nat
      BY <1>1, <1>2
    <3> QED BY <3>2, <3>3, <3>4, <3>5, <3>6
  <2> QED BY <1>1, <2>1, <2>3 DEF RecordIsCurrent
<1> QED BY <1>4, <1>5

\* A mapping call keeps the invariant.
LEMMA RemapFresh ==
  ASSUME FreshInv, RemapMemory
  PROVE  FreshInv'
<1>1. TokenInv' /\ TypeOK /\ TypeOK'
  BY RemapPreserves DEF FreshInv, TokenInv
<1>2. UNCHANGED <<records, next_resource_id, write_generation, writers, uploads>>
  BY DEF RemapMemory, coherenceVars, recordVars
<1>3. OwnBytes'
  <2>1. location \in [Pages -> Locations]
    BY <1>1 DEF TypeOK, SpaceTypeOK
  <2>2. ASSUME NEW R \in Ranges, Unmap(R) PROVE OwnBytes'
    BY <2>1, <2>2 DEF Unmap, OwnBytes, FreshInv
  <2>3. ASSUME NEW R \in Ranges, NEW rights \in Protections, Map(R, rights)
        PROVE  OwnBytes'
    BY <2>3 DEF Map, OwnBytes, FreshInv
  <2> QED BY <2>2, <2>3 DEF RemapMemory, Protect, MapFails, OwnBytes, FreshInv
<1>4. ASSUME NEW r \in Resources PROVE Promise(r)'
  <2>1. \A p : Owed(r, p)' <=> Owed(r, p)
    BY <1>2 DEF Owed
  <2>2. RecordIsCurrent(records[r])' =>
          /\ RecordIsCurrent(records[r])
          /\ \A p \in records[r].pages : Holds(p)' = Holds(p)
    BY <1>1, RemapKeepsCurrent DEF FreshInv
  <2> QED BY <1>2, <2>1, <2>2, PromiseKept DEF FreshInv
<1>5. EventsGiven' /\ \A r \in Resources : UploadOK(r)'
  BY <1>2 DEF FreshInv, EventsGiven, UploadOK
<1> QED BY <1>1, <1>3, <1>4, <1>5 DEF FreshInv
\* A step of the backend on record q leaves the other records, the bytes and the
\* news alone.
LEMMA BackendStep ==
  ASSUME FreshInv, NEW q \in Resources, SpaceStays,
         writers' = writers, write_generation' = write_generation, TokenInv',
         \A r \in Resources : r # q => /\ records'[r] = records[r]
                                       /\ uploads'[r] = uploads[r]
                                       /\ UploadOK(r)',
         UploadOK(q)', Promise(q)'
  PROVE  FreshInv'
<1>1. UNCHANGED <<identity, location, bytes, mapping_generation_exhausted>>
  BY DEF SpaceStays
<1>2. OwnBytes' /\ EventsGiven'
  BY <1>1 DEF FreshInv, OwnBytes, EventsGiven
<1>3. ASSUME NEW r \in Resources, r # q PROVE Promise(r)'
  <2>1. records'[r] = records[r] /\ uploads'[r] = uploads[r]
    BY <1>3
  <2>2. RecordIsCurrent(records[r])' <=> RecordIsCurrent(records[r])
    BY <1>1, <2>1, CurrentStays DEF About
  <2>3. \A p : Holds(p)' = Holds(p) /\ (Owed(r, p)' <=> Owed(r, p))
    BY <1>1, <2>1 DEF Holds, Owed
  <2> QED BY <2>1, <2>2, <2>3, PromiseKept DEF FreshInv
<1> QED BY <1>2, <1>3 DEF FreshInv

\* RegisterResource: a new record needs an upload, and none has been made for it.
LEMMA RegisterFresh ==
  ASSUME FreshInv, NEW S \in Ranges, RegisterResource(S)
  PROVE  FreshInv'
<1> SUFFICES ASSUME NEW id \in Resources, id = next_resource_id PROVE FreshInv'
  BY ConstantsTyped DEF FreshInv, TokenInv, TypeOK, RecordTypeOK, RegisterResource,
     Resources
<1>1. TypeOK /\ TokenInv'
  BY RegisterPreserves DEF FreshInv, TokenInv
<1>2. /\ records' = [records EXCEPT ![id] = NewRecord(S)]
      /\ next_resource_id' = id + 1
      /\ UNCHANGED <<write_generation, writers, uploads>> /\ SpaceStays
      /\ \A r \in Resources : UploadOK(r)
      /\ \A r \in Resources : r \in Nat
      /\ write_generation \in Nat
  <2>1. (\A r \in Resources : r \in Nat) /\ write_generation \in Nat
    BY <1>1, ConstantsTyped DEF Resources, TypeOK, RecordTypeOK, Generations
  <2> QED BY <2>1 DEF RegisterResource, FreshInv
<1>3. /\ records'[id] = NewRecord(S)
      /\ \A r \in Resources : r # id => records'[r] = records[r]
  BY <1>1, <1>2 DEF TypeOK, RecordTypeOK
<1>4. uploads[id].stage = "none"
  BY <1>1, <1>2 DEF UploadOK
<1>5. UploadOK(id)' /\ Promise(id)'
  <2>1. /\ records'[id].needs_cpu_upload /\ records'[id].live
        /\ records'[id].generation = write_generation
    BY <1>3 DEF NewRecord
  <2>2. Promise(id)'
    BY <1>2, <1>4, <2>1 DEF Promise, Acknowledgeable
  <2>3. ~(id >= next_resource_id')
    BY <1>1, <1>2
  <2> QED BY <1>2, <1>4, <2>1, <2>2, <2>3 DEF UploadOK
<1>6. ASSUME NEW r \in Resources, r # id PROVE UploadOK(r)'
  <2>1. r >= next_resource_id' => r >= id
    BY <1>1, <1>2
  <2> QED BY <1>2, <1>3, <1>6, <2>1 DEF UploadOK
<1> QED BY <1>1, <1>2, <1>3, <1>5, <1>6, BackendStep

\* UnregisterResource forgets the upload with the record.
LEMMA UnregisterFresh ==
  ASSUME FreshInv, NEW q \in Resources, UnregisterResource(q)
  PROVE  FreshInv'
<1>1. TypeOK /\ TokenInv'
  BY UnregisterPreserves DEF FreshInv, TokenInv
<1>2. /\ UNCHANGED <<next_resource_id, write_generation, writers>> /\ SpaceStays
      /\ records'[q] = NoRecord /\ uploads'[q] = NoUpload
      /\ \A r \in Resources : r # q => records'[r] = records[r] /\ uploads'[r] = uploads[r]
      /\ write_generation \in Nat
  BY <1>1, ConstantsTyped DEF UnregisterResource, TypeOK, RecordTypeOK, Generations
<1>3. UploadOK(q)' /\ Promise(q)'
  BY <1>2 DEF UploadOK, Promise, RecordIsCurrent, NoRecord, NoUpload
<1>4. \A r \in Resources : r # q => UploadOK(r)'
  BY <1>2 DEF FreshInv, UploadOK
<1> QED BY <1>1, <1>2, <1>3, <1>4, BackendStep

\* A copy leaves what the promise is about alone.
LEMMA UploadFresh ==
  ASSUME FreshInv, NEW q \in Resources, Upload(q)
  PROVE  FreshInv'
<1> DEFINE copy == Contents(records[q].pages)
<1>1. TypeOK /\ TokenInv'
  BY UploadTyped, KeepsPreserves DEF FreshInv, TokenInv
<1>2. /\ UNCHANGED <<records, next_resource_id, write_generation, writers>>
      /\ SpaceStays
      /\ records[q].live /\ uploads[q].stage = "none"
      /\ uploads' = [uploads EXCEPT ![q].stage = "copied", ![q].bytes = copy]
  BY DEF Upload, recordVars
<1> HIDE DEF copy
<1>3. /\ uploads'[q].stage = "copied"
      /\ \A r \in Resources : r # q => uploads'[r] = uploads[r]
  BY <1>1, <1>2 DEF TypeOK, UploadType
<1>4. records[q].needs_cpu_upload
  BY <1>2 DEF FreshInv, UploadOK
<1>5. UploadOK(q)' /\ Promise(q)'
  BY <1>2, <1>3, <1>4 DEF FreshInv, UploadOK, Promise, Acknowledgeable
<1>6. \A r \in Resources : r # q => UploadOK(r)'
  BY <1>2, <1>3 DEF FreshInv, UploadOK
<1> QED BY <1>1, <1>2, <1>3, <1>5, <1>6, BackendStep

\* At the query memory is what it is.
LEMMA QueryFresh ==
  ASSUME FreshInv, NEW q \in Resources, Query(q)
  PROVE  FreshInv'
<1> DEFINE now == Contents(records[q].pages)
<1>1. TypeOK /\ TokenInv'
  BY QueryTyped, KeepsPreserves DEF FreshInv, TokenInv
<1>2. /\ UNCHANGED <<records, next_resource_id, write_generation, writers>>
      /\ SpaceStays
      /\ records[q].live /\ uploads[q].stage = "copied"
      /\ uploads' = [uploads EXCEPT ![q].stage = "queried",
                                    ![q].generation = records[q].generation,
                                    ![q].seen = now]
  BY DEF Query, recordVars
<1>3. \A p \in records[q].pages : now[p] = Holds(p)'
  <2>1. \A p : Holds(p)' = Holds(p)
    BY <1>2 DEF SpaceStays, Holds
  <2> QED BY <1>1, <2>1, ContentsTyped
<1> HIDE DEF now
<1>4. /\ uploads'[q].stage = "queried"
      /\ uploads'[q].generation = records[q].generation
      /\ uploads'[q].seen = now
      /\ \A r \in Resources : r # q => uploads'[r] = uploads[r]
      /\ records[q].generation \in Nat
  BY <1>1, <1>2, ConstantsTyped DEF TypeOK, UploadType, RecordTypeOK, RecordType,
                                    Generations
<1>5. Promise(q)'
  BY <1>2, <1>3, <1>4 DEF Promise, Fresh
<1>6. UploadOK(q)'
  BY <1>2, <1>4 DEF FreshInv, UploadOK
<1>7. \A r \in Resources : r # q => UploadOK(r)'
  BY <1>2, <1>4 DEF FreshInv, UploadOK
<1> QED BY <1>1, <1>2, <1>4, <1>5, <1>6, <1>7, BackendStep

\* AcknowledgeCpuUpload makes clean what is unchanged since the query: the
\* generation it compares is the one that was asked for.
LEMMA AcknowledgeFresh ==
  ASSUME FreshInv, NEW q \in Resources, AcknowledgeCpuUpload(q)
  PROVE  FreshInv'
<1>1. TypeOK /\ TokenInv' /\ Keeps
  BY AcknowledgeTyped, KeepsPreserves DEF FreshInv, TokenInv
<1>2. /\ UNCHANGED <<next_resource_id, write_generation, writers>>
      /\ SpaceStays
      /\ uploads[q].stage = "queried"
      /\ CanAcknowledge(records[q], uploads[q].generation)
      /\ records' = [records EXCEPT ![q].needs_cpu_upload = FALSE]
      /\ uploads' = [uploads EXCEPT ![q].stage = "acknowledged"]
  BY DEF AcknowledgeCpuUpload
<1>3. /\ uploads'[q].stage = "acknowledged" /\ uploads'[q].seen = uploads[q].seen
      /\ records'[q].live = records[q].live
      /\ records'[q].generation = records[q].generation
      /\ records'[q].pages = records[q].pages
      /\ \A r \in Resources : r # q => records'[r] = records[r] /\ uploads'[r] = uploads[r]
  BY <1>1, <1>2 DEF TypeOK, UploadType, RecordTypeOK, RecordType
<1>4. Fresh(q)
  <2>1. RecordIsCurrent(records[q]) /\ Acknowledgeable(q)
    BY <1>2 DEF CanAcknowledge, Acknowledgeable
  <2> QED BY <2>1 DEF FreshInv, Promise
<1>5. \A p : Holds(p)' = Holds(p) /\ (Owed(q, p)' <=> Owed(q, p))
  BY <1>2, <1>3 DEF SpaceStays, Holds, Owed
<1>6. Promise(q)'
  BY <1>3, <1>4, <1>5 DEF Promise, Fresh
<1>7. UploadOK(q)'
  <2>1. records[q].live
    BY <1>2 DEF CanAcknowledge, RecordIsCurrent
  <2> QED BY <1>2, <1>3, <2>1 DEF FreshInv, UploadOK
<1>8. \A r \in Resources : r # q => UploadOK(r)'
  BY <1>2, <1>3 DEF FreshInv, UploadOK
<1> QED BY <1>1, <1>2, <1>3, <1>6, <1>7, <1>8, BackendStep

\* Before the first mapping nothing is registered and nobody writes.
LEMMA FreshInvInit == Init => FreshInv
<1> SUFFICES ASSUME Init PROVE FreshInv
  OBVIOUS
<1>1. TokenInv
  BY TokenInvInit
<1>2. OwnBytes
  BY DEF Init, SpaceInit, OwnBytes
<1>3. EventsGiven
  BY DEF Init, RecordInit, EventsGiven, NotWriting, NoEvent
<1>4. \A r \in Resources : UploadOK(r) /\ Promise(r)
  BY DEF Init, RecordInit, UploadOK, Promise, RecordIsCurrent, NoRecord, NoUpload
<1> QED BY <1>1, <1>2, <1>3, <1>4 DEF FreshInv

\* Every step of the writers, the mapping calls and the backend.
LEMMA FreshInvNext == FreshInv /\ [Next]_vars => FreshInv'
<1> SUFFICES ASSUME FreshInv, [Next]_vars PROVE FreshInv'
  OBVIOUS
<1>1. ASSUME NEW w \in Writers, NEW S \in Ranges, WriteMemory(w, S) PROVE FreshInv'
  BY <1>1, RangesArePages, WritePageFresh DEF WriteMemory
<1>2. ASSUME NEW w \in Writers, ContinueWrite(w) PROVE FreshInv'
  <2>1. writers[w].writing \in SUBSET Pages
    BY DEF FreshInv, TokenInv, TypeOK, WriterType
  <2> QED BY <1>2, <2>1, WritePageFresh DEF ContinueWrite
<1>3. CASE UNCHANGED vars
  <2>1. /\ UNCHANGED <<identity, location, bytes, mapping_generation_exhausted>>
        /\ UNCHANGED <<records, next_resource_id, write_generation, writers, uploads>>
    BY <1>3 DEF vars, spaceVars, coherenceVars, recordVars
  <2>2. TokenInv'
    BY <1>3, TokenInvNext DEF FreshInv
  <2>3. ASSUME NEW r \in Resources PROVE Promise(r)'
    <3>1. RecordIsCurrent(records[r])' <=> RecordIsCurrent(records[r])
      BY <2>1, CurrentStays DEF About
    <3>2. \A p : Holds(p)' = Holds(p) /\ (Owed(r, p)' <=> Owed(r, p))
      BY <2>1 DEF Holds, Owed
    <3> QED BY <2>1, <3>1, <3>2, PromiseKept DEF FreshInv
  <2> QED BY <2>1, <2>2, <2>3 DEF FreshInv, OwnBytes, EventsGiven, UploadOK
<1> QED BY <1>1, <1>2, <1>3, UnmapFailsFresh, NotifyWriteFresh, OnGuestMemoryWriteFresh, RemapFresh,
           RegisterFresh, UnregisterFresh, QueryFresh, UploadFresh, AcknowledgeFresh
        DEF Next

\* A clean record is unchanged: with any number of writing threads, pages, mappings
\* and records, and through the end of the generations, guest memory holds what it
\* held when the generation acknowledged for the record was asked for, except where
\* a callback of NotifyWrite is still on its way.
THEOREM CleanRecordsUnchanged == Spec => []CleanIsUnchanged
<1>1. Init => FreshInv
  BY FreshInvInit
<1>2. FreshInv /\ [Next]_vars => FreshInv'
  BY FreshInvNext
<1>3. FreshInv => CleanIsUnchanged
  BY FreshInvClean
<1> QED BY <1>1, <1>2, <1>3, PTL DEF Spec
=============================================================================

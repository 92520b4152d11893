---------------------------- MODULE AddressSpace ----------------------------
(***************************************************************************)
(* What src/src/core/memory/guest_memory.cpp promises, page by page: which *)
(* mapping a page belongs to, its protection, where its bytes are kept and *)
(* which pages a change of bytes is reported for.  GuestMemory keeps the   *)
(* same facts in three sorted lists and implements this specification.     *)
(***************************************************************************)
EXTENDS Integers, FiniteSets

CONSTANTS
  Size,                  \* the guest's pages are 1..Size
  BackingSize,           \* pages of the shared backing, after the guest's
  MaxMappingGeneration,  \* last value of the 128-bit mapping generation
  Protections,           \* the sets of rights a mapping can have
  Values,                \* what a page can hold
  Zero                   \* what cleared bytes read

VARIABLES
  identity,           \* the generation of the mapping a page is in, 0 if none
  protection,         \* its rights
  location,           \* where its bytes are: the page itself or the backing
  bytes,              \* what every location holds
  next_mapping_generation,
  mapping_generation_exhausted,
  reported            \* pages the last change of bytes is reported for

Pages == 1..Size
Locations == 1..(Size + BackingSize)
spaceVars == <<identity, protection, location, bytes, next_mapping_generation,
               mapping_generation_exhausted, reported>>

ASSUME SpaceAssumption ==
  /\ Size \in Nat \ {0} /\ BackingSize \in Nat
  /\ MaxMappingGeneration \in Nat \ {0}
  /\ Zero \in Values

\* The non-empty ranges of pages.
Ranges == {a..b : a \in Pages, b \in Pages} \ {{}}

SpaceTypeOK ==
  /\ identity \in [Pages -> 0..MaxMappingGeneration]
  /\ protection \in [Pages -> Protections \cup {{}}]
  /\ location \in [Pages -> Locations]
  /\ bytes \in [Locations -> Values]
  /\ next_mapping_generation \in 0..MaxMappingGeneration
  /\ mapping_generation_exhausted \in BOOLEAN
  /\ reported \in SUBSET Pages

SpaceInit ==
  /\ identity = [p \in Pages |-> 0]
  /\ protection = [p \in Pages |-> {}]
  /\ location = [p \in Pages |-> p]
  /\ bytes = [l \in Locations |-> Zero]
  /\ next_mapping_generation = 0
  /\ mapping_generation_exhausted = FALSE
  /\ reported = {}

-----------------------------------------------------------------------------
Mapped(S) == \A p \in S : identity[p] # 0

\* The pages of S are mapped with all the rights asked for.
CanAccess(S, rights) == Mapped(S) /\ \A p \in S : rights \subseteq protection[p]

\* CaptureMappingToken of a mapped range: the newest identity in it.
Newest(S) == CHOOSE g \in {identity[p] : p \in S} : \A p \in S : identity[p] <= g

Holds(p) == bytes[location[p]]

\* The mapped pages that show a byte of S.
Showing(S) == {p \in Pages : identity[p] # 0
                             /\ \E q \in S : location[p] = location[q]}

\* The pages of S become one mapping, with new bytes of its own or shared ones.
Map(S, rights) ==
  /\ \A p \in S : identity[p] = 0
  /\ ~mapping_generation_exhausted
  /\ next_mapping_generation < MaxMappingGeneration
  /\ next_mapping_generation' = next_mapping_generation + 1
  /\ identity' = [p \in Pages |-> IF p \in S THEN next_mapping_generation + 1
                                  ELSE identity[p]]
  /\ protection' = [p \in Pages |-> IF p \in S THEN rights ELSE protection[p]]
  /\ location' \in [Pages -> Locations]
  /\ \A p \in Pages : \/ location'[p] = location[p]
                      \/ p \in S /\ location'[p] > Size
  /\ reported' = {}
  /\ UNCHANGED <<bytes, mapping_generation_exhausted>>

\* A mapping that fails may use up a generation, or the last one.
MapFails ==
  /\ \/ /\ ~mapping_generation_exhausted
        /\ next_mapping_generation < MaxMappingGeneration
        /\ next_mapping_generation' = next_mapping_generation + 1
        /\ UNCHANGED mapping_generation_exhausted
     \/ /\ next_mapping_generation = MaxMappingGeneration
        /\ mapping_generation_exhausted' = TRUE
        /\ UNCHANGED next_mapping_generation
  /\ reported' = {}
  /\ UNCHANGED <<identity, protection, location, bytes>>

\* A change of rights keeps the identity.
Protect(S, rights) ==
  /\ Mapped(S)
  /\ protection' = [p \in Pages |-> IF p \in S THEN rights ELSE protection[p]]
  /\ reported' = {}
  /\ UNCHANGED <<identity, location, bytes, next_mapping_generation,
                 mapping_generation_exhausted>>

\* The bytes of an unmapped page are cleared, those of a shared backing stay.
Unmap(S) ==
  /\ Mapped(S)
  /\ identity' = [p \in Pages |-> IF p \in S THEN 0 ELSE identity[p]]
  /\ protection' = [p \in Pages |-> IF p \in S THEN {} ELSE protection[p]]
  /\ location' = [p \in Pages |-> IF p \in S THEN p ELSE location[p]]
  /\ bytes' = [l \in Locations |-> IF l \in S THEN Zero ELSE bytes[l]]
  /\ reported' = {}
  /\ UNCHANGED <<next_mapping_generation, mapping_generation_exhausted>>

\* Bytes of the pages of S change, and every page that shows one is reported.
Change(S) ==
  /\ Mapped(S)
  /\ bytes' \in [Locations -> Values]
  /\ \A l \in Locations : (\E p \in S : location[p] = l) \/ bytes'[l] = bytes[l]
  /\ reported' \in SUBSET Pages
  /\ Showing(S) \subseteq reported'
  /\ UNCHANGED <<identity, protection, location, next_mapping_generation,
                 mapping_generation_exhausted>>

SpaceNext ==
  \/ \E S \in Ranges, rights \in Protections : Map(S, rights)
  \/ MapFails
  \/ \E S \in Ranges, rights \in Protections : Protect(S, rights)
  \/ \E S \in Ranges : Unmap(S)
  \/ \E S \in Ranges : Change(S)

SpaceSpec == SpaceInit /\ [][SpaceNext]_spaceVars
=============================================================================

----------------------------- MODULE GuestMemory -----------------------------
(***************************************************************************)
(* The guest address space of src/src/core/memory/guest_memory.cpp: three  *)
(* sorted lists of intervals (the regions with their protection, the       *)
(* mapping identities, the shared mappings), the bytes behind them and the *)
(* report of what a checked mutation changed.  Addresses count pages; a    *)
(* page holds one value.  Every operation holds mapping_mutex_, so the     *)
(* lists change in one step; writes share the lock, and what that means    *)
(* for their bytes is in ResourceCoherence.  A call that returns false     *)
(* before it changed anything is no step.                                  *)
(***************************************************************************)
EXTENDS Integers, Sequences, FiniteSets, FiniteSetsExt, SequencesExt

CONSTANTS
  Size,                  \* the guest's pages are 1..Size
  BackingSize,           \* pages of the one shared backing
  MaxMappingGeneration,  \* last value of the 128-bit mapping generation
  Protections,           \* the sets of rights a mapping can have
  Values, Zero,          \* what a page holds, and what cleared bytes read
  MaxExactRanges         \* MutationReport::kMaximumExactRanges

VARIABLES
  host_mapped,               \* the bytes are host pages, fixed at construction
  regions,
  mapping_identity_regions,
  shared_mappings,
  private,                   \* bytes_ or host_mapping_
  backing,                   \* the bytes of the shared backing
  next_mapping_generation,
  mapping_generation_exhausted,
  mutations                  \* the MutationReport of the last operation

vars == <<host_mapped, regions, mapping_identity_regions, shared_mappings,
          private, backing, next_mapping_generation,
          mapping_generation_exhausted, mutations>>
lists == <<regions, mapping_identity_regions, shared_mappings>>
generations == <<next_mapping_generation, mapping_generation_exhausted>>

ASSUME MemoryAssumption ==
  /\ Size \in Nat \ {0} /\ BackingSize \in Nat
  /\ MaxMappingGeneration \in Nat \ {0} /\ MaxExactRanges \in Nat \ {0}
  /\ Zero \in Values /\ {0, 1} \subseteq Values

Pages == 1..Size
NoMutations == [whole |-> FALSE, ranges |-> {}]

Init ==
  /\ host_mapped \in BOOLEAN
  /\ regions = <<>> /\ mapping_identity_regions = <<>> /\ shared_mappings = <<>>
  /\ private = [p \in Pages |-> Zero]
  /\ backing = [o \in 1..BackingSize |-> Zero]
  /\ next_mapping_generation = 0
  /\ mapping_generation_exhausted = FALSE
  /\ mutations = NoMutations

-----------------------------------------------------------------------------
(* Sorted lists of intervals.                                               *)

End(r) == r.address + r.size
PagesOf(r) == r.address..(End(r) - 1)

\* std::lower_bound by address.
LowerBound(list, address) ==
  Min({i \in DOMAIN list : list[i].address >= address} \cup {Len(list) + 1})

\* FindContainingRegion and FindSharedMapping; 0 when no interval contains it.
FindContaining(list, address) ==
  LET i == LowerBound(list, address)
  IN  CASE i <= Len(list) /\ list[i].address = address -> i
        [] i > 1 /\ address < End(list[i - 1])         -> i - 1
        [] OTHER                                       -> 0

InsertSorted(list, r) == InsertAt(list, LowerBound(list, r.address), r)

\* Neighbours that touch and carry the same are joined.
Coalesce(list, Same(_, _)) ==
  FoldLeft(LAMBDA out, r :
             IF out # <<>> /\ End(Last(out)) = r.address /\ Same(Last(out), r)
             THEN [out EXCEPT ![Len(out)].size = @ + r.size]
             ELSE Append(out, r),
           <<>>, list)

SameProtection(r, s) == r.protection = s.protection
SameGeneration(r, s) == r.generation = s.generation
CoalesceRegions(list) == Coalesce(list, SameProtection)
CoalesceMappingIdentityRegions(list) == Coalesce(list, SameGeneration)

\* The piece of r between two addresses.
Piece(r, from, to) == [r EXCEPT !.address = from, !.size = to - from]

\* What is left of r, as a list, when a..e-1 is taken out.
Outside(r, a, e) ==
  IF e <= r.address \/ End(r) <= a THEN <<r>>
  ELSE (IF r.address < a THEN <<Piece(r, r.address, a)>> ELSE <<>>)
       \o (IF e < End(r) THEN <<Piece(r, e, End(r))>> ELSE <<>>)

Removed(list, a, e) ==
  FoldLeft(LAMBDA out, r : out \o Outside(r, a, e), <<>>, list)

\* Variant for the checks: a shared mapping that is cut only in part stays whole.
RemovedSharedWhole(list, a, e) ==
  SelectSeq(list, LAMBDA r : r.address < a \/ e < End(r))

\* The same for shared mappings: a tail starts further into the backing.
RemovedShared(list, a, e) ==
  LET Moved(s, r) ==
        [s EXCEPT !.backing_offset = @ + (s.address - r.address)]
      Pieces(r) == [i \in DOMAIN Outside(r, a, e) |-> Moved(Outside(r, a, e)[i], r)]
  IN  FoldLeft(LAMBDA out, r : out \o Pieces(r), <<>>, list)

\* Protect: the part of every region inside a..e-1 gets the new rights.
Reprotected(list, a, e, rights) ==
  LET Inside(r) == [Piece(r, Max({a, r.address}), Min({e, End(r)}))
                      EXCEPT !.protection = rights]
      Pieces(r) ==
        IF e <= r.address \/ End(r) <= a THEN <<r>>
        ELSE (IF r.address < a THEN <<Piece(r, r.address, a)>> ELSE <<>>)
             \o <<Inside(r)>>
             \o (IF e < End(r) THEN <<Piece(r, e, End(r))>> ELSE <<>>)
  IN  FoldLeft(LAMBDA out, r : out \o Pieces(r), <<>>, list)

-----------------------------------------------------------------------------
(* Access.                                                                  *)

ContainsRange(a, n) == a \in Pages /\ n <= Size + 1 - a

CanMapLocked(a, n) ==
  LET i == LowerBound(regions, a)
  IN  /\ ContainsRange(a, n)
      /\ i > 1 => End(regions[i - 1]) <= a
      /\ i <= Len(regions) => a + n <= regions[i].address

\* The walk from the interval that contains a: how far it gets without a gap
\* and through intervals that pass the test.
Reach(list, a, Passes(_)) ==
  LET i == FindContaining(list, a)
  IN  IF i = 0 THEN a
      ELSE FoldLeft(LAMBDA at, r : IF r.address <= at /\ at < End(r) /\ Passes(r)
                                   THEN End(r) ELSE at,
                    a, SubSeq(list, i, Len(list)))

CanAccessLocked(a, n, rights) ==
  /\ ContainsRange(a, n)
  /\ a + n <= Reach(regions, a, LAMBDA r : rights \subseteq r.protection)

\* CaptureMappingTokenLocked: the newest generation met on the walk, 0 if the
\* range is not mapped.
CaptureMappingToken(a, n) ==
  LET met == {i \in DOMAIN mapping_identity_regions :
                /\ mapping_identity_regions[i].address < a + n
                /\ a < End(mapping_identity_regions[i])}
  IN  IF /\ CanAccessLocked(a, n, {})
         /\ a + n <= Reach(mapping_identity_regions, a, LAMBDA r : TRUE)
      THEN Max({mapping_identity_regions[i].generation : i \in met})
      ELSE 0

AlignUp(a, alignment) == ((a + alignment - 1) \div alignment) * alignment

\* Variant for the checks: a gap of exactly the length is passed over.
FindUnmappedRangeStrict(start, n, alignment) ==
  LET From(x) == AlignUp(x, alignment)
      Step(s, r) ==
        CASE s.found \/ End(r) <= s.at -> s
          [] ~s.found /\ s.at < r.address /\ n < r.address - s.at -> [s EXCEPT !.found = TRUE]
          [] OTHER -> [s EXCEPT !.at = From(End(r))]
      last == FoldLeft(Step, [at |-> From(Max({start, 1})), found |-> FALSE],
                       regions)
  IN  IF last.found \/ ContainsRange(last.at, n) THEN last.at ELSE 0

\* FindUnmappedRange; 0 when nothing fits.
FindUnmappedRange(start, n, alignment) ==
  LET From(x) == AlignUp(x, alignment)
      Step(s, r) ==
        CASE s.found \/ End(r) <= s.at -> s
          [] ~s.found /\ s.at < r.address /\ n <= r.address - s.at -> [s EXCEPT !.found = TRUE]
          [] OTHER -> [s EXCEPT !.at = From(End(r))]
      last == FoldLeft(Step, [at |-> From(Max({start, 1})), found |-> FALSE],
                       regions)
  IN  IF last.found \/ ContainsRange(last.at, n) THEN last.at ELSE 0

\* Where the byte of a page is: a guest page, or Size plus a backing offset.
Location(p) ==
  LET i == FindContaining(shared_mappings, p)
  IN  IF i = 0 THEN p
      ELSE Size + shared_mappings[i].backing_offset
                + (p - shared_mappings[i].address)

Stored == [l \in 1..(Size + BackingSize) |->
             IF l <= Size THEN private[l] ELSE backing[l - Size]]

-----------------------------------------------------------------------------
(* The report of a mutation.                                                *)

\* MutationReport::Add of one page: joined with the ranges it touches; beyond
\* the limit the report covers all of memory.
AddPage(m, p) ==
  LET touching == {r \in m.ranges : {p - 1, p, p + 1} \cap r # {}}
      apart    == m.ranges \ touching
  IN  CASE m.whole -> m
        [] ~m.whole /\ Cardinality(apart) = MaxExactRanges ->
             [whole |-> TRUE, ranges |-> {}]
        [] OTHER -> [m EXCEPT !.ranges = apart \cup {{p} \cup UNION touching}]

\* Variant for the checks: only the page written through is reported.
RecordWrittenPage(m, p) == AddPage(m, p)

\* RecordActualWriteRangeLocked, page by page: a page of the backing is reported
\* through every mapping that shows it, in the order of the list.
RecordActualWrite(m, p) ==
  LET Offset(alias) == Location(p) - Size - alias.backing_offset
      Add(r, alias) == IF Offset(alias) \in 0..(alias.size - 1)
                       THEN AddPage(r, alias.address + Offset(alias)) ELSE r
  IN  IF Location(p) = p THEN AddPage(m, p)
      ELSE FoldLeft(Add, m, shared_mappings)

\* The pages a, a+1, ... of the range, in order.
Sequence(a, n) == [i \in 1..n |-> a + i - 1]
Report(pages) == FoldLeft(RecordActualWrite, NoMutations, pages)

Reported == IF mutations.whole THEN Pages ELSE UNION mutations.ranges

\* The bytes after the pages of a list were written one after the other.
Written(pages, Source(_, _)) ==
  FoldLeft(LAMBDA store, p : [store EXCEPT ![Location(p)] = Source(store, p)],
           Stored, pages)

\* WriteBytes and FillBytes leave these bytes, private and of the backing.
Store(after) ==
  /\ private' = [p \in Pages |-> after[p]]
  /\ backing' = [o \in 1..BackingSize |-> after[Size + o]]

-----------------------------------------------------------------------------
(* Operations.                                                              *)

\* MapLocked's insertion into the two lists.
Insert(a, n, rights) ==
  /\ regions' = CoalesceRegions(InsertSorted(regions,
                   [address |-> a, size |-> n, protection |-> rights]))
  /\ mapping_identity_regions' =
       CoalesceMappingIdentityRegions(InsertSorted(mapping_identity_regions,
         [address |-> a, size |-> n, generation |-> next_mapping_generation + 1]))

\* AllocateMappingGenerationLocked succeeds.
AllocateMappingGeneration ==
  /\ ~mapping_generation_exhausted
  /\ next_mapping_generation < MaxMappingGeneration
  /\ next_mapping_generation' = next_mapping_generation + 1
  /\ UNCHANGED mapping_generation_exhausted

Map(a, n, rights) ==
  /\ CanMapLocked(a, n)
  /\ AllocateMappingGeneration
  /\ Insert(a, n, rights)
  /\ mutations' = NoMutations
  /\ UNCHANGED <<host_mapped, shared_mappings, private, backing>>

\* The host refuses the protection, or a list cannot grow: only the generation
\* is gone.
MapFails(a, n) ==
  /\ CanMapLocked(a, n)
  /\ AllocateMappingGeneration
  /\ mutations' = NoMutations
  /\ UNCHANGED <<host_mapped, lists, private, backing>>

\* No generation is left: this and every later mapping fails.
MapExhausted(a, n) ==
  /\ CanMapLocked(a, n)
  /\ ~mapping_generation_exhausted
  /\ next_mapping_generation = MaxMappingGeneration
  /\ mapping_generation_exhausted' = TRUE
  /\ mutations' = NoMutations
  /\ UNCHANGED <<host_mapped, lists, private, backing, next_mapping_generation>>

\* MapShared: the pages show the backing from an offset on.
MapShared(a, n, rights, offset) ==
  /\ ~host_mapped
  /\ offset + n - 1 <= BackingSize
  /\ CanMapLocked(a, n)
  /\ AllocateMappingGeneration
  /\ Insert(a, n, rights)
  /\ shared_mappings' = InsertSorted(shared_mappings,
                          [address |-> a, size |-> n, backing_offset |-> offset])
  /\ mutations' = NoMutations
  /\ UNCHANGED <<host_mapped, private, backing>>

Protect(a, n, rights) ==
  /\ CanAccessLocked(a, n, {})
  /\ regions' = CoalesceRegions(Reprotected(regions, a, a + n, rights))
  /\ mutations' = NoMutations
  /\ UNCHANGED <<host_mapped, mapping_identity_regions, shared_mappings, private,
                 backing, generations>>

\* Unmap clears the guest's own bytes; a shared backing keeps its own.
Unmap(a, n) ==
  /\ CanAccessLocked(a, n, {})
  /\ regions' = CoalesceRegions(Removed(regions, a, a + n))
  /\ mapping_identity_regions' = CoalesceMappingIdentityRegions(
                                   Removed(mapping_identity_regions, a, a + n))
  /\ shared_mappings' = RemovedShared(shared_mappings, a, a + n)
  /\ private' = [p \in Pages |-> IF p \in a..(a + n - 1) THEN Zero ELSE private[p]]
  /\ mutations' = NoMutations
  /\ UNCHANGED <<host_mapped, backing, generations>>

\* The host refuses to take the cleared pages away: the lists stay, and the
\* cleared range is reported.
UnmapFails(a, n) ==
  /\ host_mapped
  /\ CanAccessLocked(a, n, {})
  /\ private' = [p \in Pages |-> IF p \in a..(a + n - 1) THEN Zero ELSE private[p]]
  /\ mutations' = [whole |-> FALSE, ranges |-> {a..(a + n - 1)}]
  /\ UNCHANGED <<host_mapped, lists, backing, generations>>

Mutate(pages, Source(_, _)) ==
  /\ Store(Written(pages, Source))
  /\ mutations' = Report(pages)
  /\ UNCHANGED <<host_mapped, lists, generations>>

Write(a, n, source) ==
  /\ CanAccessLocked(a, n, {"write"})
  /\ Mutate(Sequence(a, n), LAMBDA store, p : source[p - a + 1])

Fill(a, n, value) ==
  /\ CanAccessLocked(a, n, {"write"})
  /\ Mutate(Sequence(a, n), LAMBDA store, p : value)

\* Copy: memmove without shared mappings, otherwise page by page, backwards
\* when the destination overlaps the source from above.
Copy(d, s, n) ==
  LET pages == IF d > s /\ d - s < n THEN Reverse(Sequence(d, n))
               ELSE Sequence(d, n)
  IN  /\ CanAccessLocked(s, n, {"read"})
      /\ CanAccessLocked(d, n, {"write"})
      /\ d # s
      /\ Mutate(pages, LAMBDA store, p :
                   IF shared_mappings = <<>> THEN private[p - d + s]
                   ELSE store[Location(p - d + s)])

\* Initialize and InitializeFill write pages of any protection.
Initialize(a, n, source) ==
  /\ CanAccessLocked(a, n, {})
  /\ Mutate(Sequence(a, n), LAMBDA store, p : source[p - a + 1])

\* The host refuses a protection on the way: the regions before it, and perhaps
\* that one too, are written and reported.
InitializeFails(a, n, done, source) ==
  /\ host_mapped
  /\ CanAccessLocked(a, n, {})
  /\ \/ done = n
     \/ \E i \in DOMAIN regions : End(regions[i]) = a + done
  /\ Mutate(Sequence(a, done), LAMBDA store, p : source[p - a + 1])

-----------------------------------------------------------------------------
\* What is written: a pattern that tells neighbours apart.
Sources(n) == {[i \in 1..n |-> (i + k) % 2] : k \in {0, 1}}
Lengths == 1..Size

Next ==
  \E a \in Pages, n \in Lengths :
    \/ \E rights \in Protections :
         \/ Map(a, n, rights)
         \/ \E offset \in 1..BackingSize : MapShared(a, n, rights, offset)
         \/ Protect(a, n, rights)
    \/ MapFails(a, n)
    \/ MapExhausted(a, n)
    \/ Unmap(a, n)
    \/ UnmapFails(a, n)
    \/ \E value \in Values : Fill(a, n, value)
    \/ \E s \in Pages : Copy(a, s, n)
    \/ \E source \in Sources(n) :
         \/ Write(a, n, source)
         \/ Initialize(a, n, source)
         \/ \E done \in 0..n : InitializeFails(a, n, done, source)

Spec == Init /\ [][Next]_vars

-----------------------------------------------------------------------------
(* Properties.                                                              *)

Covering(list, p) == {i \in DOMAIN list : p \in PagesOf(list[i])}
The(list, p) == list[CHOOSE i \in Covering(list, p) : TRUE]

\* The lists read page by page.
Space ==
  INSTANCE AddressSpace WITH
    identity <- [p \in Pages |->
                   IF Covering(mapping_identity_regions, p) = {} THEN 0
                   ELSE The(mapping_identity_regions, p).generation],
    protection <- [p \in Pages |->
                     IF Covering(regions, p) = {} THEN {}
                     ELSE The(regions, p).protection],
    location <- [p \in Pages |-> Location(p)],
    bytes <- Stored,
    reported <- Reported

\* The lists of intervals behave like one table with an entry per page: map,
\* protect and unmap change the pages of one range alike and no other page, an
\* identity is never used twice and outlives changes of protection, and every page that shows a
\* changed byte, through whatever alias, is reported, also by operations that
\* fail half-way.
ImplementsAddressSpace == Space!SpaceSpec

\* The three lists agree: each is sorted without overlap and maximally joined
\* where it is meant to be, the regions and the identities cover the same
\* pages, what is shared is mapped, and the token of a range is the newest
\* identity of its pages.
ListsAgree ==
  LET Sorted(list) == \A i \in 2..Len(list) : End(list[i - 1]) <= list[i].address
      Joined(list, Same(_, _)) ==
        \A i \in 2..Len(list) :
          End(list[i - 1]) = list[i].address => ~Same(list[i - 1], list[i])
      Covered(list) == {p \in Pages : Covering(list, p) # {}}
  IN  /\ Sorted(regions) /\ Joined(regions, SameProtection)
      /\ Sorted(mapping_identity_regions)
      /\ Joined(mapping_identity_regions, SameGeneration)
      /\ Sorted(shared_mappings)
      /\ Covered(regions) = Covered(mapping_identity_regions)
      /\ Covered(shared_mappings) \subseteq Covered(regions)
      /\ \A a \in Pages : \A n \in 1..(Size + 1 - a) :
           CaptureMappingToken(a, n) =
             IF a..(a + n - 1) \subseteq Covered(regions)
             THEN Max({The(mapping_identity_regions, p).generation :
                         p \in a..(a + n - 1)})
             ELSE 0

\* The search for free pages returns the lowest aligned address from which the
\* range fits between the mappings, and fails only if there is none.
FindsLowestFit ==
  \A start \in 0..(Size + 1), n \in Lengths, alignment \in {1, 2, 4} :
    LET fits == {a \in Pages : /\ a >= start /\ a % alignment = 0
                               /\ n <= Size + 1 - a
                               /\ \A p \in a..(a + n - 1) : Covering(regions, p) = {}}
    IN  FindUnmappedRange(start, n, alignment) = IF fits = {} THEN 0 ELSE Min(fits)
=============================================================================

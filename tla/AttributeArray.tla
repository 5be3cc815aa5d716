--------------------------- MODULE AttributeArray ---------------------------
(***************************************************************************)
(* build_attribute_array of loader/boot_protocol/ultra.c: the loop that    *)
(* finds room for the boot context, whose last part is the memory map,     *)
(* while every allocation it makes may itself change the map.              *)
(*                                                                         *)
(* The map is reduced to its number of entries.  What an allocation or a   *)
(* free does to that number is up to the memory services: it may change by *)
(* at most Growth.                                                         *)
(***************************************************************************)
EXTENDS Pages

CONSTANTS
    ENTRY_SIZE,     \* sizeof(struct ultra_memory_map_entry)
    FixedSizes,     \* the sizes the other attributes may add up to
    MaxEntries,     \* entries a map can have (bound)
    Growth          \* entries one call of the allocator adds or removes

EntriesPerPage == PAGE_SIZE \div ENTRY_SIZE

ASSUME ArrayAssumption ==
    /\ PAGE_SIZE \in Nat \ {0} /\ ENTRY_SIZE \in Nat \ {0}
    /\ FixedSizes \subseteq Nat /\ MaxEntries \in Nat \ {0} /\ Growth \in Nat

\* The leeway of the code is enough for what the allocators really do.
ASSUME GrowthAssumption == 2 * Growth <= EntriesPerPage

VARIABLES
    pc,
    fixed_bytes,        \* bytes of the array other than the map's entries
    map_count,          \* entries of the memory map
    mm_entry_count,     \* entries there is room for
    pages_needed,
    handed              \* entries written to the array by the final release

vars == <<pc, fixed_bytes, map_count, mm_entry_count, pages_needed, handed>>

Init ==
    /\ pc = "measure"
    /\ fixed_bytes = 0
    /\ map_count = 1
    /\ mm_entry_count = 0
    /\ pages_needed = 0
    /\ handed = 0

\* What the memory services may make of the map in one call.
Perturbed == {n \in 1..MaxEntries : map_count - Growth <= n /\ n <= map_count + Growth}

\* PAGE_ROUND_UP(bytes) >> PAGE_SHIFT.
PagesFor(bytes) == (bytes + PAGE_SIZE - 1) \div PAGE_SIZE

\* MUTANT: the capacity is not reduced by what the other attributes take.
Spare_WholePage(bytes) == PAGE_SIZE \div ENTRY_SIZE

\* Entries that fit into what rounding up to whole pages added.
Spare(bytes) == (PagesFor(bytes) * PAGE_SIZE - bytes) \div ENTRY_SIZE

\* "Add 2 to give some leeway for memory map growth after the next allocation".
Leeway == 2

\* The bytes of everything but the map's entries; the boot protocol has changed
\* the map in any way until then.
Measure ==
    /\ pc = "measure"
    /\ fixed_bytes' \in FixedSizes
    /\ map_count' \in 1..MaxEntries
    /\ pc' = "probe"
    /\ UNCHANGED <<mm_entry_count, pages_needed, handed>>

\* The first services_release_resources(NULL, 0, 0, NULL).
Probe ==
    LET wanted == map_count + Leeway
        bytes == fixed_bytes + wanted * ENTRY_SIZE
    IN
    /\ pc = "probe"
    /\ mm_entry_count' = wanted + Spare(bytes)
    /\ pages_needed' = PagesFor(bytes)
    /\ pc' = "allocate"
    /\ UNCHANGED <<fixed_bytes, map_count, handed>>

\* allocate_pages_ex(): it changes the map.
Allocate ==
    /\ pc = "allocate"
    /\ map_count' \in Perturbed
    /\ pc' = "check"
    /\ UNCHANGED <<fixed_bytes, mm_entry_count, pages_needed, handed>>

Outgrown == mm_entry_count < map_count

GrownRoom == mm_entry_count + EntriesPerPage

\* The map outgrew the array: free it and try again with one more page.
Retry ==
    /\ pc = "check"
    /\ Outgrown
    /\ mm_entry_count' = GrownRoom
    /\ pages_needed' = pages_needed + 1
    /\ map_count' \in Perturbed
    /\ pc' = IF GrownRoom <= map_count THEN "bug" ELSE "allocate"
    /\ UNCHANGED <<fixed_bytes, handed>>

FinalCapacity == map_count

\* The map fits: the final call gets room for exactly its entries.
Accept ==
    /\ pc = "check"
    /\ ~Outgrown
    /\ mm_entry_count' = FinalCapacity
    /\ pc' = "write"
    /\ UNCHANGED <<fixed_bytes, map_count, pages_needed, handed>>

\* write_memory_map(): the final services_release_resources().  With too little
\* room it would only return the count, and leave the services running.
WriteMemoryMap ==
    /\ pc = "write"
    /\ \/ /\ mm_entry_count < map_count
          /\ UNCHANGED handed
       \/ /\ mm_entry_count >= map_count
          /\ handed' = map_count
    /\ pc' = "done"
    /\ UNCHANGED <<fixed_bytes, map_count, mm_entry_count, pages_needed>>

Done == pc = "done" /\ UNCHANGED vars

Next == Measure \/ Probe \/ Allocate \/ Retry \/ Accept \/ WriteMemoryMap \/ Done

Spec == Init /\ [][Next]_vars /\ WF_vars(Next)

-----------------------------------------------------------------------------

\* Type invariant of the sizing loop.
TypeOK ==
    /\ pc \in {"measure", "probe", "allocate", "check", "write", "done", "bug"}
    /\ fixed_bytes \in Nat
    /\ map_count \in 1..MaxEntries
    /\ mm_entry_count \in Nat
    /\ pages_needed \in Nat
    /\ handed \in 0..MaxEntries

\* The BUG_ON "Memory map grew by more than 170 entries after one allocation"
\* is not reached, however the map grew over the iterations before.
NeverOutgrown == pc # "bug"

\* What is written, the fixed attributes and one entry per range, lies inside
\* the pages that were allocated for it.
ArrayHasRoom ==
    pc \in {"write", "done"} =>
      fixed_bytes + mm_entry_count * ENTRY_SIZE <= pages_needed * PAGE_SIZE

\* The kernel gets the whole map, and the services are really released.
WholeMapHanded == pc = "done" => handed = map_count

\* build_attribute_array does what it is for, although each allocation may change the
\* map it has to make room for: its BUG_ON is not reached, what it writes lies inside
\* its pages, and the map it hands over is complete.
ArrayIsSound == NeverOutgrown /\ ArrayHasRoom /\ WholeMapHanded
=============================================================================

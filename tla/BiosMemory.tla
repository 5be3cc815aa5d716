----------------------------- MODULE BiosMemory -----------------------------
(***************************************************************************)
(* The BIOS memory services, loader/arch/x86/bios/bios_memory_services.c:  *)
(* the map is loaded from E820, repaired by mm_fixup, and then is the page *)
(* allocator's only data structure until it is handed to the kernel.       *)
(***************************************************************************)
EXTENDS MemoryMap

CONSTANTS
    E820Lists,      \* the lists of ranges a firmware may report
    UsedLists,      \* those after which memory is allocated as well (bound)
    STAGE2_BASE_PAGE, STAGE2_PAGES,  \* where the loader itself sits
    PageCounts,     \* sizes of allocations, in pages (bound)
    Ceilings,       \* upper limits of allocations
    Addresses,      \* addresses of allocations at a fixed place
    AllocTypes,     \* types allocations are made with
    MaxAllocs,      \* live allocations (bound)
    ProtocolTypes,  \* what mm_declare_known_mm_types may be called with
    Capacities      \* sizes of the buffer the map is released into

ASSUME RequestsAssumption ==
    /\ \A n \in PageCounts : n \in Nat /\ n * PAGE_SIZE < Wrap
    /\ Addresses \subseteq 0..Wrap-1
    /\ \A t \in AllocTypes : t > MEMORY_TYPE_MAX
    /\ \A k \in ProtocolTypes :
         {MEMORY_TYPE_FREE, MEMORY_TYPE_RESERVED} \subseteq k

VARIABLES
    then,       \* what follows the running mm_fixup
    reported,   \* history: the ranges the firmware reported, as loaded
    live,       \* history: what clients hold
    ret,        \* the value the last allocation returned
    iter,       \* mm_foreach_entry: the next index, and the addresses visited
    handed,     \* the entries the kernel was given
    met         \* history: "collapse" once mm_fixup met two ranges that became
                \* one, "foreign" once it ran on a buffer that holds no map

memVars == <<mapVars, then, reported, live, ret, iter, handed, met>>

NoIter == [active |-> FALSE, k |-> 0, goal |-> {}, visited |-> {}]

Idle == phase = "idle" /\ ~iter.active
\* Allocations are also made by the callback of mm_foreach_entry.
CanAllocate == phase = "idle"

Bytes(pages) == pages * PAGE_SIZE
Used == 0..entry_count-1
Covers(me, a) == me.addr <= a /\ a < me.addr + me.size

-----------------------------------------------------------------------------
(* Start-up                                                                *)

\* The type load_e820 gives a reported range.
E820Type(type) == IF type > MEMORY_TYPE_MAX THEN MEMORY_TYPE_RESERVED ELSE type

\* load_e820: the entries a list of reported ranges becomes.
Loaded(list) ==
    LET Me(r) == mme_align_if_needed([r EXCEPT !.type = E820Type(@)])
        Kept(r) == r.size # 0 /\ mme_is_valid(Me(r))
        kept == SelectSeq(list, Kept)
    IN [k \in 1..Len(kept) |-> Me(kept[k])]

\* initialize_memory_map: load the map and repair it.
InitializeMemoryMap(list) ==
    LET es == Loaded(list)
        buf == [k \in Slots |-> IF k < Len(es) THEN es[k + 1] ELSE NoEntry]
    IN
    /\ reported' = list
    /\ entry_count' = Len(es)
    /\ then' = "self"
    /\ \/ /\ Len(es) = 0
          /\ phase' = "bug"
          /\ UNCHANGED <<entries, fx>>
       \/ /\ Len(es) > BUFFER_CAPACITY
          /\ phase' = "oops"
          /\ UNCHANGED <<entries, fx>>
       \/ /\ Len(es) \in 1..BUFFER_CAPACITY
          /\ phase' = "fixup"
          /\ BeginFixup(buf, Len(es), 0, BUFFER_CAPACITY,
                        {"UNSORTED", "OVERLAP_RESOLVE"})
    /\ UNCHANGED <<known, map_is_dirty, live, ret, iter, handed, met>>

\* The end of mm_fixup: its caller stores the new count and goes on.  Slots
\* past the count are never read again, so the model forgets them.
EndFixup ==
    /\ FixupDone
    /\ entry_count' = fx.j + 1
    /\ entries' = [k \in Slots |-> IF k <= fx.j THEN entries[k] ELSE NoEntry]
    /\ map_is_dirty' = FALSE
    /\ fx' = NoFixup
    /\ phase' = then
    /\ then' = "idle"
    /\ UNCHANGED <<known, reported, live, ret, iter, handed, met>>

-----------------------------------------------------------------------------
(* allocate_out_of                                                         *)

MergesWithNext(new, after) ==
    after.type = new.type /\ mme_end(new) = after.addr

RemainderAfter(me, new) ==
    Mme(mme_end(new), Sub(mme_end(me), mme_end(new)), me.type)

\* The OOPS_ON of mme_emplace_at: the array has no slot left.
Overfull(n) == n > BUFFER_CAPACITY

\* Where the map is compressed from once the entry at idx has changed its type.
FixupFrom(idx) == IF idx = 0 THEN 0 ELSE idx - 1

\* Cut 'new' out of the entry at idx, which must contain it and differ in type.
AllocateOutOf(idx, new) ==
    LET me == entries[idx]
        before == Mme(me.addr, Sub(new.addr, me.addr), me.type)
        after == RemainderAfter(me, new)
        bad == \/ me.addr > new.addr
               \/ mme_end(me) < mme_end(new)
               \/ me.type = new.type
        split == mme_is_valid(before)
        merge == /\ split /\ idx # entry_count - 1 /\ ~mme_is_valid(after)
                 /\ MergesWithNext(new, entries[idx + 1])
        b1 == IF ~split THEN [entries EXCEPT ![idx] = new]
              ELSE IF merge
              THEN [entries EXCEPT ![idx] = before,
                                   ![idx + 1].addr = new.addr,
                                   ![idx + 1].size = Add(@, new.size)]
              ELSE mme_insert([entries EXCEPT ![idx] = before], new, idx + 1,
                              entry_count)
        n1 == IF split /\ ~merge THEN entry_count + 1 ELSE entry_count
        at == IF split THEN idx + 2 ELSE idx + 1
        b2 == IF mme_is_valid(after) THEN mme_insert(b1, after, at, n1) ELSE b1
        n2 == IF mme_is_valid(after) THEN n1 + 1 ELSE n1
    IN
    \/ /\ bad
       /\ phase' = "bug"
       /\ UNCHANGED <<entries, entry_count, fx, then>>
    \/ /\ ~bad /\ Overfull(n2)
       /\ phase' = "oops"
       /\ UNCHANGED <<entries, entry_count, fx, then>>
    \/ /\ ~bad /\ ~Overfull(n2)
       /\ entry_count' = n2
       /\ then' = "idle"
       /\ \/ /\ split
             /\ entries' = b2
             /\ phase' = "idle"
             /\ UNCHANGED fx
          \/ /\ ~split
             /\ BeginFixup(b2, n2, FixupFrom(idx), 0, {})
             /\ phase' = "fixup"

-----------------------------------------------------------------------------
(* Allocation and freeing                                                  *)

\* bytes_to_allocate <= page_count: no pages at all.
BadSize(pages) == Bytes(pages) <= pages

\* The allocation fails and leaves the map alone.
NotAllocated ==
    /\ ret' = 0
    /\ phase' = "idle"
    /\ UNCHANGED <<entries, entry_count, fx, then, live>>

\* The request is refused with oops(), which does not return.
Refused ==
    /\ ret' = 0
    /\ phase' = "oops"
    /\ UNCHANGED <<entries, entry_count, fx, then, live>>

\* The range was found in entry idx: it is cut out and its address returned.
Allocate(idx, new) ==
    /\ AllocateOutOf(idx, new)
    /\ ret' = new.addr
    /\ live' = live \cup {new}

\* MUTANT: the room is computed from the end of the range, not from the limit.
Room_NoLimit(me, limit) == mme_end(me) - me.addr

\* How much of a range lies below the limit.
Room(me, limit) == Lesser(mme_end(me), limit) - me.addr

\* The entries allocate_top_down may take the pages from.
Fits(pages, limit) ==
    {k \in Used : /\ entries[k].addr < limit
                  /\ entries[k].type = MEMORY_TYPE_FREE
                  /\ Room(entries[k], limit) >= Bytes(pages)}

\* allocate_top_down: the end of the highest entry with room below the limit.
AllocateTopDown(pages, limit, type) ==
    \/ /\ BadSize(pages)
       /\ Refused
    \/ /\ ~BadSize(pages)
       /\ Fits(pages, limit) = {}
       /\ NotAllocated
    \/ /\ ~BadSize(pages)
       /\ \E k \in Fits(pages, limit) :
            /\ \A l \in Fits(pages, limit) : l <= k
            /\ Allocate(k, Mme(Lesser(mme_end(entries[k]), limit) - Bytes(pages),
                               Bytes(pages), type))

\* allocate_within looks at the entries from 'lower' on: at each one it takes
\* the pages, gives up, or goes on.
Suits(me, pages, lower, upper) ==
    /\ me.addr <= upper
    /\ me.type = MEMORY_TYPE_FREE
    /\ Sub(Lesser(mme_end(me), upper), Greater(me.addr, lower)) >= Bytes(pages)

GivesUp(me, pages, lower, upper) ==
    /\ ~Suits(me, pages, lower, upper)
    /\ \/ me.addr > upper
       \/ mme_end(me) >= upper
       \/ upper - mme_end(me) < Bytes(pages)

\* The entry it takes them from: the first one it does not pass over.
PickedWithin(pages, lower, upper) ==
    LET start == mm_find_first_that_contains(entries, 0, entry_count, lower, TRUE)
    IN {k \in Used : /\ start >= 0 /\ k >= start
                     /\ Suits(entries[k], pages, lower, upper)
                     /\ \A l \in start..k-1 :
                          /\ ~Suits(entries[l], pages, lower, upper)
                          /\ ~GivesUp(entries[l], pages, lower, upper)}

AllocateWithin(pages, lower, upper, type) ==
    LET invalid == \/ BadSize(pages)
                   \/ lower >= upper
                   \/ lower + Bytes(pages) > upper
    IN
    \/ /\ invalid
       /\ Refused
    \/ /\ ~invalid
       /\ PickedWithin(pages, lower, upper) = {}
       /\ NotAllocated
    \/ /\ ~invalid
       /\ \E k \in PickedWithin(pages, lower, upper) :
            Allocate(k, Mme(Greater(lower, entries[k].addr), Bytes(pages), type))

ms_allocate_pages(pages, limit, type) ==
    /\ CanAllocate
    /\ Cardinality(live) < MaxAllocs
    /\ AllocateTopDown(pages, limit, type)
    /\ UNCHANGED <<known, map_is_dirty, reported, iter, handed, met>>

ms_allocate_pages_at(address, pages, type) ==
    /\ CanAllocate
    /\ Cardinality(live) < MaxAllocs
    /\ AllocateWithin(pages, address, Add(address, Bytes(pages)), type)
    /\ UNCHANGED <<known, map_is_dirty, reported, iter, handed, met>>

\* initialize_memory_map: the loader allocates itself; a failure is a warning.
AllocateSelf ==
    /\ phase = "self"
    /\ AllocateWithin(STAGE2_PAGES, STAGE2_BASE_PAGE,
                      STAGE2_BASE_PAGE + Bytes(STAGE2_PAGES),
                      MEMORY_TYPE_LOADER_RECLAIMABLE)
    /\ UNCHANGED <<known, map_is_dirty, reported, iter, handed, met>>

\* ms_free_pages of one allocation: the range becomes free by being
\* "allocated" with MEMORY_TYPE_FREE.
ms_free_pages(a) ==
    LET idx == mm_find_first_that_contains(entries, 0, entry_count, a.addr, FALSE)
    IN
    /\ Idle
    /\ \/ /\ idx < 0
          /\ phase' = "oops"
          /\ UNCHANGED <<entries, entry_count, fx, then>>
       \/ /\ idx >= 0
          /\ AllocateOutOf(idx, [a EXCEPT !.type = MEMORY_TYPE_FREE])
    /\ live' = live \ {a}
    /\ UNCHANGED <<known, map_is_dirty, reported, ret, iter, handed, met>>

-----------------------------------------------------------------------------
(* Use of the map by the boot protocol                                     *)

mm_declare_known_mm_types(types) ==
    /\ Idle
    /\ known' = types
    /\ map_is_dirty' = (map_is_dirty \/ types # known)
    /\ UNCHANGED <<entries, entry_count, fx, phase, then, reported, live, ret, iter, handed, met>>

\* mm_foreach_entry walks the array by index.  Its callback, which builds the
\* direct map, may allocate pages between two entries.
BeginForeach ==
    /\ Idle
    /\ entry_count # 0
    /\ iter' = [active |-> TRUE, k |-> 0, visited |-> {},
                goal |-> {a \in 0..Wrap-1 : \E k \in Used : Covers(entries[k], a)}]
    /\ UNCHANGED <<mapVars, then, reported, live, ret, handed, met>>

VisitEntry ==
    /\ phase = "idle" /\ iter.active /\ iter.k < entry_count
    /\ iter' = [iter EXCEPT !.k = @ + 1,
                  !.visited = @ \cup {a \in iter.goal : Covers(entries[iter.k], a)}]
    /\ UNCHANGED <<mapVars, then, reported, live, ret, handed, met>>

EndForeach ==
    /\ phase = "idle" /\ iter.active /\ iter.k >= entry_count
    /\ iter' = NoIter
    /\ UNCHANGED <<mapVars, then, reported, live, ret, handed, met>>

\* The types ultra_memory_map_entry_convert has a translation for; any other
\* one is a BUG().
Convertible(type) ==
    type <= MEMORY_TYPE_ACPI_NVS \/ type >= MEMORY_TYPE_LOADER_RECLAIMABLE

\* What mm_fixup returns for a buffer of n entries with arbitrary contents, 0
\* for its DIE_ON.  services_release_resources passes the buffer its caller
\* wants the map in, which does not hold a map yet.
FixupElsewhere(n, runs) == IF runs /\ n > 1 THEN 0..n ELSE {n}

\* Whether the second mm_fixup, the one that gives up loader reclaimable memory,
\* has work to do.
Reclaims(capacity) == capacity # 0 /\ MEMORY_TYPE_LOADER_RECLAIMABLE \notin known

\* MUTANT: the copy starts behind the first entry.
HandedOver_Late(m) == [k \in 1..m-1 |-> entries[k]]

\* The copy of the map in the caller's buffer.
HandedOver(m) == [k \in 1..m |-> entries[k - 1]]

\* services_release_resources for a buffer of 'capacity' entries.
services_release_resources(capacity) ==
    /\ Idle
    /\ \E n \in FixupElsewhere(entry_count, map_is_dirty) :
         \/ /\ n = 0
            /\ phase' = "die"
            /\ UNCHANGED <<entry_count, map_is_dirty, ret, handed>>
         \/ /\ n > 0 /\ capacity < n
            /\ entry_count' = n
            /\ map_is_dirty' = FALSE
            /\ ret' = n
            /\ UNCHANGED <<phase, handed>>
         \/ /\ n > 0 /\ n <= capacity
            /\ map_is_dirty' = FALSE
            /\ \E m \in FixupElsewhere(n, Reclaims(capacity)) :
                 /\ entry_count' = m
                 /\ ret' = m
                 /\ phase' = IF m = 0 THEN "die"
                             ELSE IF \A k \in 0..m-1 : Convertible(entries[k].type)
                             THEN "offline" ELSE "bug"
                 /\ handed' = HandedOver(m)
    /\ met' = met \cup {e \in {"foreign"} : map_is_dirty \/ Reclaims(capacity)}
    /\ UNCHANGED <<entries, known, fx, then, reported, live, iter>>

-----------------------------------------------------------------------------

BiosInit ==
    /\ entries = [k \in Slots |-> NoEntry]
    /\ entry_count = 0
    /\ known = AllTypes
    /\ map_is_dirty = TRUE
    /\ fx = NoFixup
    /\ phase = "boot"
    /\ then = "idle"
    /\ reported = <<>>
    /\ live = {}
    /\ ret = 0
    /\ iter = NoIter
    /\ handed = <<>>
    /\ met = {}

FixupStep ==
    /\ FixupOverlap \/ FixupAdvance
    /\ met' = met \cup {e \in {"collapse"} : fx'.count < fx.count}
    /\ UNCHANGED <<then, reported, live, ret, iter, handed>>

\* Clients free what they allocated; the loader itself stays.
Freeable == {a \in live : a.addr # STAGE2_BASE_PAGE}

\* The loader's use of the map.  boot() declares the types the protocol knows once,
\* before the protocol runs; only the protocol releases the services.
UseMap ==
    \/ \E n \in PageCounts, limit \in Ceilings, t \in AllocTypes :
          ms_allocate_pages(n, limit, t)
    \/ \E n \in PageCounts, a \in Addresses, t \in AllocTypes :
          ~iter.active /\ ms_allocate_pages_at(a, n, t)
    \/ \E a \in Freeable : ms_free_pages(a)
    \/ known = AllTypes /\ \E types \in ProtocolTypes : mm_declare_known_mm_types(types)
    \/ known # AllTypes /\ \E n \in Capacities : services_release_resources(n)
    \/ BeginForeach
    \/ VisitEntry
    \/ EndForeach

BiosNext ==
    \/ phase = "boot" /\ \E list \in E820Lists : InitializeMemoryMap(list)
    \/ FixupStep
    \/ EndFixup
    \/ AllocateSelf
    \/ reported \in UsedLists /\ UseMap

BiosSpec ==
    /\ BiosInit
    /\ [][BiosNext]_memVars
    /\ WF_memVars(FixupStep \/ EndFixup)

-----------------------------------------------------------------------------
(* Properties                                                              *)

Settled == phase \in {"idle", "self"}

\* What the map says of an address: the types of the entries that cover it.
TypesAt(a) == {entries[k].type : k \in {l \in Used : Covers(entries[l], a)}}

Overlap(r, s) == r.addr < s.addr + s.size /\ s.addr < r.addr + r.size

\* No reported range overlaps two others, so that resolving one overlap cannot
\* leave a part in the middle of the next one.
Untangled ==
    LET es == Loaded(reported) IN
    \A i, j, k \in DOMAIN es :
      Overlap(es[i], es[j]) /\ Overlap(es[i], es[k]) => i = j \/ i = k \/ j = k

\* mm_fixup leaves a map that is sorted, whose entries do not overlap, and that
\* is compressed: this is what allocate_out_of calls "the invariant that the
\* map is always compressed before this call", and what the binary search in
\* mm_find_first_that_contains needs.  Then no BUG_ON of the memory services is
\* reached either, if the firmware reported at least one whole page.
MapIsCanonical ==
    Untangled =>
      /\ entry_count <= BUFFER_CAPACITY
      /\ phase = "bug" => Loaded(reported) = <<>>
      /\ Settled =>
           \A k \in 0..entry_count-2 :
             LET a == entries[k]
                 b == entries[k + 1]
             IN /\ a.addr + a.size <= b.addr
                /\ ~(a.type = b.type /\ a.addr + a.size = b.addr)

\* The reported type of an address: the highest one of the ranges that cover
\* it, 0 when there is none.
ReportedType(a) ==
    LET es == Loaded(reported)
        at == {es[k].type : k \in {l \in 1..Len(es) : Covers(es[l], a)}}
    IN IF at = {} THEN 0 ELSE CHOOSE t \in at : \A u \in at : u <= t

\* The map accounts for every address: where a client holds memory it has the
\* client's type, elsewhere the highest type the firmware reported for it, and
\* an address that was not reported is not in the map.  No order of reported
\* ranges, allocations and frees may lose or invent memory.
EveryMapIsExact ==
    Settled /\ known = AllTypes =>
      \A a \in 0..Wrap-1 :
        TypesAt(a) = IF \E l \in live : Covers(l, a)
                     THEN {l.type : l \in {m \in live : Covers(m, a)}}
                     ELSE {ReportedType(a)} \ {0}

\* All ranges start and end on a page, so that nothing is rounded.
Aligned ==
    \A k \in DOMAIN reported :
      reported[k].addr % PAGE_SIZE = 0 /\ reported[k].size % PAGE_SIZE = 0

\* The same for the lists on which mm_fixup never finds that two overlapping
\* ranges collapse into one (it then drops the last entry of the array).
MapIsExact ==
    Settled /\ "collapse" \notin met /\ Aligned /\ Untangled => EveryMapIsExact

\* A byte for which the firmware reported anything but free memory is never in
\* a free entry, so the allocator cannot hand it out, however the reported
\* ranges are aligned and overlap.
ReservedIsNeverFree ==
    Settled /\ "collapse" \notin met /\ Untangled =>
      \A k \in DOMAIN reported :
        LET r == reported[k] IN
        r.type # MEMORY_TYPE_FREE /\ r.size # 0 =>
          \A a \in r.addr..r.addr+r.size-1 : MEMORY_TYPE_FREE \notin TypesAt(a)

\* mm_fixup ends: the loop moves its cursors back when the type of an entry
\* changed, and must still get through every list of ranges.
FixupEnds == phase = "fixup" ~> phase # "fixup"

\* mm_foreach_entry invokes its callback for every address that was in the map
\* when it started, although the callback allocates.
ForeachVisitsAll ==
    iter.active /\ iter.k >= entry_count => iter.visited = iter.goal

\* The kernel is given the whole map: memory a client holds is in what was
\* handed over, with its type.
EveryKernelGetsLiveMemory ==
    phase = "offline" =>
      \A l \in live : \A a \in l.addr..l.addr+l.size-1 :
        \E k \in DOMAIN handed : Covers(handed[k], a) /\ handed[k].type = l.type

\* The same when mm_fixup never ran on the buffer the map is written to.
KernelGetsLiveMemory == "foreign" \notin met => EveryKernelGetsLiveMemory

\* What a client holds is in the map with exactly its type, so the next allocation
\* cannot hand it out again and the kernel will not reuse it, and no two clients
\* hold the same memory.
LiveIsOwned ==
    /\ Settled /\ "foreign" \notin met =>
         \A l \in live : \A a \in l.addr..l.addr+l.size-1 : TypesAt(a) = {l.type}
    /\ \A l, m \in live :
         l # m => l.addr + l.size <= m.addr \/ m.addr + m.size <= l.addr
=============================================================================

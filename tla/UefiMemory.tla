----------------------------- MODULE UefiMemory -----------------------------
(***************************************************************************)
(* The UEFI memory services, loader/uefi/uefi_memory_services.c.  The      *)
(* firmware owns the map; the loader fetches it into a buffer that is      *)
(* itself allocated from the firmware, converts it in place, adds the      *)
(* allocations it made with types of its own, and repairs the result with  *)
(* mm_fixup.  The last time it does so it also leaves the boot services.   *)
(*                                                                         *)
(* Addresses are page numbers (PAGE_SIZE is 1 for the entries).  Buffers   *)
(* are measured in units of one native entry.                              *)
(***************************************************************************)
EXTENDS MemoryMap

CONSTANTS
    Pages,          \* number of pages of the machine
    Firmware,       \* the maps the firmware may have when the loader starts
    PageUnits,      \* native entries a page has room for
    DescUnits,      \* native entries an EFI descriptor takes the room of
    Increment,      \* PROTOCOL_ALLOCATIONS_BUFFER_INCREMENT
    Sizes, Limits, Places,  \* page counts, upper limits and addresses asked for
    ClientTypes,    \* types of allocations
    MaxLive,        \* allocations that are not freed (bound)
    ReleaseSizes,   \* capacities services_release_resources is called with
    Protocols       \* sets of types the protocol knows

\* A page as the firmware sees it: "conv" is memory nobody uses, "boot" the
\* firmware's own until the boot services are left, "data" the loader's, and
\* "rsv" and "nvs" stand for the types with a native type of their own.
PageKinds == [type : {"conv", "boot", "data", "rsv", "nvs"}, attribute : {"WB", "SP", "UC"}]

ASSUME UefiAssumption ==
    /\ PAGE_SIZE = 1 /\ Pages \in Nat \ {0} /\ Pages < Wrap
    /\ DescUnits \in Nat \ {0, 1}       \* a descriptor is larger than an entry
    /\ PageUnits \in Nat /\ PageUnits >= DescUnits
    /\ Firmware \subseteq [0..Pages-1 -> PageKinds]
    /\ Increment \in Nat \ {0}
    /\ Sizes \subseteq Nat

VARIABLES
    efi_type,       \* the firmware's truth: EFI type and attribute of each page
    map_buf,        \* memory_map_buf and buf_byte_capacity
    capture,        \* uefi_map_capture_buf, its capacity and its contents
    protocol_allocations,
    pool_capacity,  \* protocol_allocations_capacity
    caller,         \* which function fetches the map, its arguments, and how often
                    \* the buffer was too small
    live,           \* history: what clients hold
    handed,         \* the entries the kernel was given
    disturbed,      \* history: firmware calls since the capture was reserved
    met             \* history: "collapse" once two ranges became one

fwVars == <<efi_type, map_buf, capture, protocol_allocations, pool_capacity>>
uefiVars == <<mapVars, fwVars, caller, live, handed, disturbed, met>>

Page == 0..Pages-1
NoBuf == [at |-> 0, pages |-> 0]
NoCapture == [at |-> 0, pages |-> 0, raw |-> <<>>]
Nobody == [fn |-> "none", capacity |-> 0, final |-> FALSE, grown |-> 0]

Idle == phase = "idle"

-----------------------------------------------------------------------------
(* The firmware's allocator and map (external)                             *)

\* The runs of n pages of conventional memory that end below a limit.
Available(types, n, limit) ==
    {p \in Page : p + n <= limit /\ \A q \in p..p+n-1 : q \in Page /\ types[q].type = "conv"}

Retyped(types, p, n, t) ==
    [q \in Page |-> IF q \in p..p+n-1 THEN [types[q] EXCEPT !.type = t] ELSE types[q]]

\* GetMemoryMap: the map is the sequence of the longest runs of pages of one
\* type and attribute; a border is a page where one of them begins.
Borders(types) == {p \in Page : p = 0 \/ types[p - 1] # types[p]}

Descriptors(types) ==
    LET starts == SelectSeq([k \in 1..Pages |-> k - 1], LAMBDA p : p \in Borders(types))
        End(k) == IF k = Len(starts) THEN Pages ELSE starts[k + 1]
    IN [k \in DOMAIN starts |->
          [start |-> starts[k], pages |-> End(k) - starts[k],
           kind |-> types[starts[k]]]]

RawUnits(types) == Cardinality(Borders(types)) * DescUnits

-----------------------------------------------------------------------------
(* Allocation                                                              *)

\* 'calls' calls of the firmware's allocator, each of which may add two borders;
\* counting stops where a page of slack may be used up.
SlackCalls == PageUnits \div (2 * DescUnits)
Disturb(calls) ==
    disturbed' = IF capture.pages = 0 THEN 0 ELSE Lesser(SlackCalls + 1, disturbed + calls)

PoolIsFull == Len(protocol_allocations) = pool_capacity

\* account_allocation: what the list and the firmware become when 'types' are
\* the pages after the allocation itself.  A full list moves to a larger pool
\* buffer, for which the firmware may need another page.
Account(types, me) ==
    \/ /\ me.type < MEMORY_TYPE_PROTO_SPECIFIC_BASE
       /\ efi_type' = types
       /\ UNCHANGED <<protocol_allocations, pool_capacity, phase>>
    \/ /\ me.type >= MEMORY_TYPE_PROTO_SPECIFIC_BASE
       /\ ~PoolIsFull
       /\ efi_type' = types
       /\ protocol_allocations' = Append(protocol_allocations, me)
       /\ UNCHANGED <<pool_capacity, phase>>
    \/ /\ me.type >= MEMORY_TYPE_PROTO_SPECIFIC_BASE
       /\ PoolIsFull
       /\ \/ /\ phase' = "oops"
             /\ efi_type' = types
             /\ UNCHANGED <<protocol_allocations, pool_capacity>>
          \/ /\ efi_type' \in {types} \cup
                  {Retyped(types, p, 1, "data") : p \in Available(types, 1, Pages)}
             /\ protocol_allocations' = Append(protocol_allocations, me)
             /\ pool_capacity' = pool_capacity + Increment
             /\ UNCHANGED phase

\* AllocatePages finds a place among 'places', or fails and nothing changes.
AllocatePages(places, n, type) ==
    /\ Idle
    /\ Cardinality(live) < MaxLive
    /\ \E p \in places :
         /\ Account(Retyped(efi_type, p, n, "data"), Mme(p, n, type))
         /\ live' = live \cup {Mme(p, n, type)}
         /\ Disturb(2)
    /\ UNCHANGED <<entries, entry_count, known, map_is_dirty, fx, map_buf,
                   capture, caller, handed, met>>

ms_allocate_pages(n, upper_limit, type) ==
    AllocatePages(Available(efi_type, n, upper_limit), n, type)

ms_allocate_pages_at(address, n, type) ==
    AllocatePages({address} \cap Available(efi_type, n, Pages), n, type)

\* ms_free_pages.  It does not look at protocol_allocations; clients only free
\* memory of the loader's own type.
ms_free_pages(a) ==
    /\ Idle
    /\ a.type = MEMORY_TYPE_LOADER_RECLAIMABLE
    /\ efi_type' = Retyped(efi_type, a.addr, a.size, "conv")
    /\ live' = live \ {a}
    /\ Disturb(1)
    /\ UNCHANGED <<mapVars, map_buf, capture, protocol_allocations,
                   pool_capacity, caller, handed, met>>

-----------------------------------------------------------------------------
(* Fetching the map                                                        *)

\* MUTANT: the size is rounded down to whole pages.
PagesFor_Down(units) == units \div PageUnits

PagesFor(units) == (units + PageUnits - 1) \div PageUnits

\* page_buf_ensure_capacity: nothing to do, or the old buffer is given back and
\* a larger one allocated anywhere; the loader panics when there is no room.
EnsureCapacity(buf, units) ==
    LET n == PagesFor(units)
        freed == Retyped(efi_type, buf.at, buf.pages, "conv")
        room == Available(freed, n, Pages)
        Kept(ok) == {[ok |-> ok, at |-> buf.at, pages |-> buf.pages, efi |-> efi_type]}
    IN
    IF n <= buf.pages THEN Kept(TRUE)
    ELSE IF room = {} THEN Kept(FALSE)
    ELSE {[ok |-> TRUE, at |-> p, pages |-> n,
           efi |-> Retyped(freed, p, n, "data")] : p \in room}

\* One of the functions that need the map is called.
Fetch(fn, capacity, final) ==
    /\ Idle
    /\ phase' = "acquire"
    /\ caller' = [fn |-> fn, capacity |-> capacity, final |-> final, grown |-> 0]
    /\ UNCHANGED <<entries, entry_count, known, map_is_dirty, fx, fwVars, live,
                   handed, disturbed, met>>

\* acquire_efi_memory_map, when GetMemoryMap reports EFI_BUFFER_TOO_SMALL: the
\* old buffer is freed and the new one allocated, two calls of the firmware.
GrowBuffer ==
    /\ phase = "acquire"
    /\ RawUnits(efi_type) > map_buf.pages * PageUnits
    /\ \E r \in EnsureCapacity(map_buf, RawUnits(efi_type) + Len(protocol_allocations)) :
          /\ efi_type' = r.efi
          /\ map_buf' = [at |-> r.at, pages |-> r.pages]
          /\ phase' = IF r.ok THEN phase ELSE "panic"
    /\ Disturb(2)
    /\ caller' = [caller EXCEPT !.grown = @ + 1]
    /\ UNCHANGED <<entries, entry_count, known, map_is_dirty, fx,
                   capture, protocol_allocations, pool_capacity, live, handed, met>>

\* efi_md_to_native_type
NativeType(kind) ==
    CASE kind.type = "rsv" -> MEMORY_TYPE_RESERVED
      [] kind.type = "nvs" -> MEMORY_TYPE_ACPI_NVS
      [] kind.attribute = "SP" -> MEMORY_TYPE_SOFT_RESERVED
      [] kind.attribute = "UC" -> MEMORY_TYPE_RESERVED
      [] kind.type = "data" -> MEMORY_TYPE_LOADER_RECLAIMABLE
      [] OTHER -> MEMORY_TYPE_FREE

\* The entries the raw map becomes, followed by the loader's own allocations.
Converted(types) ==
    LET ds == Descriptors(types)
    IN [k \in DOMAIN ds |-> Mme(ds[k].start, ds[k].pages, NativeType(ds[k].kind))]
         \o protocol_allocations

\* capture_raw_efi_memory_map, for calls with a buffer.
Captured ==
    IF capture.pages # 0 /\ caller.final
    THEN [capture EXCEPT !.raw = Descriptors(efi_type)] ELSE capture

\* GetMemoryMap succeeds; then the capture, the conversion in place and
\* mm_fixup's start.  "outgrown" is the capture's BUG_ON.  The list of allocations
\* is copied behind the converted entries without a look at the capacity:
\* "overrun" stands for what follows.
FillBuffer ==
    LET cap == map_buf.pages * PageUnits
        outgrown == /\ caller.final /\ capture.pages # 0
                    /\ RawUnits(efi_type) > capture.pages * PageUnits
        intentional == {f \in {"OVERLAP_INTENTIONAL"} : protocol_allocations # <<>>}
    IN
    /\ phase = "acquire"
    /\ RawUnits(efi_type) <= cap
    /\ capture' = Captured
    /\ \E es \in {Converted(efi_type)} :
         /\ entry_count' = Len(es)
         /\ IF outgrown \/ Len(es) > cap
            THEN /\ phase' = IF outgrown THEN "outgrown" ELSE "overrun"
                 /\ UNCHANGED <<entries, fx>>
            ELSE /\ phase' = "fixup"
                 /\ \E buf \in {[k \in Slots |-> IF k < Len(es) THEN es[k + 1]
                                                ELSE NoEntry]} :
                      BeginFixup(buf, Len(es), 0, cap,
                                 {"UNSORTED", "OVERLAP_RESOLVE"} \cup intentional)
    /\ UNCHANGED <<known, map_is_dirty, efi_type, map_buf, protocol_allocations,
                   pool_capacity, caller, live, handed, disturbed, met>>

FixupStep ==
    /\ FixupOverlap \/ FixupAdvance
    /\ met' = met \cup {e \in {"collapse"} : fx'.count < fx.count}
    /\ UNCHANGED <<fwVars, caller, live, handed, disturbed>>

\* mm_fixup returns to efi_memory_map_fixup or to the release.
EndFixup ==
    /\ FixupDone
    /\ entry_count' = fx.j + 1
    /\ entries' = [k \in Slots |-> IF k <= fx.j THEN entries[k] ELSE NoEntry]
    /\ map_is_dirty' = FALSE
    /\ fx' = NoFixup
    /\ phase' = caller.fn
    /\ UNCHANGED <<known, fwVars, caller, live, handed, disturbed, met>>

-----------------------------------------------------------------------------
(* The functions that use the map                                          *)

\* mme_is_ram of ultra.c, the test the only callback makes.
IsRam(type) ==
    \/ type \in {MEMORY_TYPE_FREE, MEMORY_TYPE_ACPI_RECLAIMABLE, MEMORY_TYPE_ACPI_NVS}
    \/ type >= MEMORY_TYPE_LOADER_RECLAIMABLE

RamIn(es, n) ==
    UNION {es[k].addr..es[k].addr+es[k].size-1 : k \in {l \in 0..n-1 : IsRam(es[l].type)}}

\* mm_foreach_entry fetches the map only when there is none yet.
FetchForForeach == entry_count = 0 /\ Fetch("foreach", 0, FALSE)

\* It walks over the map it has, which its callback's allocations leave alone.
mm_foreach_entry ==
    /\ phase = "foreach" \/ (Idle /\ entry_count # 0)
    /\ phase' = "idle"
    /\ caller' = Nobody
    /\ UNCHANGED <<entries, entry_count, known, map_is_dirty, fx, fwVars, live,
                   handed, disturbed, met>>

\* MUTANT: no slack.
CaptureRoom_Exact(units) == units

CaptureRoom(units) == units + PageUnits

\* services_setup_uefi_handoff, once it has fetched the map: the capture buffer
\* gets a page of slack over the size of the raw map, which the model takes
\* from the map the firmware has: nothing was allocated since.
services_setup_uefi_handoff ==
    /\ phase = "handoff"
    /\ \E r \in EnsureCapacity(capture, CaptureRoom(RawUnits(efi_type))) :
          /\ efi_type' = r.efi
          /\ capture' = [at |-> r.at, pages |-> r.pages, raw |-> <<>>]
          /\ phase' = IF r.ok THEN "idle" ELSE "panic"
    /\ caller' = Nobody
    /\ disturbed' = 1
    /\ UNCHANGED <<entries, entry_count, known, map_is_dirty, fx,
                   map_buf, protocol_allocations, pool_capacity, live, handed, met>>

\* services_release_resources with the repaired map: too little room, or
\* loader reclaimable memory is given up if the protocol does not know it.
services_release_resources ==
    /\ phase = "release"
    /\ \/ /\ caller.capacity < entry_count
          /\ phase' = "idle"
          /\ caller' = Nobody
          /\ UNCHANGED <<entries, fx>>
       \/ /\ caller.capacity >= entry_count
          /\ caller' = [caller EXCEPT !.fn = "exit"]
          /\ phase' = "fixup"
          /\ BeginFixup(entries, entry_count, 0, map_buf.pages * PageUnits,
                        {"NO_PRESERVE_LOADER_RECLAIM"})
    /\ UNCHANGED <<entry_count, known, map_is_dirty, fwVars, live, handed,
                   disturbed, met>>

\* The entries are converted for the kernel, then ExitBootServices.
ExitBootServices ==
    /\ phase = "exit"
    /\ handed' = [k \in 1..entry_count |-> entries[k - 1]]
    /\ phase' = "offline"
    /\ caller' = Nobody
    /\ UNCHANGED <<entries, entry_count, known, map_is_dirty, fx, fwVars, live,
                   disturbed, met>>

-----------------------------------------------------------------------------

UefiInit ==
    /\ entries = [k \in Slots |-> NoEntry]
    /\ entry_count = 0
    /\ known \in Protocols
    /\ map_is_dirty = TRUE
    /\ fx = NoFixup
    /\ phase = "idle"
    /\ efi_type \in Firmware
    /\ map_buf = NoBuf
    /\ capture = NoCapture
    /\ protocol_allocations = <<>>
    /\ pool_capacity = 0
    /\ caller = Nobody
    /\ live = {}
    /\ handed = <<>>
    /\ disturbed = 0
    /\ met = {}

UefiNext ==
    \/ \E n \in Sizes, limit \in Limits, t \in ClientTypes : ms_allocate_pages(n, limit, t)
    \/ \E n \in Sizes, p \in Places, t \in ClientTypes : ms_allocate_pages_at(p, n, t)
    \/ \E a \in live : ms_free_pages(a)
    \/ FetchForForeach
    \/ capture.pages = 0 /\ Fetch("handoff", 0, FALSE)
    \/ \E n \in ReleaseSizes : Fetch("release", n, n # 0)
    \/ GrowBuffer
    \/ FillBuffer
    \/ FixupStep
    \/ EndFixup
    \/ mm_foreach_entry
    \/ services_setup_uefi_handoff
    \/ services_release_resources
    \/ ExitBootServices

UefiSpec == UefiInit /\ [][UefiNext]_uefiVars

-----------------------------------------------------------------------------
(* Properties                                                              *)

\* What the kernel should be told of a page: the type of the client that holds
\* it, else what the firmware's type means.
TrueType(p) ==
    LET clients == {a \in live : /\ p \in a.addr..a.addr+a.size-1
                                 /\ a.type >= MEMORY_TYPE_PROTO_SPECIFIC_BASE}
        native == NativeType(efi_type[p])
    IN IF clients # {} THEN (CHOOSE a \in clients : TRUE).type
       ELSE mme_resolve_type(native, known)

\* The map the kernel gets when the boot services are left says exactly that of
\* every page: "mm_fixup is able to take care of" the collisions between the
\* loader's allocations and the firmware's ranges.  (A map of one range is left
\* out: mm_do_fixup returns it without a look at its type.)
EveryKernelMapIsExact ==
    phase = "offline" /\ Len(Descriptors(efi_type)) > 1 =>
      \A p \in Page :
        {handed[k].type : k \in {l \in DOMAIN handed :
                             p \in handed[l].addr..handed[l].addr+handed[l].size-1}}
          = {TrueType(p)}

\* The same unless an allocation covered a whole range, which makes mm_fixup
\* drop the last entry of the map.  Nor does mm_fixup meet an overlap it calls
\* unexpected then.
KernelMapIsExact ==
    "collapse" \notin met => EveryKernelMapIsExact /\ phase \notin {"bug", "die"}

\* The raw map handed to the kernel is the one the firmware had when the boot
\* services were left, whatever was allocated between its reservation and then; the
\* BUG_ON on its buffer needs more calls of the firmware's allocator than the "page
\* of slack" covers, each of which adds at most two descriptors.
CaptureIsFinal ==
    /\ phase = "offline" /\ capture.pages # 0 => capture.raw = Descriptors(efi_type)
    /\ phase = "outgrown" => disturbed > SlackCalls

\* mm_foreach_entry, with which the direct map is built, shows all RAM and only
\* RAM, although the map it walks over may be older than allocations, frees and
\* moves of the buffer itself.
ForeachSeesRam ==
    Idle /\ entry_count # 0 /\ met = {} =>
      RamIn(entries, entry_count) = {p \in Page : IsRam(NativeType(efi_type[p]))}

\* The loop that fetches the map ends, although the larger buffer it allocates
\* changes the map that has to fit: every round of it that finds the buffer too
\* small buys at least one page, and the machine has only so many.
AcquireProgresses == phase = "acquire" => caller.grown <= map_buf.pages
=============================================================================

-------------------------------- MODULE Boot --------------------------------
(***************************************************************************)
(* A whole boot by the Ultra protocol: loader_entry of loader/loader.c     *)
(* from the configuration on, loader/boot_protocol/ultra.c, and the parts  *)
(* they drive: the configuration (Config), the ELF loader (Elf), the page  *)
(* tables (PageTable, UltraArch), the video services (Video), the          *)
(* attribute array (AttributeArray), the allocator (loader/allocator.c),   *)
(* the dynamic buffer and the hand over.                                   *)
(*                                                                         *)
(* Memory is a function from page numbers to types.  The state of the boot *)
(* is in three records: ki is struct kernel_info with its handover_info,   *)
(* map is what do_build_page_table works on, spec is the                   *)
(* attribute_array_spec.  oops(), loader_abort(), panic() and BUG() end    *)
(* the program: they are stages of their own.                              *)
(***************************************************************************)
EXTENDS AttributeArray, Config, UltraArch, Elf, Video

CONSTANTS
    Machines,       \* what the loader may be started on (bound)
    SizeOf,         \* sizeof of the structures of the boot context
    AttrAlign,      \* the attributes' alignment
    MAX_CMDLINE_LEN, MAX_MODULE_DESCRIPTION_LEN,
    NAME_SIZE,      \* sizeof(attrs->name)
    DefaultStack,   \* 16 KB
    BufferIncrement,  \* pending_modules a growth of the buffer adds
    MaxFaults       \* reads that fail in one boot (bound)

VARIABLES
    m,              \* the machine, its files and the text of hyper.cfg
    stage,          \* where the boot is
    mem,            \* page -> type
    faults,
    ki,
    map,
    spec,
    tick            \* changes with every step, also one that changes nothing else

bootVars == <<m, stage, mem, faults, ki, map, spec>>
allVars == <<bootVars, configVars, vars, tick>>

Failed == {"oops", "abort", "panic", "bug", "overrun"}

NoKernel ==
    [le |-> -1, text |-> 0, entries |-> 0, path |-> <<>>, anywhere |-> FALSE, open |-> FALSE,
     cache |-> 0, bi |-> NoBinary, ph |-> 1, loaded |-> {}, flags |-> {}, is_higher_half |-> FALSE,
     exclusive |-> FALSE, null_guard |-> FALSE, direct_map_base |-> 0, stack |-> 0,
     stack_pages |-> 0, tramp |-> {}, array |-> 0, stray |-> FALSE]

NoWalk == [idx |-> 1, list |-> <<>>, ram_begin |-> 0, ram_end |-> 0, last |-> <<>>]

BootInit ==
    /\ m \in Machines
    /\ src = m.text
    /\ stage = "config"
    /\ mem = m.mem
    /\ faults = 0
    /\ tick = FALSE
    /\ ki = NoKernel
    /\ map = [pt |-> NoTable, jobs |-> <<>>, walk |-> NoWalk, disturbed |-> FALSE]
    /\ spec = [cmdline |-> -1, mods |-> <<>>, mod |-> Missing, cap |-> 0, buf |-> 0, apm |-> FALSE,
               uefi |-> -1, fb |-> NoMode, fb_present |-> FALSE, picked |-> NoMode,
               asked |-> <<>>, path |-> "none"]
    /\ ConfigInit
    /\ Init

-----------------------------------------------------------------------------
(* Memory                                                                  *)

InUse(mm, first, n, type) == [p \in first..(first + n - 1) |-> type] @@ mm

Fits(mm, first, n) == \A p \in first..(first + n - 1) : p \in DOMAIN mm /\ mm[p] = "free"

NoPages(mm, why) == [out |-> why, page |-> 0, mem |-> mm]

Taken(mm, first, n, type) ==
    IF first = 0 THEN NoPages(InUse(mm, 0, n, type), "fail")
    ELSE [out |-> "ok", page |-> first, mem |-> InUse(mm, first, n, type)]

\* ms_allocate_pages: BIOS looks from the top, the firmware of UEFI as it likes.
ms_allocate_pages(mm, n, limit, type) ==
    LET spots == {p \in DOMAIN mm : p + n <= limit /\ Fits(mm, p, n)}
    IN CASE n = 0 -> NoPages(mm, IF m.bios THEN "oops" ELSE "fail")
         [] n # 0 /\ spots = {} -> NoPages(mm, "fail")
         [] OTHER -> Taken(mm, IF m.bios \/ m.top_down THEN Max(spots) ELSE Min(spots), n, type)

ms_allocate_pages_at(mm, first, n, type) ==
    CASE n = 0 -> NoPages(mm, IF m.bios THEN "oops" ELSE "fail")
      [] n # 0 /\ ~Fits(mm, first, n) -> NoPages(mm, "fail")
      [] OTHER -> Taken(mm, first, n, type)

\* allocate_bytes, below the default ceiling; pages of the loader's own type.
allocate_bytes(mm, bytes) == ms_allocate_pages(mm, PagesFor(bytes), FourGB, "reclaim")

\* MUTANT: a page too many is freed.
Freed_More(mm, first, bytes) == InUse(mm, first, PagesFor(bytes) + 1, "free")

\* free_bytes
Freed(mm, first, bytes) == InUse(mm, first, PagesFor(bytes), "free")

\* allocation_did_fail when the allocation was critical.
CriticalOutcome(a) == IF a.out = "fail" THEN "abort" ELSE a.out

\* What mm_foreach_entry and services_release_resources see: the runs of pages of
\* one type, in order.  The firmware's own pages count as free.
KindOf(t) == IF t = "firmware" THEN "free" ELSE t

MapEntries(mm) ==
    LET New(p) == mm[p] # "hole" /\ (p = 0 \/ KindOf(mm[p - 1]) # KindOf(mm[p]))
        starts == SelectSeq([i \in 1..Cardinality(DOMAIN mm) |-> i - 1], New)
        End(p) == Min({q \in (p + 1)..(Max(DOMAIN mm) + 1) :
                         q \notin DOMAIN mm \/ KindOf(mm[q]) # KindOf(mm[p])})
    IN [i \in 1..Len(starts) |->
          [begin |-> starts[i], end |-> End(starts[i]), type |-> KindOf(mm[starts[i]])]]

mme_is_ram(type) == type \notin {"reserved", "hole"}

\* A read of a file, a mode change: what the outside may refuse.
Outcomes == IF faults < MaxFaults THEN BOOLEAN ELSE {FALSE}
Count(bad) == faults' = faults + (IF bad THEN 1 ELSE 0)

\* The program ends here.
Stop(why) == stage' = why /\ UNCHANGED <<mem, ki, map, spec>>

-----------------------------------------------------------------------------
(* The configuration and its options                                       *)

\* init_config up to cfg_parse; the text takes a page, whatever its length.
ReadConfig ==
    LET a == ms_allocate_pages(mem, 1, FourGB, "reclaim")
    IN
    /\ stage = "config"
    /\ \E bad \in Outcomes :
         /\ Count(bad)
         /\ IF a.out # "ok" THEN Stop(CriticalOutcome(a))
            ELSE IF bad THEN Stop("oops")
            ELSE /\ mem' = a.mem
                 /\ ki' = [ki EXCEPT !.text = a.page]
                 /\ stage' = "parse"
                 /\ UNCHANGED <<map, spec>>

\* The look ups of config.h on the value, or the entry, at an offset.
Get(off, key, mask) == cfg_find_ext(cfg, off, TRUE, <<key>>, mask)
cfg_get_bool(off, key) == Get(off, key, {"boolean"})
cfg_get_string(off, key) == Get(off, key, {"string"})
Mandatory(r) == IF r.out = "none" THEN Oops ELSE r

Has(r, type) == r.out = "value" /\ r.value.type = type
IsTrue(r) == Has(r, "boolean") /\ r.value.as_bool
Says(r, word) == Has(r, "string") /\ r.value.as_string = <<word>>
NumberOf(r, default) == IF Has(r, "unsigned") THEN r.value.as_unsigned ELSE default
SizeOfString(r) == IF Has(r, "string") THEN Len(r.value.as_string) ELSE 0

\* A member of the object r, if it is one.
In(r, key, mask) == IF Has(r, "object") THEN Get(r.cfg_off, key, mask) ELSE Missing

\* A string that is none of the words allowed.
Unless(r, words) ==
    IF Has(r, "string") /\ r.value.as_string \notin {<<w>> : w \in words} THEN Oops ELSE r

TooLong(r, max) == IF SizeOfString(r) > max THEN Oops ELSE Missing

\* The first look up that ends the program, in the order of the code.
Verdict(looked_up) ==
    LET bad == SelectSeq(looked_up, LAMBDA r : r.out \in {"oops", "bug"})
    IN IF bad = <<>> THEN "ok" ELSE bad[1].out

\* The end of cfg_parse, pick_loadable_entry and boot().  The buffer of entries
\* takes a page from the first entry on.
PickEntry ==
    LET a == ms_allocate_pages(mem, 1, FourGB, "reclaim")
        default == cfg_find_ext(cfg, -1, TRUE, <<"default-entry">>, {"string"})
        le == IF Has(default, "string") THEN cfg_get_loadable_entry(cfg, default.value.as_string)
              ELSE cfg_first_loadable_entry(cfg)
        protocol == Mandatory(cfg_get_string(le, "protocol"))
        verdict == CASE default.out = "oops" \/ le = -1 -> "oops"
                     [] OTHER -> Verdict(<<protocol, Unless(protocol, {"ultra"})>>)
    IN
    /\ stage = "parse" /\ parse_pc \in {"parsed", "failed", "overrun"}
    /\ UNCHANGED <<faults, map, spec>>
    /\ CASE parse_pc = "failed" -> stage' = "abort" /\ UNCHANGED <<mem, ki>>
         [] parse_pc = "overrun" -> stage' = "overrun" /\ UNCHANGED <<mem, ki>>
         [] parse_pc = "parsed" /\ (cfg.entries = <<>> \/ verdict # "ok") ->
              /\ stage' = IF cfg.entries = <<>> THEN "oops" ELSE verdict
              /\ UNCHANGED <<mem, ki>>
         [] parse_pc = "parsed" /\ cfg.entries # <<>> /\ verdict = "ok" ->
              \* cfg_emplace uses the slot it got without a look at it.
              /\ stage' = IF a.out = "ok" THEN "open" ELSE "bug"
              /\ mem' = a.mem
              /\ ki' = [ki EXCEPT !.le = le, !.entries = a.page]

-----------------------------------------------------------------------------
(* The kernel                                                              *)

Binary == m.files[ki.path]

\* get_binary_options, and path_open on what it found.
OpenKernel ==
    LET binary == Mandatory(Get(ki.le, "binary", {"string", "object"}))
        path == IF Has(binary, "object") THEN Mandatory(cfg_get_string(binary.cfg_off, "path"))
                ELSE binary
        anywhere == In(binary, "allocate-anywhere", {"boolean"})
        verdict == Verdict(<<binary, path, anywhere>>)
    IN
    /\ stage = "open"
    /\ UNCHANGED faults
    /\ IF verdict # "ok" THEN Stop(verdict)
       ELSE IF path.value.as_string \notin DOMAIN m.files THEN Stop("oops")
       ELSE /\ ki' = [ki EXCEPT !.path = path.value.as_string, !.anywhere = IsTrue(anywhere),
                                !.open = TRUE]
            /\ stage' = "elf"
            /\ UNCHANGED <<mem, map, spec>>

LoadSpec(flags) ==
    [use_va |-> TRUE, alloc_anywhere |-> ki.anywhere,
     higher_half_base |-> ultra_higher_half_base(flags) * PAGE_SIZE,
     binary_ceiling |-> IF ultra_max_binary_address(flags, m.bios) = NoLimit THEN Wrap - 1
                        ELSE ultra_max_binary_address(flags, m.bios) * PAGE_SIZE]

\* elf_init_io_cache, elf_get_arch, ultra_get_flags_for_binary_options,
\* handover_ensure_supported_flags and the first half of elf_load.
InitElf ==
    LET a == allocate_bytes(mem, PAGE_SIZE)
        f == Binary
        flags == IF f.machine = ELF_ARCH_I386 THEN {} ELSE {"lme"}
    IN
    /\ stage = "elf"
    /\ \E bad \in Outcomes :
         /\ Count(bad)
         /\ CASE a.out # "ok" \/ bad \/ ~elf_do_get_arch(f) -> Stop("abort")
              [] a.out = "ok" /\ ~bad /\ elf_do_get_arch(f)
                 /\ ((flags = {} /\ ki.anywhere) \/ ~(flags \subseteq m.cpu)) -> Stop("oops")
              [] OTHER ->
                   IF ~elf_init_ctx(f, LoadSpec(flags)) THEN Stop("abort")
                   ELSE /\ mem' = a.mem
                        /\ ki' = [ki EXCEPT !.cache = a.page, !.flags = flags,
                                            !.bi = [NoBinary EXCEPT !.entrypoint = f.entry]]
                        /\ stage' = "scan"
                        /\ UNCHANGED <<map, spec>>

\* One program header of the first pass of elf_do_load.
ScanHeader ==
    LET ph == Binary.phs[ki.ph]
    IN
    /\ stage = "scan"
    /\ ki.ph <= Binary.phnum
    /\ \E bad \in Outcomes :
         /\ Count(bad)
         /\ IF bad \/ (~elf_skips(ph) /\ BadLoadAddress(ph, LoadSpec(ki.flags))) THEN Stop("abort")
            ELSE /\ ki' = [ki EXCEPT !.ph = @ + 1,
                             !.bi = IF elf_skips(ph) THEN @ ELSE Measured(@, ph, LoadSpec(ki.flags))]
                 /\ UNCHANGED <<stage, mem, map, spec>>

\* The checks between the passes, and data_alloc.
PlaceBinary ==
    LET ls == LoadSpec(ki.flags)
        bi == Rounded(ki.bi)
        a == IF ki.anywhere
             THEN ms_allocate_pages(mem, BinaryPages(bi), ultra_max_binary_address(ki.flags, m.bios), "kernel")
             ELSE ms_allocate_pages_at(mem, bi.physical_base \div PAGE_SIZE, BinaryPages(bi), "kernel")
    IN
    /\ stage = "scan"
    /\ ki.ph > Binary.phnum
    /\ UNCHANGED faults
    /\ IF BadEntrypoint(ki.bi, ls) \/ AboveMax(bi, ls) THEN Stop("abort")
       ELSE IF a.out # "ok" THEN Stop(CriticalOutcome(a))
       ELSE /\ mem' = a.mem
            /\ ki' = [ki EXCEPT !.ph = 1, !.bi = Placed(bi, a.page * PAGE_SIZE, ls)]
            /\ stage' = "load"
            /\ UNCHANGED <<map, spec>>

Owned(pages, type) == \A p \in pages : p \in DOMAIN mem /\ mem[p] = type
PagesOf(first, bytes) == (first \div PAGE_SIZE)..((first + bytes - 1) \div PAGE_SIZE)

\* One program header of the second pass: the segment is read and its rest zeroed.
LoadSegment ==
    LET ph == Binary.phs[ki.ph]
        ls == LoadSpec(ki.flags)
        base == load_base(ki.bi, ph, ls)
    IN
    /\ stage = "load"
    /\ ki.ph <= Binary.phnum
    /\ \E bad \in Outcomes :
         /\ Count(bad)
         /\ IF bad \/ (~elf_skips(ph) /\ BadSegment(Binary, ph, ls)) THEN Stop("abort")
            ELSE /\ ki' = IF elf_skips(ph) THEN [ki EXCEPT !.ph = @ + 1]
                          ELSE [ki EXCEPT !.ph = @ + 1,
                                  !.loaded = @ \cup {[base |-> base, ph |-> ki.ph]},
                                  !.stray = @ \/ ~Owned(PagesOf(base, ph.memsz), "kernel")]
                 /\ UNCHANGED <<stage, mem, map, spec>>

\* The end of elf_load and of load_kernel.
KernelLoaded ==
    /\ stage = "load"
    /\ ki.ph > Binary.phnum
    /\ mem' = Freed(mem, ki.cache, PAGE_SIZE)
    /\ ki' = [ki EXCEPT !.cache = 0,
                !.is_higher_half = ki.bi.entrypoint >= ultra_higher_half_base(ki.flags) * PAGE_SIZE]
    /\ stage' = "table"
    /\ UNCHANGED <<faults, map, spec>>

-----------------------------------------------------------------------------
(* The page table                                                          *)

\* build_page_table up to do_build_page_table.
ConfigureTable ==
    LET exclusive == cfg_get_bool(ki.le, "higher-half-exclusive")
        table == Get(ki.le, "page-table", {"object"})
        levels == In(table, "levels", {"unsigned"})
        guard == In(table, "null-guard", {"boolean"})
        constraint == Unless(In(table, "constraint", {"string"}), {"maximum", "exactly", "at-least"})
        verdict == Verdict(<<exclusive,
                             IF IsTrue(exclusive) /\ ~ki.is_higher_half THEN Oops ELSE Missing,
                             table, levels, guard, constraint>>)
        pt_levels == NumberOf(levels, 4)
        wanted == IF constraint.out = "none" THEN "maximum" ELSE constraint.value.as_string[1]
        t == ultra_configure_pt_type(ki.flags, m.cpu, pt_levels % 256, wanted)
        too_few == pt_levels < t.type /\ wanted # "at-least"
        flags == t.flags \cup (IF IsTrue(exclusive) THEN {"higher_half_only"} ELSE {})
    IN
    /\ stage = "table"
    /\ UNCHANGED faults
    /\ IF verdict # "ok" THEN Stop(verdict)
       ELSE IF ~t.ok \/ too_few THEN Stop("oops")
       ELSE /\ ki' = [ki EXCEPT !.flags = flags, !.exclusive = IsTrue(exclusive),
                                !.null_guard = IsTrue(guard),
                                !.direct_map_base = ultra_direct_map_base(flags)]
            /\ map' = [map EXCEPT !.pt.type = t.type]
            /\ stage' = "root"
            /\ UNCHANGED <<mem, spec>>

DirectMap ==
    [type |-> map.pt.type, direct_map_base |-> ki.direct_map_base,
     higher_half_limit |-> ultra_direct_map_max_size(ki.flags),
     lower_half_limit |-> IF ki.exclusive THEN 0 ELSE ultra_identity_map_max_size(ki.flags)]

TablePage(mm) == ms_allocate_pages(mm, 1, handover_get_max_pt_address(ki.flags), "reclaim")

\* page_table_init: the root, and with PAE the four tables below it; and the calls
\* of map_low_small_pages.  The walk over the memory map begins: UEFI takes a copy
\* of the map, BIOS uses its own.
InitTable ==
    LET root == TablePage(mem)
        start == [out |-> root.out, mem |-> root.mem, pt |-> NewTable(map.pt.type, root.page)]
        Under(t, i) ==
          LET a == TablePage(t.mem)
          IN IF t.out # "ok" \/ a.out # "ok" THEN [t EXCEPT !.out = "fail"]
             ELSE [t EXCEPT !.mem = a.mem,
                            !.pt = WithTable(@, [table |-> root.page, slot |-> i], a.page)]
        t == IF map.pt.type = PT_TYPE_I386_PAE THEN FoldLeft(Under, start, <<0, 1, 2, 3>>) ELSE start
    IN
    /\ stage = "root"
    /\ UNCHANGED <<faults, ki, spec>>
    /\ IF t.out # "ok" THEN stage' = "oops" /\ UNCHANGED <<mem, map>>
       ELSE /\ mem' = t.mem
            /\ map' = [map EXCEPT !.pt = t.pt,
                         !.jobs = map_low_small_pages(DirectMap, ~ki.exclusive, ki.null_guard),
                         !.walk.list = IF m.bios THEN <<>> ELSE MapEntries(t.mem)]
            /\ stage' = "walk"

\* The map_pages call at the head of the queue: a table is allocated or the slots
\* of one are filled.
MapStep ==
    LET job == Head(map.jobs)
        w == get_pte(map.pt, job.virtual_base, this_level(job))
        a == TablePage(mem)
        rest == AfterChunk(map.pt, job, WrapPages)
        left == IF rest.page_count = 0 THEN Tail(map.jobs) ELSE <<rest>> \o Tail(map.jobs)
    IN
    /\ map.jobs # <<>>
    /\ UNCHANGED <<faults, ki, spec>>
    /\ CASE job.page_count = 0 ->
              map' = [map EXCEPT !.jobs = Tail(@)] /\ UNCHANGED <<stage, mem>>
         [] job.page_count # 0 /\ (Misaligned(map.pt, job) \/ w.out = "huge") ->
              stage' = "bug" /\ map' = [map EXCEPT !.jobs = <<>>] /\ UNCHANGED mem
         [] job.page_count # 0 /\ ~Misaligned(map.pt, job) /\ w.out = "missing" ->
              IF a.out # "ok"
              THEN stage' = "panic" /\ map' = [map EXCEPT !.jobs = <<>>] /\ UNCHANGED mem
              ELSE /\ mem' = a.mem
                   /\ map' = [map EXCEPT !.pt = WithTable(@, w, a.page)]
                   /\ UNCHANGED stage
         [] OTHER ->
              /\ map' = [map EXCEPT !.pt = WithPages(@, job, w.table), !.jobs = left]
              /\ UNCHANGED <<stage, mem>>

\* "Coalesce contiguous RAM entries"
Continues(walk, e) == walk.ram_end = e.begin

\* mm_foreach_entry(direct_map_ram_entry): one entry.  With BIOS the entry is taken
\* from the map as it is now, after the allocations of the tables so far.  The walk
\* is disturbed when those moved the entry that was being visited.
WalkMap ==
    LET entries == IF m.bios THEN MapEntries(mem) ELSE map.walk.list
        walk == map.walk
        e == entries[walk.idx]
        moved == /\ m.bios /\ walk.last # <<>>
                 /\ \/ walk.idx - 1 > Len(entries)
                    \/ entries[walk.idx - 1] # walk.last[1]
        next == [walk EXCEPT !.idx = @ + 1, !.last = <<e>>]
    IN
    /\ stage = "walk" /\ map.jobs = <<>>
    /\ UNCHANGED <<mem, faults, ki, spec>>
    /\ IF walk.idx > Len(entries)
       THEN \* The last flush.
            /\ map' = [map EXCEPT !.jobs = direct_map_ram_range(DirectMap, walk.ram_begin, walk.ram_end),
                                  !.disturbed = @ \/ moved]
            /\ stage' = "kernel_window"
       ELSE /\ UNCHANGED stage
            /\ map' = CASE ~mme_is_ram(e.type) ->
                             [map EXCEPT !.walk = next, !.disturbed = @ \/ moved]
                        [] mme_is_ram(e.type) /\ Continues(walk, e) ->
                             [map EXCEPT !.walk = [next EXCEPT !.ram_end = e.end],
                                         !.disturbed = @ \/ moved]
                        [] OTHER ->
                             [map EXCEPT !.walk = [next EXCEPT !.ram_begin = e.begin, !.ram_end = e.end],
                                         !.jobs = direct_map_ram_range(DirectMap, walk.ram_begin, walk.ram_end),
                                         !.disturbed = @ \/ moved]

\* The rest of do_build_page_table.
MapKernel ==
    LET pages == (ki.bi.physical_ceiling - ki.bi.physical_base + PAGE_SIZE - 1) \div PAGE_SIZE
    IN
    /\ stage = "kernel_window" /\ map.jobs = <<>>
    /\ map' = [map EXCEPT
         !.pt = IF ki.exclusive
                THEN WithTrampoline(@, DirectMap, handover_get_minimum_map_length(ki.flags)) ELSE @,
         !.jobs = IF ki.anywhere
                  THEN <<Mapping(ki.bi.virtual_base \div PAGE_SIZE, ki.bi.physical_base \div PAGE_SIZE, pages, FALSE)>>
                  ELSE IF ultra_higher_half_base(ki.flags) # ki.direct_map_base
                  THEN HigherHalfWindow(DirectMap, ki.flags) ELSE <<>>]
    /\ stage' = "cmdline"
    /\ UNCHANGED <<mem, faults, ki, spec>>

-----------------------------------------------------------------------------
(* What the kernel gets with it                                            *)

\* get_cmdline
CopyCmdline ==
    LET r == cfg_get_string(ki.le, "cmdline")
        a == allocate_bytes(mem, SizeOfString(r) + 1)
        verdict == Verdict(<<r, TooLong(r, MAX_CMDLINE_LEN)>>)
    IN
    /\ stage = "cmdline" /\ map.jobs = <<>>
    /\ UNCHANGED faults
    /\ IF verdict # "ok" THEN Stop(verdict)
       ELSE IF r.out = "value" /\ a.out # "ok" THEN Stop(CriticalOutcome(a))
       ELSE /\ mem' = IF r.out = "value" THEN a.mem ELSE mem
            /\ spec' = [spec EXCEPT !.cmdline = IF r.out = "value" THEN SizeOfString(r) ELSE -1]
            /\ stage' = "kernel_as_module"
            /\ UNCHANGED <<ki, map>>

Ceiling_bytes == LoadSpec(ki.flags).binary_ceiling

\* module_data_alloc.  With BIOS the ceiling is never above the address space.
module_data_alloc(mm, addr, size, has_load_address) ==
    IF ~has_load_address
    THEN ms_allocate_pages(mm, PagesFor(size), ultra_max_binary_address(ki.flags, m.bios), "module")
    ELSE IF Plus(addr, size) < addr \/ Plus(addr, size) > Ceiling_bytes THEN NoPages(mm, "oops")
    ELSE ms_allocate_pages_at(mm, addr \div PAGE_SIZE, PagesFor(size), "module")

\* dynamic_buffer_slot_alloc and dynamic_buffer_grow on the buffer of modules.
ElemSize == PAGE_SIZE \div BufferIncrement

module_alloc(mm) ==
    LET a == allocate_bytes(mm, (spec.cap + BufferIncrement) * ElemSize)
    IN IF Len(spec.mods) < spec.cap THEN [out |-> "ok", page |-> spec.buf, mem |-> mm, cap |-> spec.cap]
       ELSE IF a.out # "ok" THEN [out |-> "panic", page |-> 0, mem |-> mm, cap |-> 0]
       ELSE [out |-> "ok", page |-> a.page, cap |-> spec.cap + BufferIncrement,
             mem |-> IF spec.cap = 0 THEN a.mem ELSE Freed(a.mem, spec.buf, spec.cap * ElemSize)]

\* The address is moved into the direct map for higher_half_pointers.
Module(first, size, desc) ==
    [first |-> first, size |-> size, desc |-> desc,
     address |-> first + (IF ki.exclusive THEN ki.direct_map_base ELSE 0)]

WithModule(buf, mod) ==
    [spec EXCEPT !.mods = Append(@, mod), !.cap = buf.cap, !.buf = buf.page]

\* load_kernel_as_module; the file is closed either way.
KernelAsModule ==
    LET r == cfg_get_bool(ki.le, "kernel-as-module")
        data == module_data_alloc(mem, 0, Binary.size, FALSE)
        buf == module_alloc(data.mem)
    IN
    /\ stage = "kernel_as_module"
    /\ IF r.out \in {"oops", "bug"} THEN Stop(r.out) /\ UNCHANGED faults
       ELSE IF ~IsTrue(r)
       THEN /\ ki' = [ki EXCEPT !.open = FALSE]
            /\ stage' = "first_module"
            /\ UNCHANGED <<mem, faults, map, spec>>
       ELSE \E bad \in Outcomes :
         /\ Count(bad)
         /\ IF data.out # "ok" THEN Stop(CriticalOutcome(data))
            ELSE IF bad THEN Stop("oops")
            ELSE IF buf.out # "ok" THEN Stop(buf.out)
            ELSE /\ mem' = buf.mem
                 /\ spec' = WithModule(buf, Module(data.page, Binary.size, 0))
                 /\ ki' = [ki EXCEPT !.open = FALSE]
                 /\ stage' = "first_module"
                 /\ UNCHANGED map

\* The look up of load_all_modules.
FirstModule ==
    LET r == cfg_find_ext(cfg, ki.le, FALSE, <<"module">>, {"string", "object"})
    IN
    /\ stage = "first_module"
    /\ UNCHANGED <<mem, faults, ki, map>>
    /\ spec' = [spec EXCEPT !.mod = r]
    /\ stage' = CASE r.out = "none" -> "stack"
                  [] r.out = "value" -> "module"
                  [] OTHER -> r.out

\* module_get_size returns a uint32_t.
module_size_u32(size) == size % (FourGB * PAGE_SIZE)

\* One round of load_all_modules: module_alloc, module_load and the look up of the
\* next module.  A file that is shorter than the module is followed by zeroes.
LoadModule ==
    LET v == spec.mod
        name == In(v, "name", {"string"})
        path == IF Has(v, "object") THEN In(v, "path", {"string"}) ELSE v
        size == In(v, "size", {"string", "unsigned", "none"})
        type == In(v, "type", {"string", "none"})
        load_at == In(v, "load-at", {"string", "unsigned", "none"})
        desc == In(v, "description", {"string"})
        bad_size == IF Has(size, "unsigned") /\ size.value.as_unsigned = 0 THEN Oops ELSE Missing
        verdict == Verdict(<<name, path, Unless(size, {"auto"}), bad_size,
                             Unless(type, {"file", "memory"}), Unless(load_at, {"auto"}), desc,
                             TooLong(desc, MAX_MODULE_DESCRIPTION_LEN)>>)
        memory == Says(type, "memory")
        buf == module_alloc(mem)
        copy == IF SizeOfString(desc) = 0 THEN [out |-> "ok", page |-> 0, mem |-> buf.mem]
                ELSE allocate_bytes(buf.mem, SizeOfString(desc))
        no_file == \/ path.out = "none"
                   \/ path.out = "value" /\ path.value.as_string \notin DOMAIN m.files
        wanted == module_size_u32(NumberOf(size, 0))
        bytes == IF wanted = 0 /\ ~memory THEN m.files[path.value.as_string].size ELSE wanted
        data == module_data_alloc(copy.mem, NumberOf(load_at, 0), bytes, Has(load_at, "unsigned"))
        next == cfg_get_next_one_of(cfg, v.cfg_off, {"string", "object"})
    IN
    /\ stage = "module"
    /\ \E bad \in IF memory THEN {FALSE} ELSE Outcomes :
         /\ Count(bad)
         /\ IF buf.out # "ok" THEN Stop(buf.out)
            ELSE IF verdict # "ok" THEN Stop(verdict)
            ELSE IF copy.out # "ok" THEN Stop(CriticalOutcome(copy))
            ELSE IF SizeOfString(name) >= NAME_SIZE THEN Stop("oops")
            ELSE IF ~memory /\ no_file THEN Stop("oops")
            ELSE IF memory /\ wanted = 0 THEN Stop("oops")
            ELSE IF data.out # "ok" THEN Stop(CriticalOutcome(data))
            ELSE IF bad THEN Stop("oops")
            ELSE /\ mem' = data.mem
                 /\ spec' = [WithModule(buf, Module(data.page, bytes, SizeOfString(desc))) EXCEPT !.mod = next]
                 /\ stage' = CASE next.out = "none" -> "stack"
                               [] next.out = "value" -> "module"
                               [] OTHER -> next.out
                 /\ UNCHANGED <<ki, map>>

\* allocate_stack.  as.addr and as.ceiling are one field: the check of the size
\* also sees the ceiling when allocate-at is the string "anywhere".
AllocateStack ==
    LET v == Get(ki.le, "stack", {"string", "object"})
        at == In(v, "allocate-at", {"string", "unsigned"})
        size == In(v, "size", {"string", "unsigned"})
        verdict == Verdict(<<v, at, size, Unless(at, {"anywhere"}), Unless(size, {"auto"})>>)
        precise == Has(at, "unsigned")
        addr == NumberOf(at, Ceiling_bytes)
        bytes == IF Has(size, "unsigned") THEN PAGE_ROUND_UP(size.value.as_unsigned) ELSE DefaultStack
        bad == Has(v, "object") /\ (bytes = 0 \/ (at.out = "value" /\ Plus(addr, bytes) < addr))
        pages == bytes \div PAGE_SIZE
        a == IF precise THEN ms_allocate_pages_at(mem, addr \div PAGE_SIZE, pages, "stack")
             ELSE ms_allocate_pages(mem, pages, ultra_max_binary_address(ki.flags, m.bios), "stack")
    IN
    /\ stage = "stack"
    /\ UNCHANGED faults
    /\ IF verdict # "ok" THEN Stop(verdict)
       ELSE IF bad \/ (Has(v, "string") /\ ~Says(v, "auto")) THEN Stop("oops")
       ELSE IF a.out # "ok" THEN Stop(CriticalOutcome(a))
       ELSE /\ mem' = a.mem
            /\ ki' = [ki EXCEPT !.stack = a.page + pages, !.stack_pages = pages]
            /\ stage' = "info"
            /\ UNCHANGED <<map, spec>>

\* apm_setup and uefi_info_setup; the latter reserves the buffer for the raw map,
\* whose descriptors are as many as the entries of the map.
SetupInfo ==
    LET apm == cfg_get_bool(ki.le, "setup-apm")
        uefi == cfg_get_bool(ki.le, "pass-uefi-info")
        verdict == Verdict(<<apm, uefi>>)
        pages == PagesFor(Len(MapEntries(mem)) * ENTRY_SIZE + PAGE_SIZE)
        a == ms_allocate_pages(mem, pages, NoLimit, "reclaim")
        wants_map == IsTrue(uefi) /\ ~m.bios
    IN
    /\ stage = "info"
    /\ UNCHANGED faults
    /\ IF verdict # "ok" THEN Stop(verdict)
       ELSE IF wants_map /\ a.out # "ok" THEN Stop("panic")
       ELSE /\ mem' = IF wants_map THEN a.mem ELSE mem
            /\ spec' = [spec EXCEPT !.apm = IsTrue(apm) /\ m.bios /\ m.apm,
                                    !.uefi = IF wants_map THEN pages * PAGE_SIZE ELSE -1]
            /\ stage' = "video"
            /\ UNCHANGED <<ki, map>>

\* video_mode_from_value and set_video_mode
SetVideoMode ==
    LET v == Get(ki.le, "video-mode", {"object", "string", "none"})
        width == In(v, "width", {"unsigned"})
        height == In(v, "height", {"unsigned"})
        bpp == In(v, "bpp", {"unsigned"})
        format == In(v, "format", {"string"})
        formats == {"rgb888", "bgr888", "rgbx8888", "xrgb8888", "auto"}
        pair == IF (width.out = "value") # (height.out = "value") THEN Oops ELSE Missing
        verdict == Verdict(<<v, Unless(v, {"unset", "auto"}), width, height, pair, bpp,
                             format, Unless(format, formats)>>)
        rm == [width |-> NumberOf(width, 0), height |-> NumberOf(height, 0), bpp |-> NumberOf(bpp, 32),
               has_bpp |-> bpp.out = "value",
               format |-> IF format.out = "value" /\ ~Says(format, "auto")
                          THEN format.value.as_string[1] ELSE FB_FORMAT_INVALID]
        picked == IF width.out = "value" THEN pick_exact_mode(m.video, rm) ELSE pick_auto_mode(m.video, rm)
        set == vs_set_mode(m.video, picked.mode.id)
    IN
    /\ stage = "video"
    /\ IF verdict # "ok" THEN Stop(verdict) /\ UNCHANGED faults
       ELSE IF Has(v, "none") \/ Says(v, "unset")
       THEN stage' = "release" /\ UNCHANGED <<mem, faults, ki, map, spec>>
       ELSE IF ~picked.found THEN Stop("oops") /\ UNCHANGED faults
       ELSE IF set.out = "bug" THEN Stop("bug") /\ UNCHANGED faults
       ELSE \E bad \in Outcomes :
         /\ Count(bad)
         /\ IF bad THEN Stop("oops")
            ELSE /\ spec' = [spec EXCEPT !.fb = set.fb, !.fb_present = TRUE, !.picked = picked.mode,
                                         !.asked = <<width.out = "value", rm>>]
                 /\ stage' = "release"
                 /\ UNCHANGED <<mem, ki, map>>

\* cfg_release: the text, the entries.  services_cleanup() follows it.
ReleaseConfig ==
    /\ stage = "release"
    /\ mem' = Freed(Freed(mem, ki.text, PAGE_SIZE), ki.entries, PAGE_SIZE)
    /\ cfg' = NoConfig
    /\ stage' = "prepare"
    /\ UNCHANGED <<m, faults, ki, map, spec, src, parse_pc, parser, must_be_ident, obj>>

-----------------------------------------------------------------------------
(* The hand over                                                           *)

AlignUp(bytes) == ((bytes + AttrAlign - 1) \div AttrAlign) * AttrAlign

\* relocate_entries on one entry: it stays where it is, or gets room below 'max',
\* if possible behind the entry before it.
Relocated(r, e, max) ==
    LET len == AlignUp(e.bytes)
        a == ms_allocate_pages(r.mem, PagesFor(len), max, "reclaim")
    IN IF r.out # "ok" THEN r
       ELSE IF e.relocation /\ m.image < max THEN [r EXCEPT !.pages = @ \cup {m.image}]
       ELSE IF len <= r.rem THEN [r EXCEPT !.pages = @ \cup {r.last}, !.rem = @ - len]
       ELSE IF a.out # "ok" THEN [r EXCEPT !.out = "panic"]
       ELSE [out |-> "ok", mem |-> a.mem, last |-> a.page, pages |-> r.pages \cup {a.page},
             rem |-> PagesFor(len) * PAGE_SIZE - len]

\* handover_prepare_for: nothing to do with BIOS, whose code is low.
Prepare ==
    LET max == IF "lme" \in ki.flags THEN FourGB ELSE FourGB - ki.direct_map_base
        entries == <<[relocation |-> TRUE, bytes |-> SizeOf.gdt],
                     [relocation |-> TRUE, bytes |-> SizeOf.compat_code],
                     [relocation |-> FALSE, bytes |-> SizeOf.xhi]>>
        r == FoldLeft(LAMBDA x, e : Relocated(x, e, max),
                      [out |-> "ok", mem |-> mem, last |-> 0, rem |-> 0, pages |-> {}], entries)
    IN
    /\ stage = "prepare"
    /\ UNCHANGED faults
    /\ IF m.bios
       THEN /\ ki' = [ki EXCEPT !.tramp = {m.image}]
            /\ stage' = "array"
            /\ UNCHANGED <<mem, map, spec>>
       ELSE IF r.out # "ok" THEN Stop(r.out)
       ELSE /\ ki' = [ki EXCEPT !.tramp = r.pages]
            /\ mem' = r.mem
            /\ stage' = "array"
            /\ UNCHANGED <<map, spec>>

module_attr_size(mod) == AlignUp(SizeOf.module + (IF mod.desc > 0 THEN mod.desc + 1 ELSE 0))

SumOfModules(mods) == FoldLeft(LAMBDA n, mod : n + module_attr_size(mod), 0, mods)

\* MUTANT: the terminator of the command line is not counted.
CmdlineBytes_NoNul == IF spec.cmdline = -1 THEN 0 ELSE AlignUp(SizeOf.header + spec.cmdline)

CmdlineBytes == IF spec.cmdline = -1 THEN 0 ELSE AlignUp(SizeOf.header + spec.cmdline + 1)

\* The bytes build_attribute_array counts besides the map's entries.
BytesNeeded ==
    SizeOf.context + SizeOf.platform + SizeOf.kernel + SumOfModules(spec.mods) + CmdlineBytes
    + (IF spec.fb_present THEN SizeOf.framebuffer ELSE 0)
    + (IF spec.apm THEN SizeOf.apm ELSE 0)
    + (IF spec.uefi # -1 THEN AlignUp(SizeOf.uefi + spec.uefi) ELSE 0)
    + SizeOf.map

\* The map has as many entries as the memory has ranges.  Under UEFI the firmware
\* allocates for itself too, so the number is only near that.
Counted == m.bios => map_count' = Len(MapEntries(mem'))

MeasureArray ==
    /\ stage = "array"
    /\ fixed_bytes' = BytesNeeded
    /\ map_count' = Len(MapEntries(mem))
    /\ Measure
    /\ UNCHANGED <<stage, mem, faults, ki, map, spec>>

ProbeArray ==
    stage = "array" /\ Probe /\ UNCHANGED <<stage, mem, faults, ki, map, spec>>

\* allocate_pages_ex() of the loop.
AllocateArray ==
    LET a == ms_allocate_pages(mem, pages_needed, ultra_max_binary_address(ki.flags, m.bios), "reclaim")
    IN
    /\ stage = "array" /\ pc = "allocate"
    /\ UNCHANGED <<faults, map, spec>>
    /\ IF a.out # "ok" THEN stage' = CriticalOutcome(a) /\ UNCHANGED <<mem, ki, vars>>
       ELSE /\ mem' = a.mem
            /\ ki' = [ki EXCEPT !.array = a.page]
            /\ Allocate /\ Counted
            /\ UNCHANGED stage

\* The map outgrew the array, which is freed.
RetryArray ==
    /\ stage = "array" /\ pc = "check" /\ Outgrown
    /\ mem' = InUse(mem, ki.array, pages_needed, "free")
    /\ Retry /\ Counted
    /\ UNCHANGED <<stage, faults, ki, map, spec>>

ArrayPages == ki.array..(ki.array + pages_needed - 1)

\* The array is cleared and the attributes in front of the map are written.  The
\* path of the kernel is still the one inside the text of the configuration.
AcceptArray ==
    /\ stage = "array" /\ Accept
    /\ spec' = [spec EXCEPT !.path = IF ki.text \in ArrayPages \cup (ki.tramp \ {m.image})
                                     THEN "overwritten" ELSE "kept"]
    /\ UNCHANGED <<stage, mem, faults, ki, map>>

\* write_memory_map; the release copies the raw map of UEFI into its buffer.
WriteArray ==
    /\ stage = "array" /\ pc = "write"
    /\ UNCHANGED <<mem, faults, ki, map, spec>>
    /\ IF spec.uefi # -1 /\ map_count * ENTRY_SIZE > spec.uefi
       THEN stage' = "bug" /\ UNCHANGED vars
       ELSE WriteMemoryMap /\ stage' = "jump"

\* MUTANT: the stack of a higher half kernel keeps its physical address.
Pointer_Physical(page) == page

\* A pointer the kernel gets besides those in the array.
Pointer(page) == IF ki.is_higher_half THEN page + ki.direct_map_base ELSE page

\* The end of ultra_protocol_boot and kernel_handover.
Handover ==
    /\ stage = "jump"
    /\ ki' = [ki EXCEPT !.stack = Pointer(@), !.array = Pointer(@)]
    /\ stage' = "handover"
    /\ UNCHANGED <<mem, faults, map, spec>>

Stopped == stage \in Failed \cup {"handover"} /\ UNCHANGED allVars

-----------------------------------------------------------------------------

ParseConfig == stage = "parse" /\ cfg_parse /\ UNCHANGED <<bootVars, vars>>

LoadStep ==
    ReadConfig \/ PickEntry \/ OpenKernel \/ InitElf \/ ScanHeader \/ PlaceBinary \/ LoadSegment \/ KernelLoaded

TableStep == ConfigureTable \/ InitTable \/ MapStep \/ WalkMap \/ MapKernel

InfoStep ==
    CopyCmdline \/ KernelAsModule \/ FirstModule \/ LoadModule \/ AllocateStack \/ SetupInfo \/ SetVideoMode

ArrayStep == MeasureArray \/ ProbeArray \/ AllocateArray \/ RetryArray \/ AcceptArray \/ WriteArray

BootStep ==
    \/ ParseConfig
    \/ (LoadStep \/ TableStep \/ InfoStep \/ Prepare \/ Handover) /\ UNCHANGED <<m, configVars, vars>>
    \/ ReleaseConfig /\ UNCHANGED vars
    \/ ArrayStep /\ UNCHANGED <<m, configVars>>

BootNext == (BootStep /\ tick' = ~tick) \/ Stopped

\* The processor goes on to the next step as long as the program runs.
Runs == stage \notin Failed \cup {"handover"} /\ tick' = ~tick

BootSpec == BootInit /\ [][BootNext]_allVars /\ WF_tick(Runs)

-----------------------------------------------------------------------------
(* Properties                                                              *)

\* vs_set_mode of UEFI takes the firmware's mode number for a position in its own
\* table, which is right as long as no mode in front was left out of the table.
NumbersArePositions == m.video.bios \/ Len(video_modes(m.video)) = Len(m.video.modes)

\* No BUG() is reached: no huge page is where a table should be, no table entry is
\* misaligned, the raw map fits its buffer and the picked mode is in the table, given
\* that no table was taken from the entry the walk was visiting and that numbers of
\* modes are positions.
NothingTrips == stage = "bug" => map.disturbed \/ ~NumbersArePositions

HandedOver == stage = "handover"

TablePages == DOMAIN map.pt.tables
ModulePages(mod) == mod.first..(mod.first + PagesFor(mod.size) - 1)
KernelPages == UNION {PagesOf(s.base, Binary.phs[s.ph].memsz) : s \in ki.loaded}
StackPages ==
    LET top == IF ki.is_higher_half THEN ki.stack - ki.direct_map_base ELSE ki.stack
    IN (top - ki.stack_pages)..(top - 1)
ContextPages ==
    LET first == IF ki.is_higher_half THEN ki.array - ki.direct_map_base ELSE ki.array
    IN first..(first + pages_needed - 1)

\* What the kernel is handed lies in memory the map describes as such, and no two
\* parts of it share a page: nothing it needs was freed, moved or allocated twice on
\* the way through the boot.  The ELF loader never writes outside the pages it
\* allocated for the binary.
HandedMemoryIsOwned ==
  /\ ~ki.stray
  /\ HandedOver =>
      LET parts == <<KernelPages, StackPages, ContextPages, TablePages>>
                   \o [i \in 1..Len(spec.mods) |-> ModulePages(spec.mods[i])]
      IN /\ Owned(KernelPages, "kernel") /\ Owned(StackPages, "stack")
         /\ Owned(ContextPages \cup TablePages, "reclaim")
         /\ \A i \in DOMAIN spec.mods : Owned(ModulePages(spec.mods[i]), "module")
         /\ \A i, j \in DOMAIN parts : i < j => parts[i] \cap parts[j] = {}

Sees(v, p) == Translate(map.pt, v) = p

\* Whether a page is reached through the direct map, and through the identity map.
InDirectMap(p) == p < ultra_direct_map_max_size(ki.flags)
InIdentityMap(p) == p < ultra_identity_map_max_size(ki.flags)

\* Every pointer the kernel is given leads, through its page table, to what was put
\* there: its segments at their addresses, the stack below the stack pointer, the
\* boot context, the modules.  The code that switches to it, its GDT and its arguments
\* stay where they are, and its root can be loaded from 32 bit code.  A stack the
\* configuration put where the direct map does not reach is left out.
KernelSeesItsMemory ==
    HandedOver /\ ~map.disturbed =>
      /\ \A s \in ki.loaded :
           \A b \in 0..(Binary.phs[s.ph].memsz - 1) :
             Sees((Binary.phs[s.ph].virt_addr + b) \div PAGE_SIZE, (s.base + b) \div PAGE_SIZE)
      /\ \A p \in StackPages :
           (IF ki.is_higher_half THEN InDirectMap(p) ELSE InIdentityMap(p)) =>
             Sees(ki.stack - 1 - (Max(StackPages) - p), p)
      /\ \A p \in ContextPages : Sees(ki.array + (p - Min(ContextPages)), p)
      /\ \A i \in DOMAIN spec.mods : \A p \in ModulePages(spec.mods[i]) :
           Sees(spec.mods[i].address + (p - spec.mods[i].first), p)
      /\ map.pt.root < FourGB
      /\ \A p \in ki.tramp : Sees(p, p) /\ Sees(ki.direct_map_base + p, p)

\* "The page table is expected to map all usable RAM both at its physical address
\* (identity) and at 'direct_map_base' + physical address."  (The former only without
\* higher-half-exclusive, and but for the guard page.)  "Reserved and device memory is
\* intentionally left unmapped": above the first huge page neither map reaches a page
\* that is not RAM.
RamIsMapped ==
    HandedOver /\ ~map.disturbed =>
      \A p \in DOMAIN mem :
        /\ mme_is_ram(mem[p]) =>
             /\ InDirectMap(p) => Sees(ki.direct_map_base + p, p)
             /\ InIdentityMap(p) /\ ~ki.exclusive /\ ~(p = 0 /\ ki.null_guard) => Sees(p, p)
        /\ ~mme_is_ram(mem[p]) /\ p >= huge_page_size(map.pt.type) =>
             /\ InDirectMap(p) => Sees(ki.direct_map_base + p, NoPage)
             /\ InIdentityMap(p) => Sees(p, NoPage)

\* The attributes, as the writers lay them out, end inside the pages of the array.
ContextFits ==
    stage \in {"jump", "handover"} =>
      LET Text(n) == IF n > 0 THEN n + 1 ELSE 0
          modules == FoldLeft(LAMBDA n, mod : n + AlignUp(SizeOf.module + Text(mod.desc)), 0, spec.mods)
          cmdline == IF spec.cmdline = -1 THEN 0 ELSE AlignUp(SizeOf.header + spec.cmdline + 1)
          raw == IF spec.uefi = -1 THEN 0 ELSE AlignUp(SizeOf.uefi + map_count * ENTRY_SIZE)
      IN SizeOf.context + SizeOf.platform + SizeOf.kernel + modules + cmdline
         + (IF spec.fb_present THEN SizeOf.framebuffer ELSE 0) + (IF spec.apm THEN SizeOf.apm ELSE 0)
         + SizeOf.map + handed * ENTRY_SIZE + raw
         <= pages_needed * PAGE_SIZE

Area(mode) == mode.width * mode.height

\* The framebuffer the kernel is told of is the mode that is set, and no mode of the
\* table that meets the request is larger, or as large with more bits: among all with
\* an exact request, else among those that fit the display, else the firmware's own
\* mode is kept when nothing was asked for.
FramebufferIsBest ==
    spec.fb_present /\ NumbersArePositions =>
      LET rm == spec.asked[2]
          exact == spec.asked[1]
          native == m.video.edid
          met == {c \in ToSet(video_modes(m.video)) :
                    /\ rm.format # FB_FORMAT_INVALID => c.format = rm.format
                    /\ rm.has_bpp => c.bpp = rm.bpp
                    /\ exact => c.width = rm.width /\ c.height = rm.height}
          shown == {c \in met : ~exact /\ native.width # 0 /\ c.width <= native.width /\ c.height <= native.height}
          kept == {c \in met : /\ ~exact /\ ~m.video.bios /\ c.id = m.video.current
                               /\ ~rm.has_bpp /\ rm.format = FB_FORMAT_INVALID}
          from == IF shown # {} THEN shown ELSE IF kept # {} THEN kept ELSE met
          best == spec.picked
      IN /\ best \in from
         /\ \A c \in from : Area(c) < Area(best) \/ (Area(c) = Area(best) /\ c.bpp <= best.bpp)
         /\ [spec.fb EXCEPT !.id = best.id] = best
         /\ spec.fb.id = ModeNumber(m.video, best.id)

\* A configuration that asks for nothing but what is documented boots on a machine
\* that has what it asks for, unless a read failed.
ValidConfigsBoot == stage \in Failed /\ faults = 0 /\ ~map.disturbed => ~m.boots

\* The path of the kernel the boot context names is the one the configuration named.
KernelPathIsHanded == stage = "handover" => spec.path = "kept"

\* Every boot ends, at the kernel's entry or with a message.
BootEnds == <>(stage \in Failed \cup {"handover"})

=============================================================================

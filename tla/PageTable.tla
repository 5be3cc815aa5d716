----------------------------- MODULE PageTable ------------------------------
(***************************************************************************)
(* The page tables of loader/virtual_memory.c and                          *)
(* loader/arch/x86/virtual_memory.c.  A page table is a record: the page   *)
(* of its root and, for every page that holds a table, the table's slots.  *)
(* Addresses are counted in pages here; the attribute bits are reduced to  *)
(* PAGE_PRESENT and PAGE_HUGE.                                             *)
(***************************************************************************)
EXTENDS Integers, Sequences, TLC

CONSTANTS
    NarrowWidth,      \* slots of a table with entries of 8 bytes
    WideWidth         \* slots of a table with entries of 4 bytes

ASSUME TableAssumption == NarrowWidth \in Nat \ {0} /\ WideWidth \in Nat \ {0}

\* enum pt_type, whose values are the number of levels (pt_depth).
PT_TYPE_I386_NO_PAE == 2
PT_TYPE_I386_PAE == 3
PT_TYPE_AMD64_4LVL == 4
PT_TYPE_AMD64_5LVL == 5

TableWidth(type) == IF type = PT_TYPE_I386_NO_PAE THEN WideWidth ELSE NarrowWidth

\* huge_page_size, and pt_level_entry_virtual_coverage, in pages.
Coverage(type, level) == TableWidth(type)^level
huge_page_size(type) == Coverage(type, 1)

NotPresent == [present |-> FALSE, huge |-> FALSE, addr |-> 0]
TableEntry(addr) == [present |-> TRUE, huge |-> FALSE, addr |-> addr]
PageEntry(addr, huge) == [present |-> TRUE, huge |-> huge, addr |-> addr]

\* pt_get_table_page clears the page it got.
EmptyTable(type) == [i \in 0..(TableWidth(type) - 1) |-> NotPresent]

NoTable == [type |-> PT_TYPE_I386_NO_PAE, root |-> 0, tables |-> <<>>]

\* The root of page_table_init.
NewTable(type, root) == [type |-> type, root |-> root, tables |-> (root :> EmptyTable(type))]

get_level_index(type, v, level) == (v \div Coverage(type, level)) % TableWidth(type)

\* get_pte: the table whose slots are the entries of want_level - 1, or the slot
\* that leads no further.  "missing" stands for a table that table_at has to
\* allocate, "huge" for its BUG_ON.
get_pte(pt, v, want_level) ==
    LET Path[level \in want_level..pt.type] ==
          IF level = pt.type THEN [out |-> "table", table |-> pt.root, slot |-> 0]
          ELSE LET above == Path[level + 1]
                   idx == get_level_index(pt.type, v, level)
                   e == pt.tables[above.table][idx]
               IN CASE above.out # "table" -> above
                    [] above.out = "table" /\ ~e.present ->
                         [out |-> "missing", table |-> above.table, slot |-> idx]
                    [] above.out = "table" /\ e.present /\ e.huge ->
                         [out |-> "huge", table |-> above.table, slot |-> idx]
                    [] OTHER -> [out |-> "table", table |-> e.addr, slot |-> 0]
    IN Path[want_level]

\* table_at: a new table at page 'addr', entered into the slot that wanted one.
WithTable(pt, where, addr) ==
    [pt EXCEPT !.tables = (addr :> EmptyTable(pt.type)) @@
                          [@ EXCEPT ![where.table][where.slot] = TableEntry(addr)]]

\* A map_pages call, or what is left of one.
Mapping(virt, phys, count, huge) ==
    [virtual_base |-> virt, physical_base |-> phys, page_count |-> count, huge |-> huge]

this_level(job) == IF job.huge THEN 2 ELSE 1
PagesPer(pt, job) == IF job.huge THEN huge_page_size(pt.type) ELSE 1

\* MUTANT: a run of slots goes on behind the end of the table.
SlotsLeft_FromStart(pt, slot_idx) == TableWidth(pt.type)

\* MUTANT: one slot fewer, so none at the last one.
SlotsLeft_Before(pt, slot_idx) == TableWidth(pt.type) - 1 - slot_idx

SlotsLeft(pt, slot_idx) == TableWidth(pt.type) - slot_idx

\* bulk_map_pages once the table is there: the slots of one table are written.
\* Slots behind the table's end would be other memory.
Chunk(pt, job) ==
    LET slot_idx == get_level_index(pt.type, job.virtual_base, this_level(job) - 1)
        left == SlotsLeft(pt, slot_idx)
    IN IF job.page_count <= left THEN job.page_count ELSE left

WithPages(pt, job, table) ==
    LET first == get_level_index(pt.type, job.virtual_base, this_level(job) - 1)
    IN [pt EXCEPT !.tables[table] =
          [i \in DOMAIN @ |->
             IF i \in first..(first + Chunk(pt, job) - 1)
             THEN PageEntry(job.physical_base + (i - first) * PagesPer(pt, job), job.huge)
             ELSE @[i]]]

AfterChunk(pt, job, wrap) ==
    LET pages == Chunk(pt, job) * PagesPer(pt, job)
    IN [job EXCEPT !.virtual_base = (@ + pages) % wrap,
                   !.physical_base = (@ + pages) % wrap,
                   !.page_count = @ - Chunk(pt, job)]

Misaligned(pt, job) ==
    \/ job.virtual_base % PagesPer(pt, job) # 0
    \/ job.physical_base % PagesPer(pt, job) # 0

map_copy_root_entry(pt, src_virtual, dest_virtual) ==
    LET Idx(v) == get_level_index(pt.type, v, pt.type - 1)
    IN [pt EXCEPT !.tables[pt.root][Idx(dest_virtual)] = pt.tables[pt.root][Idx(src_virtual)]]

-----------------------------------------------------------------------------
(* What the processor makes of a page table (external)                     *)

NoPage == -1

\* The physical page that virtual page v is translated to, or NoPage.
Translate(pt, v) ==
    LET From[level \in 0..(pt.type - 1)] ==      \* the entry used at that level
          IF level = pt.type - 1 THEN pt.tables[pt.root][get_level_index(pt.type, v, level)]
          ELSE LET above == From[level + 1]
               IN IF ~above.present \/ above.huge THEN above
                  ELSE pt.tables[above.addr][get_level_index(pt.type, v, level)]
        e == From[0]
    IN IF ~e.present THEN NoPage
       ELSE IF e.huge THEN e.addr + (v % huge_page_size(pt.type)) ELSE e.addr
=============================================================================

------------------------------ MODULE MemoryMap -----------------------------
(***************************************************************************)
(* The memory map of loader/memory_services.c: entry arithmetic, overlap   *)
(* resolution, and mm_fixup, which sorts, resolves and compresses a map in *)
(* place.                                                                  *)
(*                                                                         *)
(* The map is an array of which a prefix is in use; mm_fixup runs with two *)
(* cursors over a part of it.  One iteration of its loop is one step.      *)
(***************************************************************************)
EXTENDS Integers, Sequences, FiniteSets, TLC

CONSTANTS
    PAGE_SIZE,
    BUFFER_CAPACITY,    \* slots of the array
    Wrap                \* 2^64: addresses and sizes are taken modulo Wrap

ASSUME MapAssumption ==
    /\ PAGE_SIZE \in Nat \ {0}
    /\ BUFFER_CAPACITY \in Nat \ {0}
    /\ Wrap \in Nat \ {0}

\* MEMORY_TYPE_*: the firmware's types are ordered as in the ACPI
\* specification, and the loader's own ones are above them all.
MEMORY_TYPE_FREE == 1
MEMORY_TYPE_RESERVED == 2
MEMORY_TYPE_ACPI_RECLAIMABLE == 3
MEMORY_TYPE_ACPI_NVS == 4
MEMORY_TYPE_SOFT_RESERVED == 9
MEMORY_TYPE_MAX == MEMORY_TYPE_SOFT_RESERVED
MEMORY_TYPE_LOADER_RECLAIMABLE == 10
MEMORY_TYPE_PROTO_SPECIFIC_BASE == 11

AllTypes == 0..MEMORY_TYPE_MAX+1
Mme(addr, size, type) == [addr |-> addr, size |-> size, type |-> type]
NoEntry == Mme(0, 0, 0)
Slots == 0..BUFFER_CAPACITY-1

VARIABLES
    entries,        \* entries_buffer
    entry_count,
    known,          \* known_standard_mask, as a set of types
    map_is_dirty,
    fx,             \* the state of a running mm_fixup
    phase           \* what the memory services are doing

mapVars == <<entries, entry_count, known, map_is_dirty, fx, phase>>

NoFixup == [lo |-> 0, count |-> 0, cap |-> 0, flags |-> {}, i |-> 0, j |-> 0]

Add(a, b) == (a + b) % Wrap
Sub(a, b) == (a - b) % Wrap
Lesser(a, b) == IF a <= b THEN a ELSE b
Greater(a, b) == IF a >= b THEN a ELSE b
AlignDown(a) == a - (a % PAGE_SIZE)

mme_end(me) == Add(me.addr, me.size)

-----------------------------------------------------------------------------
(* Entries                                                                 *)

\* The mask mm_fixup works with: loader reclaimable memory is preserved unless
\* FIXUP_NO_PRESERVE_LOADER_RECLAIM asks for it to be given up.
EffectiveKnown(flags) ==
    IF "NO_PRESERVE_LOADER_RECLAIM" \in flags THEN known
    ELSE known \cup {MEMORY_TYPE_LOADER_RECLAIMABLE}

mme_resolve_type(type, mask) ==
    IF type >= MEMORY_TYPE_PROTO_SPECIFIC_BASE \/ type \in mask THEN type
    ELSE IF type = MEMORY_TYPE_LOADER_RECLAIMABLE THEN MEMORY_TYPE_FREE
    ELSE MEMORY_TYPE_RESERVED

mme_is_valid(me) ==
    /\ me.size # 0
    /\ me.type = MEMORY_TYPE_FREE => me.size >= PAGE_SIZE

\* Only free ranges are aligned: the begin is rounded down and the size is cut
\* by as much, then rounded down too.
mme_align_if_needed(me) ==
    LET begin == AlignDown(me.addr)
        cut == Lesser(me.size, me.addr - begin)
    IN IF me.type # MEMORY_TYPE_FREE THEN me
       ELSE Mme(begin, AlignDown(me.size - cut), me.type)

-----------------------------------------------------------------------------
(* Overlap resolution: the sequence of entries that replaces lhs and rhs   *)

ValidOnly(s) == IF mme_is_valid(s) THEN <<s>> ELSE <<>>

do_resolve_rhs_win(lhs, rhs) ==
    LET before == Mme(lhs.addr, Sub(rhs.addr, lhs.addr), lhs.type)
        after == Mme(mme_end(rhs),
                     IF mme_end(lhs) > mme_end(rhs)
                     THEN mme_end(lhs) - mme_end(rhs) ELSE 0, lhs.type)
    IN ValidOnly(mme_align_if_needed(before)) \o <<rhs>>
         \o ValidOnly(mme_align_if_needed(after))

\* MUTANT: rhs keeps the part that overlaps.
do_resolve_lhs_win_Keeps(lhs, rhs) == <<lhs, rhs>>

do_resolve_lhs_win(lhs, rhs) ==
    LET after == Mme(mme_end(lhs),
                     IF mme_end(lhs) < mme_end(rhs)
                     THEN mme_end(rhs) - mme_end(lhs) ELSE 0, rhs.type)
    IN <<lhs>> \o ValidOnly(mme_align_if_needed(after))

\* MUTANT: the lower type wins.
do_resolve_overlap_Lower(lhs, rhs) ==
    IF rhs.type > lhs.type THEN do_resolve_lhs_win(lhs, rhs)
    ELSE do_resolve_rhs_win(lhs, rhs)

do_resolve_overlap(lhs, rhs) ==
    IF rhs.type < lhs.type THEN do_resolve_lhs_win(lhs, rhs)
    ELSE do_resolve_rhs_win(lhs, rhs)

-----------------------------------------------------------------------------
(* Arrays.  'buf' is a whole array and [lo, hi) the part that is meant.    *)

\* mme_insert: open a gap at idx in the part that ends at 'hi'.
mme_insert(buf, me, idx, hi) ==
    [k \in Slots |-> CASE k = idx -> me
                       [] k > idx /\ k <= hi -> buf[k - 1]
                       [] OTHER -> buf[k]]

\* mm_find_first_that_contains on buf[lo, hi); -1 stands for "none".  The
\* binary search is the code's own, as the part need not be sorted.
mm_find_first_that_contains(buf, lo, hi, value, allow_one_above) ==
    LET search[l \in lo..hi, r \in lo-1..hi-1] ==
            LET m == l + ((r - l) \div 2) IN
            IF l > r THEN [hit |-> FALSE, at |-> l]
            ELSE IF buf[m].addr < value THEN search[m + 1, r]
            ELSE IF value < buf[m].addr THEN search[l, m - 1]
            ELSE [hit |-> TRUE, at |-> m]
        found == search[lo, hi - 1]
        left == found.at
        right == left - 1
    IN IF found.hit THEN left
       ELSE IF right >= lo /\ buf[right].addr < value
                           /\ value < mme_end(buf[right])
            THEN right
       ELSE IF allow_one_above /\ left # hi THEN left ELSE -1

\* mme_insert_try_merge into buf[lo, hi): the new array, and how many entries
\* were added; added = 2 stands for the OOPS_ON of a full array.
mme_insert_try_merge(buf, me, lo, hi, cap) ==
    LET res == mm_find_first_that_contains(buf, lo, hi, me.addr, TRUE)
        Enlarged(k, begin) ==
            [buf EXCEPT ![k].addr = begin,
                        ![k].size = Sub(Greater(mme_end(me), mme_end(buf[k])), begin)]
        Merged(k, begin) == [buf |-> Enlarged(k, begin), added |-> 0]
        Inserted(k) == [buf |-> mme_insert(buf, me, k, hi),
                        added |-> IF hi >= cap THEN 2 ELSE 1]
    IN IF res < 0 THEN Inserted(hi)
       ELSE IF me.addr >= buf[res].addr
       THEN IF buf[res].type = me.type THEN Merged(res, buf[res].addr)
            ELSE Inserted(res)
       ELSE IF buf[res].addr <= mme_end(me) /\ buf[res].type = me.type
       THEN Merged(res, me.addr)
       ELSE IF res > lo /\ me.addr <= mme_end(buf[res - 1])
                        /\ me.type = buf[res - 1].type
       THEN Merged(res - 1, buf[res - 1].addr)
       ELSE Inserted(res)

\* mm_sort: a stable sort by address of the first n entries.
mm_sort(buf, n) ==
    LET Before(k, l) == \/ buf[k].addr < buf[l].addr
                        \/ buf[k].addr = buf[l].addr /\ k < l
        order == SortSeq([k \in 1..n |-> k - 1], Before)
    IN [l \in Slots |-> IF l < n THEN buf[order[l + 1]] ELSE buf[l]]

-----------------------------------------------------------------------------
(* mm_fixup                                                                *)

\* mm_overlap_fixup: lhs and rhs are replaced by the first two entries they became.
Replaced(res, lhs, rhs) ==
    IF Len(res) = 1 THEN [entries EXCEPT ![lhs] = res[1]]
    ELSE [entries EXCEPT ![lhs] = res[1], ![rhs] = res[2]]

\* The rest of it: the array and the count once the third entry is in; oops is the
\* OOPS_ON of mme_insert_try_merge.
OverlapFixup(res, buf, rhs) ==
    LET ins == mme_insert_try_merge(buf, res[3], rhs, fx.count, fx.cap)
    IN IF Len(res) = 3
       THEN [buf |-> ins.buf, count |-> fx.count + ins.added, oops |-> ins.added = 2]
       ELSE [buf |-> buf, count |-> fx.count - 2 + Len(res), oops |-> FALSE]

\* MUTANT: off by one, the last byte is taken for the end.
Touching_LastByte(this, next) ==
    this.type = next.type /\ mme_end(this) - 1 = next.addr

Touching(this, next) == this.type = next.type /\ mme_end(this) = next.addr

\* MUTANT: a merge keeps the size of the first range.
MergedWith_Forgotten(this, next) == this

\* Two ranges of one type that touch become one.
MergedWith(this, next) == [this EXCEPT !.size = Add(@, next.size)]

Overlapping == mme_end(entries[fx.j]) > entries[fx.i].addr

\* Where an overlap leaves the cursors: rhs is skipped when both ranges became
\* one, and both go one entry back when the type of lhs changed.  The flag that
\* says so is never cleared: its value is arbitrary when the type did not change.
AfterOverlap(lhs, r) ==
    LET i == IF r.count < fx.count THEN fx.i + 1 ELSE fx.i IN
    /\ phase' = IF r.oops THEN "oops" ELSE "fixup"
    /\ \E lhs_type_changed \in
           IF r.buf[fx.j].type # lhs.type THEN {TRUE} ELSE BOOLEAN :
         \/ /\ lhs_type_changed /\ fx.j # fx.lo
            /\ fx' = [fx EXCEPT !.i = i - 1, !.j = @ - 1, !.count = r.count]
            /\ entries' = [r.buf EXCEPT ![i - 1] = r.buf[fx.j]]
         \/ /\ ~(lhs_type_changed /\ fx.j # fx.lo)
            /\ fx' = [fx EXCEPT !.i = i, !.count = r.count]
            /\ entries' = r.buf

\* One iteration that finds an overlap.
FixupOverlap ==
    LET lhs == entries[fx.j]
        rhs == entries[fx.i]
    IN
    /\ phase = "fixup" /\ fx.i < fx.count
    /\ Overlapping
    /\ \/ /\ "OVERLAP_RESOLVE" \notin fx.flags
          /\ phase' = "die"
          /\ UNCHANGED <<entries, fx>>
       \/ /\ "OVERLAP_RESOLVE" \in fx.flags
          /\ "OVERLAP_INTENTIONAL" \notin fx.flags
          /\ Greater(lhs.type, rhs.type) > MEMORY_TYPE_MAX
          /\ phase' = "bug"
          /\ UNCHANGED <<entries, fx>>
       \/ /\ "OVERLAP_RESOLVE" \in fx.flags
          /\ \/ "OVERLAP_INTENTIONAL" \in fx.flags
             \/ Greater(lhs.type, rhs.type) <= MEMORY_TYPE_MAX
          /\ \E res \in {do_resolve_overlap(lhs, rhs)} :
             \E buf \in {Replaced(res, fx.j, fx.i)} :
             \E r \in {OverlapFixup(res, buf, fx.i)} : AfterOverlap(lhs, r)
    /\ UNCHANGED <<entry_count, known, map_is_dirty>>

\* One iteration without an overlap: both types are resolved and the ranges
\* are merged, or next becomes the last entry of the compressed part.
FixupAdvance ==
    LET Resolved(me) ==
            [me EXCEPT !.type = mme_resolve_type(@, EffectiveKnown(fx.flags))]
    IN
    /\ phase = "fixup" /\ fx.i < fx.count
    /\ ~Overlapping
    /\ \E this \in {Resolved(entries[fx.j])}, next \in {Resolved(entries[fx.i])} :
         \/ /\ Touching(this, next)
            /\ entries' = [entries EXCEPT ![fx.i] = next,
                                         ![fx.j] = MergedWith(this, next)]
            /\ fx' = [fx EXCEPT !.i = @ + 1]
         \/ /\ ~Touching(this, next)
            /\ entries' = [entries EXCEPT ![fx.i] = next, ![fx.j] = this,
                                         ![fx.j + 1] = next]
            /\ fx' = [fx EXCEPT !.i = @ + 1, !.j = @ + 1]
    /\ UNCHANGED <<entry_count, known, map_is_dirty, phase>>

\* mm_fixup up to its loop, on the part that starts at lo, in array 'buf' with
\* 'n' entries in all: nothing to do on a clean map, or the loop starts.
BeginFixup(buf, n, lo, cap, flags) ==
    LET reclaim_known == MEMORY_TYPE_LOADER_RECLAIMABLE \in known
        clean == ~map_is_dirty
                   /\ \/ "IF_DIRTY" \in flags
                      \/ "NO_PRESERVE_LOADER_RECLAIM" \in flags /\ reclaim_known
    IN
    /\ entries' = IF "UNSORTED" \in flags THEN mm_sort(buf, n) ELSE buf
    /\ IF clean
       THEN fx' = [NoFixup EXCEPT !.lo = lo, !.count = n, !.i = n, !.j = n - 1]
       ELSE fx' = [lo |-> lo, count |-> n, cap |-> cap, flags |-> flags,
                   i |-> lo + 1, j |-> lo]

\* What mm_fixup leaves once its loop is done; j + 1 is what it returns.
FixupDone == phase = "fixup" /\ fx.i >= fx.count

=============================================================================

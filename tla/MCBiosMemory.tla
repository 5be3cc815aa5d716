---------------------------- MODULE MCBiosMemory ----------------------------
(***************************************************************************)
(* Instances of BiosMemory.  A page is two bytes, so that ranges that are  *)
(* not page aligned exist, and the address space is small.                 *)
(***************************************************************************)
EXTENDS BiosMemory, TLC

Free == MEMORY_TYPE_FREE
Reserved == MEMORY_TYPE_RESERVED
Acpi == MEMORY_TYPE_ACPI_RECLAIMABLE
Loader == MEMORY_TYPE_LOADER_RECLAIMABLE
Kernel == MEMORY_TYPE_PROTO_SPECIFIC_BASE

\* ultra_known_mm_types.
UltraTypes == {{Free, Reserved, Acpi, MEMORY_TYPE_ACPI_NVS, Loader}}

\* A firmware without overlaps: free memory in two parts around reserved and
\* ACPI memory.
PlainLists == { << Mme(0, 4, Free), Mme(4, 2, Reserved), Mme(6, 6, Free),
                   Mme(12, 2, Acpi) >> }

\* Lists of up to three ranges in the order of descending addresses, so that
\* mm_sort has work to do.
Descending(ranges) ==
    UNION {{l \in [1..n -> ranges] : \A i \in 1..n-1 : l[i].addr >= l[i + 1].addr} :
             n \in 1..3}

\* Ranges of whole pages among the first four pages.
PageRanges ==
    {r \in {Mme(Bytes(b), Bytes(n), t) : b \in 0..3, n \in 1..4,
                                        t \in {Free, Reserved, Acpi}} :
       r.addr + r.size <= Bytes(4)}

\* Lists of them with any overlaps, and those in which a range overlaps at most
\* one other range.
AlignedLists == Descending(PageRanges)
PairwiseLists ==
    {l \in AlignedLists :
       \A i, j, k \in DOMAIN l :
         Overlap(l[i], l[j]) /\ Overlap(l[i], l[k]) => i = j \/ i = k \/ j = k}

\* Lists with any overlaps among the first three pages.
ThreePageLists == Descending({r \in PageRanges : r.addr + r.size <= Bytes(3)})

\* Up to two ranges that need not be page aligned.
ByteRanges ==
    {Mme(b, n, t) : b \in 0..5, n \in 1..6, t \in {Free, Reserved}}
UnalignedLists == UNION {[1..n -> ByteRanges] : n \in 1..2}

\* All of these, for the repair of the map; the plain one is also allocated from.
AllLists == PairwiseLists \cup ThreePageLists \cup UnalignedLists \cup PlainLists
=============================================================================

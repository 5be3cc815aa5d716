--------------------------------- MODULE Fat ---------------------------------
(***************************************************************************)
(* FAT12, FAT16 and FAT32 volumes: how one is recognised, how the file     *)
(* allocation table is read through a view of it, how the chain of a file  *)
(* becomes an array of contiguous ranges, and how the entries of a         *)
(* directory become a record.                                              *)
(*                                                                         *)
(* A volume is a record vol: the disk block shift, the partition's blocks, *)
(* the BIOS parameter block, vol.cells (the table, by absolute address)    *)
(* and vol.entries (the directory entries, by absolute address).  An       *)
(* address counts units: a directory entry and a cell of the table take    *)
(* one each.  A cell is an entry of a FAT16 or FAT32 table and a byte of a *)
(* FAT12 one.  A name is a sequence of character codes.  An operation that *)
(* can fail is a set of results with the number of failures of each.       *)
(***************************************************************************)
EXTENDS Integers, Sequences, FiniteSets, SequencesExt

CONSTANTS
    FatViewCells,       \* FAT_VIEW_BYTES, in cells
    InPlaceRangeCap,    \* in_place_range_cap
    RangesPerPage,      \* ranges_per_page
    ChainSlack,         \* what a chain may be longer than its file: 1024
    Fat16MinClusters, Fat32MinClusters,
    Name1Chars, Name2Chars, Name3Chars,
    MaxSequenceNumber, MaxNameLength

ASSUME FatAssumption ==
    /\ {FatViewCells, RangesPerPage, InPlaceRangeCap, Name1Chars} \subseteq Nat \ {0}
    /\ Name1Chars <= Name2Chars
    /\ Fat16MinClusters < Fat32MinClusters

\* The structures on the disk: the parameter block, and a directory entry.
Bpb == [bytes_per_sector : Nat, sectors_per_cluster : Nat, reserved_sectors : Nat, fat_count : Nat,
        max_root_dir_entries : Nat, sectors_per_fat16 : Nat, sectors_per_fat32 : Nat,
        signature16 : Nat, signature32 : Nat, root_dir_cluster : Nat]
DirEntries ==
    [kind : {"end", "deleted", "device", "label"}]
    \cup [kind : {"short"}, base : Seq(Nat), ext : Seq(Nat), lower_base : BOOLEAN,
          lower_ext : BOOLEAN, first : Nat, size : Nat, subdir : BOOLEAN]
LongEntries ==
    [kind : {"long"}, last : BOOLEAN, sequence : Nat, checksum : 0..255,
     name_1 : Seq(Nat), name_2 : Seq(Nat), name_3 : Seq(Nat)]

NoFs == [kind |-> "none"]
Min2(a, b) == IF a < b THEN a ELSE b
CeilDiv(a, b) == (a + b - 1) \div b
PowersOfTwo == {2^i : i \in 0..12}

-----------------------------------------------------------------------------
(* Recognising a volume                                                    *)

Signatures == {40, 41}

\* MUTANT: the blocks of the root directory are not part of the metadata.
MetaSectors_NoRoot(b, shift, spf) == b.reserved_sectors + b.fat_count * spf

\* The blocks before the data area.
MetaSectors(b, shift, spf) ==
    b.reserved_sectors + CeilDiv(b.max_root_dir_entries, 2^shift) + b.fat_count * spf

\* detect_fat: what the parameter block says of a partition of this length.  The
\* kind of the table is decided by the number of clusters alone.
DetectFat(vol) ==
    LET b == vol.bpb
        length == vol.lba.end - vol.lba.begin
        ebpb32 == b.signature16 < 40 /\ b.signature32 \in Signatures
        spf == IF b.sectors_per_fat16 # 0 THEN b.sectors_per_fat16 ELSE b.sectors_per_fat32
        meta == MetaSectors(b, vol.shift, spf)
        clusters == (length - meta) \div b.sectors_per_cluster
        type == IF clusters < Fat16MinClusters THEN 12
                ELSE IF clusters < Fat32MinClusters THEN 16 ELSE 32
        sane == /\ b.bytes_per_sector \in PowersOfTwo
                /\ b.bytes_per_sector \div 2^vol.shift = 1
                /\ b.sectors_per_fat16 # 0 \/ ebpb32
                /\ b.fat_count # 0 /\ spf # 0 /\ b.reserved_sectors # 0
                /\ b.sectors_per_cluster \in PowersOfTwo
                /\ meta < length
    IN IF /\ sane
          /\ IF type = 32 THEN ebpb32 /\ b.root_dir_cluster >= 2
                          ELSE b.max_root_dir_entries # 0
       THEN [type |-> type, spf |-> spf] ELSE [type |-> 0, spf |-> spf]

Log2(n) == CHOOSE i \in 0..12 : 2^i = n

\* The rest of fat_detect: the file system that is set up for the volume.
FatMount(vol, info) ==
    LET b == vol.bpb
        fat == vol.lba.begin + b.reserved_sectors
        root == fat + info.spf * b.fat_count
        data == IF info.type = 32 THEN root
                ELSE root + CeilDiv(b.max_root_dir_entries, 2^vol.shift)
    IN [kind |-> "fat", type |-> info.type,
        fat |-> [begin |-> fat, end |-> fat + info.spf],
        data |-> data,
        data_part_off |-> (data - vol.lba.begin) * 2^vol.shift,
        root |-> IF info.type = 32 THEN b.root_dir_cluster ELSE root - vol.lba.begin,
        root_dir_entries |-> b.max_root_dir_entries,
        block_shift |-> Log2(b.sectors_per_cluster) + vol.shift,
        view |-> FALSE, view_offset |-> -1, view_first |-> 0, view_blocks |-> 0]

-----------------------------------------------------------------------------
(* The file allocation table                                               *)

EocValue(type) == CASE type = 12 -> 4088 [] type = 16 -> 65528 [] type = 32 -> 268435448
BadValue(type) == EocValue(type) - 1

\* entry_type_of_fat_value
EntryType(value, type) ==
    LET v == value % 2^28
    IN CASE v = 0 -> "free" [] v = 1 -> "reserved" [] v = BadValue(type) -> "bad"
         [] v >= EocValue(type) -> "end" [] OTHER -> "link"

\* MUTANT: a failed read leaves the old offset in place.
ViewAfterFailure_Kept(fs) == [fs EXCEPT !.view_blocks = 0]

\* A failed read has clobbered the view: nothing of it is valid any more.  (A
\* FAT12 or FAT16 view that is being read was not valid before either.)
ViewAfterFailure(fs) == [fs EXCEPT !.view_offset = -1, !.view_blocks = 0]

\* The view is filled from a block of the table; the read may run past its end.
ViewFilled(fs, vol, index, first) ==
    [fs EXCEPT !.view_offset = index, !.view_first = first,
               !.view_blocks = Min2(fs.fat.end - fs.fat.begin, FatViewCells \div 2^vol.shift)]

\* ensure_fat_entry_cached_fat32 and ensure_fat_cached_fat12_or_16: the file
\* system afterwards, and whether the entry can be read.
EnsureFatEntryCached(fs, vol, index) ==
    LET window == IF fs.type = 32 THEN index - (index % FatViewCells) ELSE 0
        first == fs.fat.begin + window \div 2^vol.shift
        viewed == [fs EXCEPT !.view = TRUE]
    IN (IF fs.view THEN {} ELSE {[ok |-> FALSE, fs |-> fs, failed |-> 1]})
       \cup (IF fs.view_offset = window THEN {[ok |-> TRUE, fs |-> viewed, failed |-> 0]}
             ELSE {[ok |-> TRUE, fs |-> ViewFilled(viewed, vol, window, first), failed |-> 0],
                   [ok |-> FALSE, fs |-> ViewAfterFailure(viewed), failed |-> 1]})

\* A cell of the view, which holds the blocks that were read last.
ViewCell(fs, vol, k) ==
    LET a == fs.view_first * 2^vol.shift + k
    IN IF k < fs.view_blocks * 2^vol.shift /\ a \in DOMAIN vol.cells THEN vol.cells[a] ELSE 0

\* get_fat_entry_fat12, _fat16 and _fat32.
GetFatEntry(fs, vol, index) ==
    LET b == index + index \div 2
        word == ViewCell(fs, vol, b) + 256 * ViewCell(fs, vol, b + 1)
    IN CASE fs.type = 12 -> IF index % 2 = 1 THEN word \div 16 ELSE word % 4096
         [] fs.type = 16 -> ViewCell(fs, vol, index)
         [] fs.type = 32 -> ViewCell(fs, vol, index - fs.view_offset) % 2^28

\* fat_entry_at: an entry that cannot be read is a bad one.
FatEntryAt(fs, vol, index) ==
    {[value |-> IF r.ok THEN GetFatEntry(r.fs, vol, index) ELSE BadValue(fs.type),
      fs |-> r.fs, failed |-> r.failed] : r \in EnsureFatEntryCached(fs, vol, index)}

-----------------------------------------------------------------------------
(* The ranges of a file                                                    *)

\* fat_do_open_file
FatFile(first, size) ==
    [open |-> TRUE, first |-> first, size |-> size,
     in_place |-> <<>>, extra |-> <<>>, extra_pages |-> 0]

RangeCount(f) == Len(f.in_place) + Len(f.extra)

\* MUTANT: the pages are counted from all the ranges.
ExtraPages_All(f) == CeilDiv(RangeCount(f), RangesPerPage)

\* The pages that file_free_chain and file_emplace_range compute for the ranges
\* that do not fit in the file structure.
ExtraPages(f) == CeilDiv(RangeCount(f) - InPlaceRangeCap, RangesPerPage)

\* file_free_chain: the file, and how many pages are given back.
FreeChain(f) ==
    [file |-> [f EXCEPT !.in_place = <<>>, !.extra = <<>>, !.extra_pages = 0],
     freed |-> IF f.extra_pages # 0 THEN ExtraPages(f) ELSE 0]

\* The contents of the new array: what the pages of the old one held.
GrownExtra(f, pages) == SubSeq(f.extra, 1, pages * RangesPerPage)

\* file_emplace_range: the file, and how many pages the call has added.
EmplaceRange(f, range) ==
    LET pages == ExtraPages(f)
        full == pages * RangesPerPage = Len(f.extra)
        grown == [f EXCEPT !.extra = Append(GrownExtra(f, pages), range),
                           !.extra_pages = pages + 1]
    IN IF Len(f.in_place) < InPlaceRangeCap
       THEN {[ok |-> TRUE, file |-> [f EXCEPT !.in_place = Append(@, range)],
              pages |-> 0, failed |-> 0]}
       ELSE IF ~full
       THEN {[ok |-> TRUE, file |-> [f EXCEPT !.extra = Append(@, range)],
              pages |-> 0, failed |-> 0]}
       ELSE {[ok |-> TRUE, file |-> grown,
              pages |-> (pages + 1) - (IF f.extra_pages # 0 THEN pages ELSE 0), failed |-> 0],
             [ok |-> FALSE, file |-> f, pages |-> 0, failed |-> 1]}

\* file_compute_contiguous_ranges before its loop: the current range, how many
\* clusters were seen and the last one.
ChainStart(f) == [off |-> 0, global |-> f.first, seen |-> 1, cluster |-> f.first]

MaxClusters(fs, f) == (f.size \div 2^fs.block_shift) + ChainSlack

\* One turn of the loop.  The chain ends, a link goes on, or the walk fails; the
\* size of a file with a shorter chain is cut down to the chain.
ChainTurn(fs, vol, f, w) ==
    UNION {
      LET type == EntryType(e.value, fs.type)
          bytes == w.seen * 2^fs.block_shift
          cut == [f EXCEPT !.size = Min2(f.size, bytes)]
          target == IF type = "end" THEN cut ELSE f
          adds == type = "end" \/ (type = "link" /\ e.value # w.cluster + 1)
          stored == IF adds THEN EmplaceRange(target, [off |-> w.off, global |-> w.global])
                    ELSE {[ok |-> type = "link", file |-> target, pages |-> 0, failed |-> 0]}
          on == [off |-> IF adds THEN w.seen ELSE w.off,
                 global |-> IF adds THEN e.value ELSE w.global,
                 seen |-> w.seen + 1, cluster |-> e.value]
      IN {[out |-> IF ~s.ok THEN "error" ELSE IF type = "end" THEN "done"
                   ELSE IF w.seen > MaxClusters(fs, f) THEN "error" ELSE "on",
           walk |-> on, fs |-> e.fs, file |-> s.file, pages |-> s.pages,
           failed |-> e.failed + s.failed] : s \in stored}
      : e \in FatEntryAt(fs, vol, w.cluster)}

\* find_range_idx: a binary search; right ends at the range the offset is in.
FindRangeIdx(ranges, offset) ==
    LET n == Len(ranges)
        search[b \in (0..n) \X (-1..n)] ==
            LET left == b[1]
                right == b[2]
                middle == left + (right - left) \div 2
                at == ranges[middle + 1].off
            IN IF left > right THEN right
               ELSE IF at < offset THEN search[<<middle + 1, right>>]
               ELSE IF offset < at THEN search[<<left, middle - 1>>]
               ELSE middle
    IN search[<<0, n - 1>>]

\* The offset is in the ranges that did not fit in place.
InExtra(f, block) == f.extra_pages # 0 /\ f.extra[1].off <= block

\* How many clusters of the range are left, from the start of the next one.
RangeLength(next, this, block) == next.off - block

\* fat_file_get_range once the ranges are known: blocks = 0 stands for the
\* BUG_ONs of find_range_idx and pure_cluster_value.
FatGetRange(fs, f, block, want) ==
    LET in_extra == InExtra(f, block)
        ranges == IF in_extra THEN f.extra ELSE f.in_place
        idx == FindRangeIdx(ranges, block)
        this == ranges[idx + 1]
        next_global == (IF in_extra THEN InPlaceRangeCap ELSE 0) + idx + 1
        next == IF next_global = InPlaceRangeCap THEN f.extra[1] ELSE ranges[idx + 2]
        cluster == (block - this.off) + this.global
    IN IF idx < 0 \/ cluster < 2 THEN [off |-> 0, blocks |-> 0]
       ELSE [off |-> (cluster - 2) * 2^fs.block_shift + fs.data_part_off,
             blocks |-> IF next_global = RangeCount(f) THEN want
                        ELSE Min2(want, RangeLength(next, this, block))]

-----------------------------------------------------------------------------
(* Directories                                                             *)

CharsPerLongEntry == Name1Chars + Name2Chars + Name3Chars
NoLongName == [text |-> [i \in 1..(MaxSequenceNumber * CharsPerLongEntry) |-> 0],
               written |-> 0, next |-> 0, sums |-> {}, reading |-> FALSE]

\* fat_iter_ctx_init: cluster 0, which '..' names in a subdirectory of the root,
\* and no record are the root directory.
FatIterInit(fs, cluster) ==
    [cluster |-> IF cluster = 0 THEN fs.root ELSE cluster, offset |-> 0, eof |-> FALSE,
     fixed |-> cluster = 0 /\ fs.type # 32, long |-> NoLongName]

EndEntry == [kind |-> "end"]
EntryAt(vol, a) == IF a \in DOMAIN vol.entries THEN vol.entries[a] ELSE EndEntry

\* The end of a directory, or a failure: no entry.
NoEntryRead(fs, ctx, failed) ==
    [out |-> "none", fs |-> fs, ctx |-> ctx, entry |-> EndEntry, failed |-> failed]

\* fixed_root_dir_fetch_next_entry: a failed read skips the entry.
FixedRootFetch(fs, vol, ctx) ==
    LET a == (vol.lba.begin + ctx.cluster) * 2^vol.shift + ctx.offset
        next == [ctx EXCEPT !.offset = @ + 1]
    IN IF ctx.offset = fs.root_dir_entries
       THEN {NoEntryRead(fs, [ctx EXCEPT !.eof = TRUE], 0)}
       ELSE {NoEntryRead(fs, next, 1),
             [out |-> "entry", fs |-> fs, ctx |-> next, entry |-> EntryAt(vol, a), failed |-> 0]}

\* MUTANT: the offset is not reset in the next cluster.
NextCluster_KeepOffset(ctx, cluster) == [ctx EXCEPT !.cluster = cluster]

\* The directory goes on in the next cluster of its chain.
NextCluster(ctx, cluster) == [ctx EXCEPT !.cluster = cluster, !.offset = 0]

\* fat_read of one entry at the offset, with dir_fetch_next_entry around it: a
\* failed read ends the directory.
ClusterFetch(fs, vol, ctx) ==
    LET a == fs.data * 2^vol.shift + (ctx.cluster - 2) * 2^fs.block_shift + ctx.offset
        next == [ctx EXCEPT !.offset = @ + 1]
    IN IF ctx.cluster < 2 THEN {[NoEntryRead(fs, ctx, 0) EXCEPT !.out = "bug"]}
       ELSE {NoEntryRead(fs, [next EXCEPT !.eof = TRUE], 1),
             [out |-> "entry", fs |-> fs, ctx |-> next, entry |-> EntryAt(vol, a), failed |-> 0]}

\* dir_fetch_next_entry
DirFetch(fs, vol, ctx) ==
    IF ctx.eof THEN {NoEntryRead(fs, ctx, 0)}
    ELSE IF ctx.fixed THEN FixedRootFetch(fs, vol, ctx)
    ELSE IF ctx.offset \div 2^fs.block_shift # 1 THEN ClusterFetch(fs, vol, ctx)
    ELSE UNION {IF EntryType(e.value, fs.type) # "link"
                THEN {NoEntryRead(e.fs, [ctx EXCEPT !.eof = TRUE], e.failed)}
                ELSE ClusterFetch(e.fs, vol, NextCluster(ctx, e.value))
                : e \in FatEntryAt(fs, vol, ctx.cluster)}

ToLower(c) == IF c \in 65..90 THEN c + 32 ELSE c
Lowered(s, lower) == IF lower THEN [i \in DOMAIN s |-> ToLower(s[i])] ELSE s
Before(s, stops) ==
    LET ends == {i \in DOMAIN s : s[i] \in stops}
    IN IF ends = {} THEN s ELSE SubSeq(s, 1, (CHOOSE i \in ends : \A j \in ends : i <= j) - 1)

\* process_normal_entry: the name of an entry without long entries, up to the
\* padding of its two parts.
ShortName(e) ==
    LET base == Before(Lowered(e.base, e.lower_base), {32})
        ext == Before(Lowered(e.ext, e.lower_ext), {32})
    IN base \o (IF ext # <<>> THEN <<46>> \o ext ELSE <<>>)

\* generate_short_name_checksum
Checksum(e) ==
    IF e.kind # "short" THEN -1
    ELSE FoldLeft(LAMBDA sum, c : (((sum \div 2) + ((sum % 2) * 128)) + c) % 256,
                  0, e.base \o e.ext)

\* ucs2_to_ascii of one part of a long entry.
Ascii(s) == LET t == Before(s, {0}) IN [i \in DOMAIN t |-> IF t[i] > 127 THEN 63 ELSE t[i]]

\* The characters of a long entry: a part is only read if the one before is full.
LongChars(e) ==
    LET a == Ascii(e.name_1)
        b == Ascii(e.name_2)
    IN IF Len(a) # Name1Chars THEN a
       ELSE IF Len(b) # Name2Chars THEN a \o b ELSE (a \o b) \o Ascii(e.name_3)

\* Where the characters of the entry with the expected number go.
LongOffset(long) == (long.next - 1) * CharsPerLongEntry

\* One long entry is added.  An entry that is not a long one is read as one.
AddLong(long, e) ==
    LET chars == IF e.kind = "long" THEN LongChars(e) ELSE <<>>
        at == LongOffset(long)
    IN [long EXCEPT !.text = [i \in DOMAIN @ |-> IF i - at \in DOMAIN chars
                                                 THEN chars[i - at] ELSE @[i]],
                    !.written = @ + Len(chars),
                    !.sums = @ \cup {IF e.kind = "long" THEN e.checksum ELSE -2},
                    !.next = @ - 1]

DirRec(name, e) ==
    [name |-> name, size |-> e.size, first |-> e.first, subdir |-> e.subdir]

\* One entry of fat_next_dir_rec: the entry is skipped, ends the search, starts or
\* continues a long name, or completes a record.
NextDirRec(ctx, e) ==
    LET long == ctx.long
        More(l) == [out |-> "more", ctx |-> [ctx EXCEPT !.long = l]]
        Stop == [out |-> "none", ctx |-> [ctx EXCEPT !.long = NoLongName]]
        Rec(name) == [out |-> "rec", rec |-> DirRec(name, e),
                      ctx |-> [ctx EXCEPT !.long = NoLongName]]
        started == [long EXCEPT !.reading = TRUE, !.next = e.sequence]
    IN IF long.reading
       THEN CASE long.next # 0 -> More(AddLong(long, e))
              [] OTHER -> IF long.written > MaxNameLength \/ long.sums # {Checksum(e)}
                          THEN Stop ELSE Rec(SubSeq(long.text, 1, long.written))
       ELSE CASE e.kind = "end" -> [Stop EXCEPT !.ctx.eof = TRUE]
              [] e.kind \in {"deleted", "device", "label"} -> More(long)
              [] e.kind = "short" -> Rec(ShortName(e))
              [] e.kind = "long" /\ ~e.last -> More(long)
              [] e.kind = "long" /\ e.last ->
                   IF e.sequence \in 1..MaxSequenceNumber THEN More(AddLong(started, e)) ELSE Stop
=============================================================================

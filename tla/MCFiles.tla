------------------------------- MODULE MCFiles -------------------------------
(***************************************************************************)
(* Volumes for Files, written the way the tools that format them would:    *)
(* FAT12, FAT16 and FAT32 volumes with fragmented files, broken, looping   *)
(* and short chains, and ISO9660 volumes of several block sizes.           *)
(***************************************************************************)
EXTENDS Files

Chars(lo) == [i \in 1..2 |-> IF i = 1 THEN lo ELSE 32]
Blank3 == <<32>>

\* Directory entries: a short one, the long ones of a name and the others.
Short(base, ext, first, size, subdir) ==
    [kind |-> "short", base |-> base, ext |-> ext, lower_base |-> FALSE, lower_ext |-> FALSE,
     first |-> first, size |-> size, subdir |-> subdir]
LowerShort(e) == [e EXCEPT !.lower_base = TRUE]
Plain(c, first, size) == Short(Chars(c), Blank3, first, size, FALSE)
SubDir(c, first) == Short(Chars(c), Blank3, first, 0, TRUE)
DotEntry(first) == Short(<<46, 32>>, Blank3, first, 0, TRUE)
DotDotEntry(first) == Short(<<46, 46>>, Blank3, first, 0, TRUE)
Deleted == [kind |-> "deleted"]
Label == [kind |-> "label"]
Long(seq, first, chars, short) ==
    LET at(i) == IF i <= Len(chars) THEN chars[i] ELSE IF i = Len(chars) + 1 THEN 0 ELSE 65535
    IN [kind |-> "long", sequence |-> seq, last |-> first, checksum |-> Checksum(short),
        name_1 |-> <<at(1)>>, name_2 |-> <<at(2), at(3)>>, name_3 |-> <<at(4)>>]

\* The geometry of a volume that starts at block 3: a reserved block, two tables.
FatBegin == 3
Spf(type) == CASE type = 12 -> 6 [] type = 16 -> 5 [] type = 32 -> 10
Clusters(type) == CASE type = 12 -> 5 [] type = 16 -> 7 [] type = 32 -> 18
RootEntries(type) == IF type = 32 THEN 0 ELSE 4
DataLba(type) == FatBegin + 1 + 2 * Spf(type) + RootEntries(type) \div 2
ClusterAddr(type, spc, c) == (DataLba(type) + (c - 2) * spc) * 2

BpbOf(type, spc, root) ==
    [bytes_per_sector |-> 2, sectors_per_cluster |-> spc, reserved_sectors |-> 1, fat_count |-> 2,
     max_root_dir_entries |-> RootEntries(type),
     sectors_per_fat16 |-> IF type = 32 THEN 0 ELSE Spf(type),
     sectors_per_fat32 |-> Spf(type), signature16 |-> IF type = 32 THEN 0 ELSE 41,
     signature32 |-> IF type = 32 THEN 41 ELSE 0, root_dir_cluster |-> root]

\* The cells of a table: packed for FAT12, with reserved bits set for FAT32.
Packed(t) ==
    LET e(i) == IF i \in DOMAIN t THEN t[i] ELSE 0
    IN [k \in 0..11 |-> CASE k % 3 = 0 -> e(2 * (k \div 3)) % 256
                          [] k % 3 = 1 -> e(2 * (k \div 3)) \div 256
                                          + ((e(2 * (k \div 3) + 1) % 16) * 16)
                          [] k % 3 = 2 -> e(2 * (k \div 3) + 1) \div 16]
Cells(type, t) ==
    CASE type = 12 -> Packed(t)
      [] type = 16 -> t
      [] type = 32 -> [i \in DOMAIN t |-> IF t[i] \in 2..100 THEN t[i] + 2^28 ELSE t[i]]
Eoc(type) == EocValue(type) + 7
Table(type, links) ==
    [i \in 0..(Clusters(type) + 1) |->
        IF i \in DOMAIN links THEN (IF links[i] = 99 THEN Eoc(type) ELSE links[i])
        ELSE IF i < 2 THEN Eoc(type) ELSE 0]
At(base, seq) == [a \in base..(base + Len(seq) - 1) |-> seq[a - base + 1]]
Merge(fs_) == [a \in UNION {DOMAIN f : f \in fs_} |-> (CHOOSE f \in fs_ : a \in DOMAIN f)[a]]

\* What the tree of a FAT volume says of a file: its blocks and its bytes.
FatRef(type, spc, chain, size, broken) ==
    LET bytes == Len(chain) * spc * 2
        addr == [i \in DOMAIN chain |-> ClusterAddr(type, spc, chain[i])]
    IN [dir |-> FALSE, first |-> chain[1], broken |-> broken,
        blocks |-> [i \in DOMAIN chain |-> addr[i] - FatBegin * 2],
        data |-> [i \in 1..(IF size < bytes THEN size ELSE bytes) |->
                    addr[1 + (i - 1) \div (spc * 2)] + ((i - 1) % (spc * 2))]]
Dir == [dir |-> TRUE]

\* root: the entries of a fixed root; dirs: the entries of directory clusters.
FatVolume(type, spc, links, root_cluster, root, dirs, tree, asked, requests) ==
    LET t == Table(type, links)
        cells == Cells(type, t)
        fat(copy) == (FatBegin + 1 + copy * Spf(type)) * 2
        rootAddr == (FatBegin + 1 + 2 * Spf(type)) * 2
    IN [kind |-> "fat", shift |-> 1, bpb |-> BpbOf(type, spc, root_cluster),
        lba |-> [begin |-> FatBegin, end |-> DataLba(type) + Clusters(type) * spc],
        cells |-> Merge({[a \in {fat(c) + k : k \in DOMAIN cells} |-> cells[a - fat(c)]] : c \in 0..1}),
        entries |-> Merge({At(rootAddr, root)}
                          \cup {At(ClusterAddr(type, spc, c), dirs[c]) : c \in DOMAIN dirs}),
        table |-> t, tree |-> tree, asked |-> asked, requests |-> requests,
        format |-> [type |-> type, data |-> DataLba(type)]]

K == <<75>>
D == <<68>>
E == <<69>>
L == <<108, 111, 110, 103, 46, 116>>    \* long.t

\* A FAT12 volume: a file in three fragments, a directory of two clusters.
Fat12 ==
    FatVolume(12, 1, 2 :> 4 @@ 4 :> 3 @@ 3 :> 99 @@ 5 :> 6 @@ 6 :> 99, 0,
        <<Label, Plain(75, 2, 5), SubDir(68, 5)>>,
        5 :> <<DotEntry(5), DotDotEntry(0)>> @@ 6 :> <<Deleted, LowerShort(Plain(69, 3, 2))>>,
        (<<>> :> Dir @@ <<K>> :> FatRef(12, 1, <<2, 4, 3>>, 5, FALSE) @@ <<D>> :> Dir
         @@ <<D, <<101>>>> :> FatRef(12, 1, <<3>>, 2, FALSE)),
        {<<Slash, K>>, <<D, Slash, Slash, DotDot, Slash, Dot, Slash, K>>, <<D, Slash, <<101>>>>,
         <<Slash, D>>, <<K, Slash, D>>},
        {<<0, 5>>, <<1, 4>>, <<3, 1>>})

\* A FAT16 volume of larger clusters: a contiguous file that goes on elsewhere, a
\* chain that meets a bad cluster, one that is a loop and one that is too short.
\* The root directory is full.
Z == <<90>>
S == <<83>>
Fat16 ==
    FatVolume(16, 2, 2 :> 3 @@ 3 :> 6 @@ 6 :> 99 @@ 4 :> 65527 @@ 5 :> 7 @@ 7 :> 5 @@ 8 :> 99, 0,
        <<Plain(75, 2, 10), Plain(69, 4, 5), Plain(90, 5, 6), Plain(83, 8, 7)>>, <<>>,
        (<<>> :> Dir @@ <<K>> :> FatRef(16, 2, <<2, 3, 6>>, 10, FALSE)
         @@ <<E>> :> FatRef(16, 2, <<4>>, 5, TRUE) @@ <<Z>> :> FatRef(16, 2, <<5, 7>>, 6, TRUE)
         @@ <<S>> :> FatRef(16, 2, <<8>>, 7, FALSE)),
        {<<Slash, K>>, <<E>>, <<Z>>, <<S>>, <<D>>},
        {<<0, 10>>, <<3, 6>>, <<2, 3>>, <<0, 4>>})

\* A FAT32 volume: long names, and a file whose chain goes back and forth between
\* two windows of the table, in four fragments.
LShort == Short(<<76, 49>>, <<84>>, 3, 9, FALSE)
Fat32Links ==
    2 :> 16 @@ 16 :> 99 @@ 3 :> 17 @@ 17 :> 5 @@ 5 :> 18 @@ 18 :> 19 @@ 19 :> 99
    @@ 7 :> 8 @@ 8 :> 99 @@ 10 :> 99
Fat32 ==
    FatVolume(32, 1, Fat32Links, 2, <<>>,
        2 :> <<Long(2, TRUE, SubSeq(L, 5, 6), LShort), Long(1, FALSE, SubSeq(L, 1, 4), LShort)>>
        @@ 16 :> <<LShort, SubDir(68, 7)>>
        @@ 7 :> <<DotEntry(7), DotDotEntry(0)>>
        @@ 8 :> <<Long(1, FALSE, <<120>>, LShort), Short(<<69, 32>>, <<84>>, 10, 2, FALSE)>>,
        (<<>> :> Dir @@ <<L>> :> FatRef(32, 1, <<3, 17, 5, 18, 19>>, 9, FALSE) @@ <<D>> :> Dir
         @@ <<D, <<69, 46, 84>>>> :> FatRef(32, 1, <<10>>, 2, FALSE)),
        {<<L>>, <<D, Slash, DotDot, Slash, L>>, <<D, Slash, <<69, 46, 84>>>>, <<D, Slash, E>>},
        {<<0, 9>>, <<1, 6>>, <<7, 2>>})

\* Clusters of the largest size: their size in bytes is not a u16.
Fat32Large ==
    FatVolume(32, 32, 2 :> 99 @@ 3 :> 5 @@ 5 :> 99, 2, <<>>, 2 :> <<Plain(75, 3, 70)>>,
        (<<>> :> Dir @@ <<K>> :> FatRef(32, 32, <<3, 5>>, 70, FALSE)),
        {<<K>>}, {<<0, 70>>, <<61, 8>>, <<63, 1>>, <<62, 2>>})

\* Volumes that are not FAT, one field of the parameter block at a time.
NotFat(b) == [Fat12 EXCEPT !.bpb = b, !.format.type = "none"]
NoFatVolumes ==
    {NotFat([Fat12.bpb EXCEPT !.bytes_per_sector = 3]), NotFat([Fat12.bpb EXCEPT !.bytes_per_sector = 8]),
     NotFat([Fat12.bpb EXCEPT !.sectors_per_cluster = 3]), NotFat([Fat12.bpb EXCEPT !.fat_count = 0]),
     NotFat([Fat12.bpb EXCEPT !.reserved_sectors = 99]), NotFat([Fat12.bpb EXCEPT !.max_root_dir_entries = 0]),
     [Fat32 EXCEPT !.bpb.root_dir_cluster = 1, !.format.type = "none"]}

-----------------------------------------------------------------------------
(* ISO9660 volumes: sectors of 32 units, the root directory in the third.  *)

SumLen(su) == FoldLeft(LAMBDA n, e : n + e.len, 0, su)
Laid(su) ==
    LET off == [i \in 1..Len(su) |-> SumLen(SubSeq(su, 1, i - 1))]
    IN [a \in {off[i] : i \in 1..Len(su)} |-> su[CHOOSE i \in 1..Len(su) : off[i] = a]]
Even(n) == n + (n % 2)
Record(ident, extent, size, flags, su) ==
    [len |-> Even(RecordHeader + PaddedIdent([ident |-> ident]) + SumLen(su)), ident |-> ident,
     xattr |-> 0, extent |-> extent, size |-> size, flags |-> flags, su |-> Laid(su)]
SP == [sig |-> "SP", len |-> 2, version |-> 1, check |-> TRUE, skip |-> 0]
ER == [sig |-> "ER", len |-> 4, version |-> 1, expected |-> 4]
RR == [sig |-> "RR", len |-> 2, version |-> 1]
ST == [sig |-> "ST", len |-> 2, version |-> 1]
NM(name, continued) ==
    [sig |-> "NM", len |-> 2 + Len(name), version |-> 1, dots |-> FALSE, name |-> name,
     name_bit |-> continued]
CE(block, off, area) ==
    [sig |-> "CE", len |-> SueCeLen, version |-> 1, block |-> block, off |-> off, area |-> area]

Placed(base, at) == [a \in {base + o : o \in DOMAIN at} |-> at[a - base]]
IsoRef(extent, size, block) ==
    [dir |-> FALSE, first |-> extent, broken |-> FALSE, blocks |-> <<>>,
     data |-> Bytes(extent * block, size)]

\* fs_shift: the block size of the volume; shift: that of the disk; skew: how many
\* blocks after the start of a sector the directories and areas are.
Iso(fs_shift, shift, skew) ==
    LET X(sector) == sector * 2^(5 - fs_shift)
        Y(sector) == X(sector) + skew
        skewed == skew * 2^fs_shift
        ref(sector, size) == IsoRef(X(sector), size, 2^fs_shift)
        root == 0 :> Record(<<0>>, Y(3), 64, {"subdir"}, <<SP, CE(Y(7), 0, 4)>>)
                @@ 10 :> Record(<<1>>, Y(3), 64, {"subdir"}, <<>>)
                @@ 14 :> [Record(<<65, 46, 59, 49>>, X(9) - 1, 40, {}, <<>>) EXCEPT !.xattr = 1]
                @@ 22 :> Record(<<66>>, X(8), 5, {}, <<NM(<<98, 99>>, FALSE)>>)
                @@ 32 :> Record(<<77>>, X(11), 32, {"multi"}, <<>>)
                @@ 36 :> Record(<<77>>, X(12), 3, {}, <<>>)
                @@ 40 :> Record(<<67>>, X(13), 33, {}, <<NM(<<99>>, TRUE), CE(Y(7), 8, 6)>>)
                @@ 52 :> Record(<<68>>, Y(5), 64, {"subdir"}, <<RR, RR>>)
        sub == 0 :> Record(<<0>>, Y(5), 64, {"subdir"}, <<>>)
               @@ 4 :> Record(<<1>>, Y(3), 64, {"subdir"}, <<>>)
               @@ 8 :> Record(<<70>>, X(15), 1, {"assoc"}, <<>>)
               @@ 12 :> Record(<<70>>, X(15), 6, {}, <<RR, NM(<<102, 103>>, FALSE)>>)
               @@ 32 :> Record(<<72>>, X(16), 5, {"hidden"}, <<NM(<<104>>, FALSE), ST>>)
               @@ 42 :> Record(<<77>>, X(17), 32, {"multi"}, <<>>)
               @@ 46 :> Record(<<77>>, X(19), 3, {}, <<>>)
               @@ 50 :> Record(<<78>>, X(16), 7, {}, <<RR, RR>>)
    IN [kind |-> "iso", shift |-> shift, vds |-> <<"boot", "primary", "terminator">>,
        pvd |-> [block_size |-> 2^fs_shift, volume_size |-> X(20),
                 root |-> [extent |-> Y(3), xattr |-> 0, size |-> 64]],
        records |-> Merge({Placed(96 + skewed, root), Placed(160 + skewed, sub)}),
        areas |-> Placed(224 + skewed, 0 :> ER @@ 8 :> NM(<<100, 101>>, FALSE) @@ 12 :> ST),
        tree |-> <<>> :> Dir @@ <<<<97>>>> :> ref(9, 40) @@ <<<<98, 99>>>> :> ref(8, 5)
                 @@ <<<<109>>>> :> ref(11, 35) @@ <<<<99, 100, 101>>>> :> ref(13, 33)
                 @@ <<<<100>>>> :> Dir @@ <<<<100>>, <<102, 103>>>> :> ref(15, 6)
                 @@ <<<<100>>, <<110>>>> :> ref(16, 7),
        asked |-> {<<Slash, <<97>>>>, <<<<98, 99>>>>, <<<<109>>>>, <<<<99, 100, 101>>>>,
                   <<<<100>>, Slash, <<102, 103>>>>,
                   <<<<100>>, Slash, DotDot, Slash, <<100>>, Slash, <<110>>>>, <<<<104>>>>},
        requests |-> {<<0, 5>>, <<3, 30>>, <<1, 2>>, <<31, 2>>},
        format |-> [type |-> "iso"]]

\* Volumes that are not ISO9660.
NoIso(v) == [v EXCEPT !.format.type = "none"]
NoIsoVolumes ==
    {NoIso([Iso(5, 5, 0) EXCEPT !.vds = <<"supplementary", "terminator">>]),
     NoIso([Iso(5, 5, 0) EXCEPT !.pvd.root.size = 0]), NoIso([Iso(5, 5, 0) EXCEPT !.pvd.block_size = 64]),
     NoIso([Iso(5, 5, 0) EXCEPT !.shift = 6])}

-----------------------------------------------------------------------------
Pxe ==
    [kind |-> "pxe", shift |-> 0, served |-> <<Slash, K>> :> [first |-> 1000, size |-> 6],
     tree |-> <<Slash, K>> :> [dir |-> FALSE, first |-> 1000, broken |-> FALSE, data |-> Bytes(1000, 6)],
     asked |-> {<<Slash, K>>, <<E>>}, requests |-> {<<0, 6>>, <<2, 3>>, <<2, 5>>},
     format |-> [type |-> "pxe"]]

Vols == {Fat12, Fat16, Fat32, Fat32Large, Iso(5, 5, 0), Iso(5, 3, 0), Iso(3, 5, 1), Iso(4, 3, 0), Pxe}
        \cup NoFatVolumes \cup NoIsoVolumes
TwoHandles == 1..2
=============================================================================

------------------------------- MODULE Iso9660 -------------------------------
(***************************************************************************)
(* ISO9660 volumes with Rock Ridge names: the volume descriptors, the      *)
(* records of a directory read through the directory cache, the System Use *)
(* entries of a record and of its continuation areas, and files of several *)
(* extents.                                                                *)
(*                                                                         *)
(* A volume is a record vol: the disk block shift, the descriptors, the    *)
(* primary one, vol.records (the directory records by absolute address)    *)
(* and vol.areas (the System Use entries of continuation areas, by         *)
(* absolute address).  Lengths and addresses count units.  A record and a  *)
(* System Use entry have the length they state; a record of length 0 is    *)
(* what the unused end of a sector reads as.                               *)
(***************************************************************************)
EXTENDS Integers, Sequences, FiniteSets

CONSTANTS
    SectorSize,      \* ISO9660_LOGICAL_SECTOR_SIZE
    RecordHeader,    \* sizeof(struct iso9660_dir_record)
    U8Range,         \* how many values a u8 has: 256
    U32Range,        \* how many values a u32 has
    CacheUnits,      \* DIRECTORY_CACHE_SIZE
    SueMinLen,       \* SUE_MIN_LEN
    SueCeLen,        \* SUE_CE_LEN
    SueNmMinLen,     \* SUE_NM_MIN_LEN
    RrMaxNameLen,    \* RR_MAX_NAME_LEN
    MaxSaneChainLen  \* MAX_SANE_CHAIN_LEN

ASSUME IsoAssumption ==
    /\ RecordHeader \in 1..(U8Range - 1)
    /\ U8Range < SectorSize /\ SectorSize <= CacheUnits
    /\ {SueMinLen, SueCeLen, SueNmMinLen} \subseteq Nat \ {0}

LOCAL CeilTo(a, b) == ((a + b - 1) \div b) * b
LOCAL Smaller(a, b) == IF a < b THEN a ELSE b

NoSu == 255

\* The structures on the disk: the primary descriptor, and a directory record.
Pvd == [block_size : Nat, volume_size : Nat, root : [extent : Nat, xattr : Nat, size : Nat]]
IsRecord(r) ==
    /\ {r.len, r.xattr, r.extent, r.size} \subseteq Nat /\ r.ident \in Seq(Nat)
    /\ r.flags \subseteq {"subdir", "multi", "assoc", "hidden"}

-----------------------------------------------------------------------------
(* The directory cache                                                     *)

EmptyCache == [base |-> 0, empty |-> TRUE, refs |-> 0]

\* MUTANT: only the first block is looked for in the window.
InWindow_Start(cache, base, count, cap) ==
    ~cache.empty /\ base >= cache.base /\ base < cache.base + cap

\* The blocks are all in the window.
InWindow(cache, base, count, cap) ==
    ~cache.empty /\ base >= cache.base /\ base + count <= cache.base + cap

\* block_cache_take_ref on the directory cache: the window moves when the bytes
\* are not all in it.  The BUG_ONs: no bytes, more bytes than the window has, a
\* refill under a reference.
TakeRef(cache, vol, off, n) ==
    LET base == off \div 2^vol.shift
        count == (CeilTo((off % 2^vol.shift) + n, 2^vol.shift)) \div 2^vol.shift
        cap == CacheUnits \div 2^vol.shift
        held == InWindow(cache, base, count, cap)
    IN IF n = 0 \/ count > cap \/ (~held /\ cache.refs # 0)
       THEN {[out |-> "bug", cache |-> cache, failed |-> 0]}
       ELSE IF held THEN {[out |-> "ok", cache |-> [cache EXCEPT !.refs = @ + 1], failed |-> 0]}
       ELSE {[out |-> "ok", failed |-> 0,
              cache |-> [base |-> base, empty |-> FALSE, refs |-> cache.refs + 1]],
             [out |-> "fail", cache |-> [cache EXCEPT !.empty = TRUE], failed |-> 1]}

\* dir_iter_ctx_release_ref
ReleaseRef(cache, it) == [cache EXCEPT !.refs = @ - IF it.ref THEN 1 ELSE 0]

-----------------------------------------------------------------------------
(* The records of a directory                                              *)

\* iso9660_iter_ctx_init
IsoIterInit(fs, first, size) ==
    [base |-> first * 2^fs.block_shift, cur |-> 0, size |-> size, ref |-> FALSE]

NoRecord == [len |-> 0]
RecordAt(vol, a) == IF a \in DOMAIN vol.records THEN vol.records[a] ELSE NoRecord
PaddedIdent(r) == IF Len(r.ident) % 2 = 0 THEN Len(r.ident) + 1 ELSE Len(r.ident)

\* MUTANT: the end of a sector is not skipped.
SkipTo_Stay(it, off) ==
    [it EXCEPT !.cur = IF it.size <= off \/ it.size - off < RecordHeader THEN it.size ELSE @]

\* dir_iter_ctx_skip_to
SkipTo(it, off) ==
    [it EXCEPT !.cur = IF it.size <= off \/ it.size - off < RecordHeader THEN it.size ELSE off]

\* rec_len_max: what is left of the sector, or the longest record at its start.
RoomForRecord(it) ==
    LET room == Smaller(it.size, CeilTo(it.cur, SectorSize)) - it.cur
    IN IF room = 0 THEN U8Range - 1 ELSE room

\* One turn of the loop of directory_fetch_raw_entry: a record, another turn or
\* the end.  The length of the reference passes through a u8.
RawTurn(fs, vol, it) ==
    LET cache == ReleaseRef(fs.dir_cache, it)
        free == [it EXCEPT !.ref = FALSE]
        eof == [free EXCEPT !.cur = it.size]
        aligned == CeilTo(it.cur, SectorSize)
        max == RoomForRecord(it)
        dr == RecordAt(vol, it.base + it.cur)
        Result(out, i, c, f) ==
            [out |-> out, it |-> i, fs |-> [fs EXCEPT !.dir_cache = c], dr |-> dr, failed |-> f]
        \* the end of the iteration, with the reference given back
        Eof(c) == Result("none", eof, ReleaseRef(c, [it EXCEPT !.ref = TRUE]), 0)
    IN IF it.cur = it.size THEN {Result("none", free, cache, 0)}
       ELSE IF max <= RecordHeader THEN {Result("again", SkipTo(free, aligned), cache, 0)}
       ELSE {CASE r.out = "bug" -> Result("bug", free, r.cache, 0)
               [] r.out = "fail" -> Result("none", eof, r.cache, r.failed)
               [] dr.len = 0 /\ max = U8Range - 1 -> Eof(r.cache)
               [] dr.len = 0 /\ max # U8Range - 1 ->
                    Result("again", [SkipTo(free, aligned) EXCEPT !.ref = TRUE], r.cache, 0)
               [] dr.len > max \/ (dr.len # 0 /\ dr.len < RecordHeader + PaddedIdent(dr)) ->
                    Eof(r.cache)
               [] it.size - it.cur < dr.len -> Eof(r.cache)
               [] OTHER -> Result("rec", [it EXCEPT !.cur = @ + dr.len, !.ref = TRUE], r.cache, 0)
             : r \in TakeRef(cache, vol, it.base + it.cur, max % U8Range)}

ExtentOf(r) == r.extent + r.xattr

\* get_last_multiext_block: where the next extent has to start.
LastMultiextBlock(fs, first, bytes) ==
    IF bytes % 2^fs.block_shift # 0 THEN 0 ELSE first + bytes \div 2^fs.block_shift

\* dir_read_multiext_size is entered with the first record read.
MultiextStart(fs, r) ==
    [last |-> LastMultiextBlock(fs, ExtentOf(r), r.size), read |-> 0, more |-> FALSE,
     skip |-> FALSE, size |-> r.size]

\* The rest of the chain is skipped once something is wrong with it.
Skipping(m) == m.skip \/ m.last = 0 \/ m.read = MaxSaneChainLen

\* What the loops of dir_read_multiext_size do with the next record of the chain.
MultiextRecord(fs, m, r) ==
    LET more == "multi" \in r.flags
        sized == [m EXCEPT !.size = @ + r.size, !.read = @ + 1, !.more = more]
    IN IF Skipping(m) THEN [out |-> "on", m |-> [m EXCEPT !.skip = TRUE, !.more = more]]
       ELSE IF ExtentOf(r) # m.last THEN [out |-> "on", m |-> [sized EXCEPT !.skip = TRUE]]
       ELSE IF ~more THEN [out |-> "true", m |-> sized]
       ELSE [out |-> "on", m |-> [sized EXCEPT !.last = LastMultiextBlock(fs, ExtentOf(r), r.size)]]

-----------------------------------------------------------------------------
(* System Use entries                                                      *)

\* record_get_su_area: the System Use field of a record and its length.
SuLen(r) ==
    LET n == r.len - PaddedIdent(r) - RecordHeader IN IF n < 0 THEN 0 ELSE n

\* A struct susp_iteration_ctx at the start of the field, skip units into it.
SuStart(r, skip) ==
    [inline |-> r.su, skip |-> skip, len |-> SuLen(r) - Smaller(skip, SuLen(r)),
     base |-> 0, cur |-> 0, next_off |-> 0, next_len |-> 0, in_ca |-> FALSE]
SuZero == [inline |-> <<>>, skip |-> 0, len |-> 0, base |-> 0, cur |-> 0,
           next_off |-> 0, next_len |-> 0, in_ca |-> FALSE]

NoSue == [sig |-> "??", len |-> 0]

\* susp_acquire_ref: an entry of the field, or of the area on the disk.
SueAt(vol, s) ==
    LET a == s.base + s.cur
        at == IF s.in_ca THEN a ELSE a + s.skip
        area == IF s.in_ca THEN vol.areas ELSE s.inline
    IN IF at \in DOMAIN area THEN area[at] ELSE NoSue

\* susp_switch_to_next_ca: the pending area, or the end of the iteration.
SwitchToNextCa(s) ==
    IF s.next_len = 0 THEN SuZero
    ELSE [s EXCEPT !.len = s.next_len, !.cur = 0, !.base = s.next_off,
                   !.in_ca = TRUE, !.next_off = 0, !.next_len = 0]

\* susp_handle_ce: the offset of the area is computed in a u32.
HandleCe(fs, s, e) ==
    IF e.version # 1 \/ e.len # SueCeLen THEN s
    ELSE [s EXCEPT !.next_off = ((e.block * 2^fs.block_shift) % U32Range) + e.off,
                   !.next_len = e.area]

\* do_fetch_next_su_entry: an entry, or the end of the area if the entry cannot be
\* read or does not fit.  What is too short for an entry is skipped.
FetchSue(vol, s) ==
    LET e == SueAt(vol, s)
        left == (s.len - s.cur) - e.len
        past == [s EXCEPT !.cur = IF left < SueMinLen THEN s.len ELSE @ + e.len]
        Over(n) == [ok |-> FALSE, s |-> [s EXCEPT !.cur = s.len], sue |-> e, failed |-> n]
    IN (IF s.in_ca THEN {Over(1)} ELSE {})
       \cup {IF left < 0 \/ e.len < SueMinLen THEN Over(0)
             ELSE [ok |-> TRUE, s |-> past, sue |-> e, failed |-> 0]}

\* One turn of the loop of next_su_entry: an entry for the caller, another turn,
\* or the end.  An entry that fails ends its area only.
SuTurn(fs, vol, s) ==
    LET c == IF s.cur = s.len THEN SwitchToNextCa(s) ELSE s
        Result(out, t, e, f) == [out |-> out, s |-> t, sue |-> e, failed |-> f]
    IN IF s.cur = s.len /\ s.next_len = 0 THEN {Result("end", c, NoSue, 0)}
       ELSE {CASE ~f.ok -> Result("again", f.s, f.sue, f.failed)
               [] f.ok /\ f.sue.sig = "CE" -> Result("again", HandleCe(fs, f.s, f.sue), f.sue, 0)
               [] f.ok /\ f.sue.sig = "ST" -> Result("again", SwitchToNextCa(f.s), f.sue, 0)
               [] OTHER -> Result("entry", f.s, f.sue, 0)
             : f \in FetchSue(vol, c)}

\* SUE_NM_FLAG_CONTINUE.  find_rock_ridge_name has already stepped over the fixed
\* part of the entry when it tests the flag: the bit comes from the name, as far
\* into it as the flags are into the entry.
NmContinues(e) == e.name_bit

\* What find_rock_ridge_name does with an entry: the name goes on, is complete or
\* is given up.
RockRidge(e, name) ==
    IF e.sig # "NM" THEN [out |-> "on", name |-> name]
    ELSE IF e.version # 1 \/ e.len < SueNmMinLen \/ e.dots \/ Len(name) = RrMaxNameLen
    THEN [out |-> "failed", name |-> name]
    ELSE [out |-> IF NmContinues(e) THEN "on" ELSE "done", name |-> name \o e.name]

\* record_read_identifier: the name up to its version, in lower case.
Identifier(r) ==
    LET n == Len(r.ident)
        ends == {i \in 1..n : \/ r.ident[i] = 59
                              \/ i < n /\ r.ident[i] = 46 /\ r.ident[i + 1] = 59}
        last == IF ends = {} THEN n ELSE (CHOOSE i \in ends : \A j \in ends : i <= j) - 1
    IN [i \in 1..last |-> IF r.ident[i] \in 65..90 THEN r.ident[i] + 32 ELSE r.ident[i]]

\* get_record_name: the name is known, or the System Use field is searched first.
NameSource(fs, r) ==
    CASE r.ident = <<>> -> "nameless"
      [] r.ident # <<>> /\ r.ident[1] = 0 -> "dot"
      [] r.ident # <<>> /\ r.ident[1] = 1 -> "dotdot"
      [] OTHER -> IF /\ fs.su_off # NoSu
                     /\ SuLen(r) - Smaller(fs.su_off, SuLen(r)) > SueMinLen
                  THEN "su" ELSE "identifier"

-----------------------------------------------------------------------------
(* Recognising a volume                                                    *)

\* iso9660_init before its allocations: the geometry of the primary descriptor.
IsoSane(vol) ==
    LET p == vol.pvd
        root == p.root.extent + p.root.xattr
        last == root + CeilTo(p.root.size, p.block_size) \div p.block_size
    IN /\ p.block_size \in {SectorSize, SectorSize \div 2, SectorSize \div 4}
       /\ last < p.volume_size
       /\ p.root.size # 0

IsoMount(vol) ==
    LET p == vol.pvd
    IN [kind |-> "iso", block_shift |-> CHOOSE i \in 0..12 : 2^i = p.block_size,
        root |-> p.root.extent + p.root.xattr, root_size |-> p.root.size,
        su_off |-> NoSu, dir_cache |-> EmptyCache]

\* What susp_init does with an entry of the first record of the root directory.
SuspEntry(fs, e, found) ==
    CASE e.sig = "SP" ->
           IF e.version # 1 \/ ~e.check THEN [ok |-> FALSE, fs |-> fs, found |-> found]
           ELSE [ok |-> TRUE, found |-> found \cup {"SP"},
                 fs |-> [fs EXCEPT !.su_off = IF e.skip > 200 THEN 0 ELSE e.skip]]
      [] e.sig = "ER" ->
           [ok |-> e.version = 1 /\ e.len >= e.expected, fs |-> fs, found |-> found \cup {"ER"}]
      [] OTHER -> [ok |-> TRUE, fs |-> fs, found |-> found]
=============================================================================

------------------------------ MODULE BootMedia ------------------------------
(***************************************************************************)
(* From the disks of the machine to the configuration file.  loader_entry  *)
(* runs init_all_disks (GPT, MBR and whole disk detection of every disk,   *)
(* then the network file system), fst_resolve_boot_entry and init_config,  *)
(* and afterwards resolves the paths the configuration names.  The file    *)
(* system table is a dynamic buffer that moves when it grows, and          *)
(* pxe_entry and boot_entry point into it.                                 *)
(*                                                                         *)
(* A disk is what its sectors say: the GPT entries, a function from the    *)
(* sectors that hold a partition table to the four entries of the table,   *)
(* and functions from the first block of a FAT or ISO9660 file system to   *)
(* the search paths that name a file of it.  Every read of a disk and      *)
(* every growth of the table may fail, MaxFaults times in a behaviour.     *)
(***************************************************************************)
EXTENDS PartitionTables

CONSTANTS
    Machines,        \* the machines the loader is started on
    EntriesPerGrowth,\* DYNAMIC_BUFFER_GROWTH_INCREMENT / sizeof(struct fs_entry)
    MaxFaults,       \* bound on failed reads and allocations
    Selectors        \* the path prefixes that are looked up

ASSUME BootMediaAssumption ==
    /\ EntriesPerGrowth \in Nat \ {0} /\ MaxFaults \in Nat
    /\ \A m \in Machines :
         /\ Len(m.disks) \in Nat /\ DOMAIN m.disks = 1..Len(m.disks)
         /\ \A i \in DOMAIN m.disks : DiskType(m.disks[i])

\* Configuration files are known by their number in search_paths, from 1, and
\* the firmware names a disk there is.
ASSUME SearchAssumption ==
    \A m \in Machines :
      /\ \A b \in DOMAIN m.pxe : m.pxe[b] \subseteq Nat \ {0}
      /\ \A i \in DOMAIN m.disks :
           /\ \A b \in DOMAIN m.disks[i].fat : m.disks[i].fat[b] \subseteq Nat \ {0}
           /\ \A b \in DOMAIN m.disks[i].iso : m.disks[i].iso[b] \subseteq Nat \ {0}
      /\ m.boot.type \in {"none", "PXE", "disk"}
      /\ m.boot.type = "disk" => /\ m.boot.disk \in DOMAIN m.disks
                                 /\ m.boot.partition_id \in {"none", "index", "lba"}

VARIABLES
    machine,      \* never changes
    pc,           \* where loader_entry is
    disk_index,   \* the disk init_all_disks is at, from 1
    gpt,          \* gpt_do_initialize: part_idx and the entry at current_off
    frames,       \* the activations of mbr_do_initialize, innermost last
    entry_buf,    \* the table: base (which allocation), capacity, slots
    pxe_entry, boot_entry,
    boot_dev,
    search,       \* find_config_file: the loop and its index
    origin_fs,    \* the entry the configuration was found on, and its path
    looked,       \* the last path looked up and the entry it gave
    faults, lost  \* how many operations failed, and on which disks

vars == <<machine, pc, disk_index, gpt, frames, entry_buf, pxe_entry,
          boot_entry, boot_dev, search, origin_fs, looked, faults, lost>>

NULL == [base |-> 0, slot |-> 0]
NoEntry == [entry_type |-> "none", disk |-> 0, disk_kind |-> "HD", disk_id |-> 0,
            partition_index |-> 0, disk_guid |-> NoGuid, partition_guid |-> NoGuid,
            lba |-> 0]
NoBootDevice == [type |-> "none", disk_kind |-> "HD", disk_id |-> 0,
                 partition_id |-> "none", partition |-> 0]
NoPath == [disk_id_type |-> "invalid", disk |-> 0,
           partition_id_type |-> "invalid", partition |-> 0]
NoLookup == [path |-> NoPath, entry |-> NoEntry]

Disk(i) == machine.disks[i]

\* assign_disk_ids: an index within the kind of the disk.
DiskId(i) == Cardinality({j \in 1..i-1 : Disk(j).kind = Disk(i).kind})

\* The entry a pointer into the table points to.
Deref(p) == entry_buf.slots[p.slot]
PointerTo(slot) == [base |-> entry_buf.base, slot |-> slot]

\* The search paths that name a file of the file system of an entry.
FilesOf(e) ==
    CASE e.entry_type = "PXE" -> machine.pxe[0]
      [] e.entry_type = "RAW" /\ 0 \in DOMAIN Disk(e.disk).iso -> Disk(e.disk).iso[0]
      [] OTHER -> Disk(e.disk).fat[e.lba]

Init ==
    /\ machine \in Machines
    /\ pc = "disk"
    /\ disk_index = 1
    /\ gpt = [part_idx |-> 0, off |-> 0]
    /\ frames = <<>>
    /\ entry_buf = [base |-> 0, capacity |-> 0, slots |-> <<>>]
    /\ pxe_entry = NULL
    /\ boot_entry = NULL
    /\ boot_dev = NoBootDevice
    /\ search = [loop |-> "boot", i |-> 1]
    /\ origin_fs = [entry |-> NoEntry, path |-> 0]
    /\ looked = NoLookup
    /\ faults = 0
    /\ lost = {}

\* An operation that fails n times (0 or 1), if that many failures are left.
Fails(n) ==
    /\ faults + n <= MaxFaults
    /\ faults' = faults + n
    /\ lost' = IF n = 0 THEN lost ELSE lost \cup {disk_index}

searchVars == <<pxe_entry, boot_entry, boot_dev, search, origin_fs, looked>>

-----------------------------------------------------------------------------
(* The file system table                                                   *)

\* dynamic_buffer_grow: a new allocation takes the place of the old one.
Grown(buf) == [buf EXCEPT !.base = @ + 1, !.capacity = @ + EntriesPerGrowth]

\* dynamic_buffer_slot_alloc and the assignment to the slot: the table, and
\* whether the growth it needed failed.
AddEntry(fse) ==
    LET full == Len(entry_buf.slots) = entry_buf.capacity
        buf == IF full THEN Grown(entry_buf) ELSE entry_buf
    IN
    {[buf |-> [buf EXCEPT !.slots = Append(@, fse)], failed |-> 0]}
        \cup (IF full THEN {[buf |-> entry_buf, failed |-> 1]} ELSE {})

\* fst_add_raw_fs_entry, fst_add_mbr_fs_entry, fst_add_gpt_fs_entry
fst_entry(type, index, disk_guid, partition_guid, lba) ==
    [entry_type |-> type, disk |-> disk_index, disk_kind |-> Disk(disk_index).kind,
     disk_id |-> DiskId(disk_index), partition_index |-> index,
     disk_guid |-> disk_guid, partition_guid |-> partition_guid, lba |-> lba]

\* fs_do_detect with one kind of file system: there is one and it is added,
\* unless a read or the growth of the table fails; or there is none.
Detect(fs, lba, fse) ==
    IF lba \in DOMAIN fs
    THEN \/ \E r \in AddEntry(fse) : entry_buf' = r.buf /\ Fails(r.failed)
         \/ UNCHANGED entry_buf /\ Fails(1)
    ELSE UNCHANGED entry_buf /\ Fails(0)

-----------------------------------------------------------------------------
(* Partition tables                                                        *)

\* fs_detect_all begins: the first block has to be readable for the partition
\* tables to be looked at.
BeginDisk ==
    /\ pc = "disk"
    /\ disk_index <= Len(machine.disks)
    /\ \/ pc' = "gpt_signature" /\ Fails(0)
       \/ pc' = "cd" /\ Fails(1)
    /\ UNCHANGED <<machine, disk_index, gpt, frames, entry_buf, searchVars>>

\* gpt_initialize, and gpt_do_initialize up to its loop.  A header whose entries
\* are too small is treated like one that cannot be read.
GptInitialize ==
    /\ pc = "gpt_signature"
    /\ \/ pc' = (IF Disk(disk_index).gpt = <<>> THEN "mbr_signature" ELSE "gpt") /\ Fails(0)
       \/ pc' = "mbr_signature" /\ Fails(1)
       \/ pc' = "cd" /\ Disk(disk_index).gpt # <<>> /\ Fails(1)
    /\ gpt' = [part_idx |-> 0, off |-> 0]
    /\ UNCHANGED <<machine, disk_index, frames, entry_buf, searchVars>>

\* MUTANT: only used entries are counted.
NextEntry_Used(g, pe) == [part_idx |-> g.part_idx + (IF pe.used THEN 1 ELSE 0), off |-> g.off + 1]

\* After an entry that could be read.
NextEntry(g, pe) == [part_idx |-> g.part_idx + 1, off |-> g.off + 1]

\* The loop of gpt_do_initialize: an entry that cannot be read is skipped, but
\* current_off stays where it is.
GptPartition ==
    LET pe == Disk(disk_index).gpt[gpt.off + 1] IN
    /\ pc = "gpt"
    /\ gpt.part_idx < Len(Disk(disk_index).gpt)
    /\ \/ /\ gpt' = [gpt EXCEPT !.part_idx = @ + 1]
          /\ UNCHANGED entry_buf
          /\ Fails(1)
       \/ /\ gpt' = NextEntry(gpt, pe)
          /\ IF pe.used
             THEN Detect(Disk(disk_index).fat, pe.start,
                         fst_entry("GPT", gpt.part_idx, Disk(disk_index).guid, pe.guid, pe.start))
             ELSE UNCHANGED entry_buf /\ Fails(0)
    /\ UNCHANGED <<machine, pc, disk_index, frames, searchVars>>

GptDone ==
    /\ pc = "gpt"
    /\ gpt.part_idx = Len(Disk(disk_index).gpt)
    /\ pc' = "cd"
    /\ UNCHANGED <<machine, disk_index, gpt, frames, entry_buf, searchVars, faults, lost>>

\* The partition table of a sector.  A sector that holds none reads as zeroes.
Table(sector) ==
    IF sector \in DOMAIN Disk(disk_index).mbr
    THEN Disk(disk_index).mbr[sector]
    ELSE [i \in 1..4 |-> [type |-> "empty", first |-> 0]]

\* mbr_initialize
MbrInitialize ==
    /\ pc = "mbr_signature"
    /\ \/ /\ 0 \in DOMAIN Disk(disk_index).mbr
          /\ pc' = "mbr"
          /\ frames' = <<Frame(0, 0)>>
          /\ Fails(0)
       \/ /\ 0 \notin DOMAIN Disk(disk_index).mbr
          /\ pc' = "cd"
          /\ UNCHANGED frames
          /\ Fails(0)
       \/ pc' = "cd" /\ UNCHANGED frames /\ Fails(1)
    /\ UNCHANGED <<machine, disk_index, gpt, entry_buf, searchVars>>

\* The loop of mbr_do_initialize.
MbrPartition ==
    LET f == Last(frames)
        p == Table(f.sector)[f.i + 1]
        real_partition_offset == f.sector + p.first
        next == [frames EXCEPT ![Len(frames)] = Advanced(f)]
        Break == frames' = Front(frames) /\ UNCHANGED entry_buf /\ Fails(0)
    IN
    /\ pc = "mbr"
    /\ frames # <<>>
    /\ f.i < max_partitions(f)
    /\ CASE p.type = "empty" -> frames' = next /\ UNCHANGED entry_buf /\ Fails(0)
         [] p.type = "ebr" /\ is_ebr(f) /\ f.i = 0 -> Break
         [] p.type = "ebr" /\ ~(is_ebr(f) /\ f.i = 0) ->
              /\ \/ /\ frames' = Append(next, Frame(NestedBase(f), real_partition_offset))
                    /\ Fails(0)
                 \/ frames' = next /\ Fails(1)
              /\ UNCHANGED entry_buf
         [] p.type = "data" /\ is_ebr(f) /\ f.i = 1 -> Break
         [] p.type = "data" /\ ~(is_ebr(f) /\ f.i = 1) ->
              /\ frames' = next
              /\ Detect(Disk(disk_index).fat, real_partition_offset,
                        fst_entry("MBR", f.base + f.i, NoGuid, NoGuid, real_partition_offset))
    /\ UNCHANGED <<machine, pc, disk_index, gpt, searchVars>>

MbrReturn ==
    /\ pc = "mbr"
    /\ frames # <<>> => Last(frames).i = max_partitions(Last(frames))
    /\ IF frames = <<>>
       THEN pc' = "cd" /\ UNCHANGED frames
       ELSE frames' = Front(frames) /\ UNCHANGED pc
    /\ UNCHANGED <<machine, disk_index, gpt, entry_buf, searchVars, faults, lost>>

-----------------------------------------------------------------------------
(* Whole disks and the network                                             *)

RawEntry == fst_entry("RAW", 0, NoGuid, NoGuid, 0)

\* detect_cd; detect_raw only follows when it finds nothing.  An ISO9660 file
\* system whose entry the table has no room for still counts as found.
DetectCd ==
    /\ pc = "cd"
    /\ IF 0 \in DOMAIN Disk(disk_index).iso
       THEN \/ \E r \in AddEntry(RawEntry) :
                 entry_buf' = r.buf /\ Fails(r.failed) /\ pc' = "next_disk"
            \/ UNCHANGED entry_buf /\ Fails(1) /\ pc' = "raw"
       ELSE UNCHANGED entry_buf /\ Fails(0) /\ pc' = "raw"
    /\ UNCHANGED <<machine, disk_index, gpt, frames, searchVars>>

DetectRaw ==
    /\ pc = "raw"
    /\ Detect(Disk(disk_index).fat, 0, RawEntry)
    /\ pc' = "next_disk"
    /\ UNCHANGED <<machine, disk_index, gpt, frames, searchVars>>

NextDisk ==
    /\ pc = "next_disk"
    /\ disk_index' = disk_index + 1
    /\ pc' = "disk"
    /\ UNCHANGED <<machine, gpt, frames, entry_buf, searchVars, faults, lost>>

\* MUTANT: the slot is located before the table grows.
NewestSlot_BeforeGrowth(old, new) == [base |-> old.base, slot |-> Len(new.slots)]

\* The pointer dynamic_buffer_slot_alloc returns.
NewestSlot(old, new) == [base |-> new.base, slot |-> Len(new.slots)]

\* fs_detect_pxe and fst_add_pxe_fs_entry, after the last disk.
DetectPxe ==
    /\ pc = "disk"
    /\ disk_index > Len(machine.disks)
    /\ IF 0 \in DOMAIN machine.pxe
       THEN \/ \E r \in AddEntry([NoEntry EXCEPT !.entry_type = "PXE"]) :
                 /\ entry_buf' = r.buf
                 /\ pxe_entry' = IF r.failed = 1 THEN pxe_entry
                                 ELSE NewestSlot(entry_buf, r.buf)
                 /\ Fails(r.failed)
            \/ UNCHANGED <<entry_buf, pxe_entry>> /\ Fails(1)
       ELSE UNCHANGED <<entry_buf, pxe_entry>> /\ Fails(0)
    /\ pc' = "resolve"
    /\ UNCHANGED <<machine, disk_index, gpt, frames, boot_entry, boot_dev, search,
                   origin_fs, looked>>

-----------------------------------------------------------------------------
(* The boot device and the configuration file                              *)

mediaVars == <<machine, disk_index, gpt, frames, entry_buf, pxe_entry>>

\* ds_query_boot_device: the firmware names no device, the network, or a disk
\* with the index (BIOS) or the first block (UEFI) of a partition, or neither.
ds_query_boot_device ==
    LET b == machine.boot IN
    CASE b.type = "none" -> NoBootDevice
      [] b.type = "PXE" -> [NoBootDevice EXCEPT !.type = "PXE"]
      [] b.type = "disk" ->
           [type |-> "disk", disk_kind |-> Disk(b.disk).kind, disk_id |-> DiskId(b.disk),
            partition_id |-> b.partition_id, partition |-> b.partition]

OnBootDisk(e, dev) ==
    /\ e.entry_type # "PXE"
    /\ e.disk_id = dev.disk_id
    /\ e.disk_kind = dev.disk_kind

IsBootPartition(e, dev) ==
    /\ OnBootDisk(e, dev)
    /\ CASE dev.partition_id = "index" -> e.partition_index = dev.partition
         [] dev.partition_id = "lba" -> e.lba = dev.partition

\* The first slot of the table with the property P, or 0.
FirstSlot(P(_)) ==
    LET found == {s \in 1..Len(entry_buf.slots) : P(entry_buf.slots[s])}
    IN IF found # {} THEN Min(found) ELSE 0

\* fst_resolve_boot_entry
fst_resolve_boot_entry ==
    LET dev == ds_query_boot_device
        Boot(e) == IsBootPartition(e, dev)
    IN
    /\ pc = "resolve"
    /\ boot_dev' = dev
    /\ boot_entry' =
         IF dev.type = "PXE" THEN pxe_entry
         ELSE IF dev.type = "none" \/ dev.partition_id = "none" \/ FirstSlot(Boot) = 0 THEN NULL
         ELSE PointerTo(FirstSlot(Boot))
    /\ pc' = "search"
    /\ UNCHANGED <<mediaVars, search, origin_fs, looked, faults, lost>>

fst_entry_on_boot_device(e) ==
    CASE boot_dev.type = "none" -> FALSE
      [] boot_dev.type = "PXE" -> e.entry_type = "PXE"
      [] boot_dev.type = "disk" -> OnBootDisk(e, boot_dev)

\* config_from_entry: the first of search_paths that opens, which is later than
\* the first there is (or none) when reads fail.
config_from_entry(e, failed) ==
    LET there == FilesOf(e) IN
    IF failed = 1 THEN {0} \cup there
    ELSE IF there = {} THEN {0}
    ELSE {CHOOSE j \in there : \A k \in there : j <= k}

\* MUTANT: after the boot partition every file system is searched.
LoopAfter_NoDevice(loop) == CASE loop = "boot" -> "all" [] OTHER -> "none"

\* The loops of find_config_file, in their order.
LoopAfter(loop) ==
    CASE loop = "boot" -> "device" [] loop = "device" -> "all" [] OTHER -> "none"

\* The slots a loop of find_config_file probes.
Probed(loop) ==
    {s \in 1..Len(entry_buf.slots) :
       CASE loop = "boot" -> PointerTo(s) = boot_entry
         [] loop = "device" -> /\ PointerTo(s) # boot_entry
                               /\ fst_entry_on_boot_device(entry_buf.slots[s])
         [] OTHER -> TRUE}

\* One probe of find_config_file; the file it opens ends the search, and its
\* entry becomes the origin.
Probe ==
    /\ pc = "search"
    /\ search.i <= Len(entry_buf.slots)
    /\ IF search.i \in Probed(search.loop)
       THEN \E n \in {0, 1} :
              \E j \in config_from_entry(entry_buf.slots[search.i], n) :
                /\ Fails(n)
                /\ origin_fs' = IF j = 0 THEN origin_fs
                                ELSE [entry |-> entry_buf.slots[search.i], path |-> j]
                /\ pc' = IF j = 0 THEN "search" ELSE "load"
       ELSE UNCHANGED <<origin_fs, pc, faults, lost>>
    /\ search' = [search EXCEPT !.i = @ + 1]
    /\ UNCHANGED <<mediaVars, boot_entry, boot_dev, looked>>

\* The end of a loop of find_config_file; after the last one init_config stops
\* the machine.
NextLoop ==
    /\ pc = "search"
    /\ search.i > Len(entry_buf.slots)
    /\ search' = [loop |-> LoopAfter(search.loop), i |-> 1]
    /\ pc' = IF LoopAfter(search.loop) = "none" THEN "oops" ELSE "search"
    /\ UNCHANGED <<mediaVars, boot_entry, boot_dev, origin_fs, looked, faults, lost>>

\* init_config reads the file, or stops the machine.
ReadConfig ==
    /\ pc = "load"
    /\ \/ pc' = "loaded" /\ Fails(0)
       \/ pc' = "oops" /\ Fails(1)
    /\ UNCHANGED <<mediaVars, boot_entry, boot_dev, search, origin_fs, looked>>

-----------------------------------------------------------------------------
(* Paths                                                                   *)

\* path_parse of a prefix: a disk part ("", "PXE", "HD", "CD" or "DISKUUID" and
\* its number) and a partition part ("", "PART" or "PARTUUID" and its number).
\* The text of the numbers and of the rest of the path is left out.
path_parse(s) ==
    LET part == CASE s.part = "PARTUUID" -> "uuid" [] s.part = "PART" -> "index"
                  [] s.part = "" -> IF s.disk \in {"HD", "CD"} THEN "raw" ELSE "invalid"
        Path(d, p) == [disk_id_type |-> d, disk |-> s.n, partition_id_type |-> p,
                       partition |-> s.m]
    IN
    CASE s.disk = "" /\ s.part = "" -> Path("origin", "origin")
      [] s.disk = "PXE" -> IF s.part = "" THEN Path("PXE", "raw") ELSE NoPath
      [] s.disk = "" /\ s.part # "" -> IF part = "uuid" THEN Path("any", part) ELSE NoPath
      [] s.disk \in {"HD", "CD", "DISKUUID"} ->
           IF part = "invalid" THEN NoPath ELSE Path(s.disk, part)

\* MUTANT: the whole disk also answers for its partition 0.
PartitionMatches_Raw(e, path) ==
    CASE path.partition_id_type = "raw" -> e.entry_type = "RAW"
      [] path.partition_id_type = "index" -> e.partition_index = path.partition
      [] OTHER -> e.partition_guid = path.partition

PartitionMatches(e, path) ==
    CASE path.partition_id_type = "raw" -> e.entry_type = "RAW"
      [] path.partition_id_type = "index" ->
           e.entry_type # "RAW" /\ e.partition_index = path.partition
      [] OTHER -> e.entry_type # "RAW" /\ e.partition_guid = path.partition

DiskMatches(e, path) ==
    CASE path.disk_id_type \in {"HD", "CD"} ->
           e.disk_id = path.disk /\ e.disk_kind = path.disk_id_type
      [] path.disk_id_type = "DISKUUID" -> e.disk_guid = path.disk
      [] OTHER -> TRUE

\* fst_fs_by_full_path of a path that path_parse accepted.
fst_fs_by_full_path(path) ==
    LET Match(e) == /\ e.entry_type # "PXE"
                    /\ DiskMatches(e, path)
                    /\ PartitionMatches(e, path)
    IN
    CASE path.disk_id_type = "invalid" -> NoEntry
      [] path.disk_id_type = "PXE" -> IF pxe_entry = NULL THEN NoEntry ELSE Deref(pxe_entry)
      [] path.disk_id_type = "origin" -> origin_fs.entry
      [] OTHER -> IF FirstSlot(Match) = 0 THEN NoEntry ELSE entry_buf.slots[FirstSlot(Match)]

\* A path of the configuration is looked up.
LookUp ==
    /\ pc = "loaded"
    /\ \E s \in Selectors :
         looked' = [path |-> path_parse(s), entry |-> fst_fs_by_full_path(path_parse(s))]
    /\ UNCHANGED <<mediaVars, pc, boot_entry, boot_dev, search, origin_fs, faults, lost>>

Stopped == pc = "oops" /\ UNCHANGED vars

Step == \/ BeginDisk \/ GptInitialize \/ GptPartition \/ GptDone
        \/ MbrInitialize \/ MbrPartition \/ MbrReturn
        \/ DetectCd \/ DetectRaw \/ NextDisk \/ DetectPxe
        \/ fst_resolve_boot_entry \/ Probe \/ NextLoop \/ ReadConfig

Next == Step \/ LookUp \/ Stopped

\* Loader code runs to completion: every step that can be taken is taken.
Spec == Init /\ [][Next]_vars /\ WF_vars(Step)

-----------------------------------------------------------------------------
(* What the machine holds, read off its disks by the rules of the formats  *)

WellFormedMachines == \A m \in Machines : \A i \in DOMAIN m.disks : WellFormed(m.disks[i])

RawAt == [entry_type |-> "RAW", index |-> 0, lba |-> 0, guid |-> NoGuid]
PxeAt == [entry_type |-> "PXE", index |-> 0, lba |-> 0, guid |-> NoGuid]

OnPartitions ==
    UNION {[disk : {i}, at : {q \in Partitions(Disk(i)) : q.lba \in DOMAIN Disk(i).fat}] :
             i \in DOMAIN machine.disks}
OnWholeDisks ==
    UNION {[disk : {i}, at : {RawAt}] :
             i \in {i \in DOMAIN machine.disks :
                      0 \in DOMAIN Disk(i).fat \cup DOMAIN Disk(i).iso}}
OnNetwork == IF 0 \in DOMAIN machine.pxe THEN {[disk |-> 0, at |-> PxeAt]} ELSE {}

\* The file systems there are, with the disk each is on (0 is the network).
Present == OnPartitions \cup OnWholeDisks \cup OnNetwork

\* An entry of the table as one of these.
Location(e) ==
    [disk |-> e.disk, at |-> [entry_type |-> e.entry_type, index |-> e.partition_index,
                              lba |-> e.lba, guid |-> e.partition_guid]]

ConfigsOf(l) == FilesOf([entry_type |-> l.at.entry_type, disk |-> l.disk, lba |-> l.at.lba])

Detected == pc \in {"resolve", "search", "load", "loaded", "oops"}

-----------------------------------------------------------------------------
(* Properties                                                              *)

\* When nothing fails, detection puts every file system of every disk in the
\* table exactly once, with the index and GUID its partition table gives it.
TableIsExact ==
    Detected /\ faults = 0 =>
      /\ {Location(e) : e \in Range(entry_buf.slots)} = Present
      /\ Len(entry_buf.slots) = Cardinality(Present)

\* Failed reads and allocations only leave entries out: what is in the table is
\* a file system of the disk it names, at the index it names.  Only the indexes
\* of a GPT disk with a failed read are excepted (gpt_do_initialize counts an
\* unreadable entry without passing over it); its GUIDs are right all the same.
EntriesAreReal ==
    \A e \in Range(entry_buf.slots) :
      \E l \in Present :
        /\ l.disk = e.disk
        /\ IF e.entry_type = "GPT" /\ e.disk \in lost
           THEN l.at.guid = e.partition_guid /\ l.at.lba = e.lba
           ELSE l = Location(e)

\* The pointers the table's users keep, pxe_entry and boot_entry, point into the
\* allocation the table is in, whatever growth came between.
PointersAreLive ==
    \A p \in {pxe_entry, boot_entry} \ {NULL} :
      p.base = entry_buf.base /\ p.slot \in 1..Len(entry_buf.slots)

\* The order of the search as README.md gives it: the partition the loader was
\* booted from, the boot disk (or the network), everything else.
Preference(l) ==
    LET b == machine.boot IN
    CASE b.type = "PXE" -> IF l.at.entry_type = "PXE" THEN 0 ELSE 2
      [] b.type = "disk" ->
           IF l.disk # b.disk THEN 2
           ELSE IF /\ l.at.entry_type # "RAW"
                   /\ \/ b.partition_id = "index" /\ b.partition = l.at.index
                      \/ b.partition_id = "lba" /\ b.partition = l.at.lba
           THEN 0 ELSE 1
      [] OTHER -> 2

\* When nothing fails, find_config_file takes a configuration of the most
\* preferred file system that has one, at the first of search_paths; init_config
\* only gives up when no file system of the machine has any.
ConfigByPreference ==
    faults = 0 =>
      /\ pc \in {"load", "loaded"} =>
           LET l == Location(origin_fs.entry) IN
           /\ l \in Present
           /\ origin_fs.path \in ConfigsOf(l)
           /\ \A j \in ConfigsOf(l) : origin_fs.path <= j
           /\ \A m \in Present : ConfigsOf(m) # {} => Preference(l) <= Preference(m)
      /\ pc = "oops" => \A m \in Present : ConfigsOf(m) = {}

\* The file systems a path prefix names, as README.md describes the prefixes.
Named(path) ==
    {l \in Present :
       /\ CASE path.disk_id_type \in {"HD", "CD"} ->
                 /\ l.disk # 0
                 /\ Disk(l.disk).kind = path.disk_id_type
                 /\ path.disk = Cardinality({j \in 1..l.disk - 1 :
                                               Disk(j).kind = path.disk_id_type})
            [] path.disk_id_type = "DISKUUID" ->
                 l.at.entry_type = "GPT" /\ Disk(l.disk).guid = path.disk
            [] path.disk_id_type = "PXE" -> l.disk = 0
            [] path.disk_id_type = "origin" -> l = Location(origin_fs.entry)
            [] path.disk_id_type = "any" -> l.at.entry_type = "GPT"
       /\ CASE path.partition_id_type = "raw" -> l.at.entry_type \in {"RAW", "PXE"}
            [] path.partition_id_type = "index" ->
                 l.at.entry_type \in {"MBR", "GPT"} /\ l.at.index = path.partition
            [] path.partition_id_type = "uuid" ->
                 l.at.entry_type = "GPT" /\ l.at.guid = path.partition
            [] OTHER -> TRUE}

\* When nothing fails, a prefix that names exactly one file system of the machine
\* leads to it, and one that names none leads nowhere: fst_fs_by_full_path never
\* confuses disks of two kinds, a whole disk and its first partition, or the
\* network and a disk.
PathsLeadWhereTheySay ==
    faults = 0 /\ looked.path.disk_id_type # "invalid" =>
      \/ Named(looked.path) = {Location(looked.entry)}
      \/ Named(looked.path) = {} /\ looked.entry = NoEntry

\* Detection and search come to an end: the configuration is loaded or the
\* machine is stopped.
SearchEnds == <>(pc \in {"loaded", "oops"})
=============================================================================

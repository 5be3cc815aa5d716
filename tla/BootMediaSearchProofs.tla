------------------------ MODULE BootMediaSearchProofs ------------------------
(***************************************************************************)
(* The proof that the search for the configuration keeps the order of      *)
(* preference: the boot partition, the boot device, everything else.       *)
(***************************************************************************)
EXTENDS BootMediaTableProofs

-----------------------------------------------------------------------------
(* What the entries say of their disks, and their order                    *)

\* The entries of a disk carry its kind and number, the one of the network no disk.
OfDisk(e, i) ==
    /\ e.entry_type \in {"GPT", "MBR", "RAW"}
    /\ e.disk = i /\ e.disk_kind = Disk(i).kind /\ e.disk_id = DiskId(i)
OfNetwork(e) == e.entry_type = "PXE" /\ e.disk = 0
KnowsDisk(e) == OfNetwork(e) \/ \E i \in DOMAIN machine.disks : OfDisk(e, i)

\* The file system of a whole disk is the last one of that disk.
RawIsPast(e) ==
    e.entry_type = "RAW" =>
      /\ pc = "next_disk" => e.disk <= disk_index
      /\ pc \in Detecting \ {"next_disk"} => e.disk < disk_index
RawIsLast(slots) ==
    \A s, t \in 1..Len(slots) :
      s < t /\ slots[s].entry_type = "RAW" => slots[t].disk # slots[s].disk

PxeKnown == pxe_entry # NULL => Deref(pxe_entry).entry_type = "PXE"

OrderInv ==
    /\ \A s \in 1..Len(entry_buf.slots) :
         KnowsDisk(entry_buf.slots[s]) /\ RawIsPast(entry_buf.slots[s])
    /\ RawIsLast(entry_buf.slots)
    /\ PxeKnown

LEMMA EntryOfDisk ==
    ASSUME NEW type \in {"GPT", "MBR", "RAW"}, NEW index, NEW dguid, NEW pguid, NEW lba,
           NEW e, e = fst_entry(type, index, dguid, pguid, lba)
    PROVE  OfDisk(e, disk_index) /\ e.entry_type = type
BY DEF fst_entry, OfDisk

\* How a step of detection changes the table: not at all, or by one entry of the
\* disk it is on, and after the file system of the whole disk comes the next disk.
TableMoves ==
    \/ UNCHANGED <<entry_buf, disk_index>> /\ pc # "next_disk"
    \/ UNCHANGED entry_buf /\ pc = "next_disk" /\ pc' = "disk" /\ disk_index' = disk_index + 1
    \/ /\ UNCHANGED disk_index /\ pc \in OnDisk \ {"next_disk"}
       /\ \E e : /\ Added(e) /\ OfDisk(e, disk_index)
                 /\ e.entry_type = "RAW" => pc' = "next_disk"

LEMMA DetectionMoves ==
    ASSUME WellFormedMachines, MediaTypeOK, WalkInv, DiskStep
    PROVE  TableMoves
<1>1. BufferType(entry_buf)
  BY DEF MediaTypeOK
<1>2. CASE BeginDisk \/ GptInitialize \/ GptDone \/ MbrInitialize \/ MbrReturn \/ NextDisk
  BY <1>2 DEF BeginDisk, GptInitialize, GptDone, MbrInitialize, MbrReturn, NextDisk, TableMoves
<1>3. ASSUME NEW fs, NEW lba, NEW e, Detect(fs, lba, e)
      PROVE  UNCHANGED entry_buf \/ Added(e)
  BY <1>1, <1>3, DetectEffect
<1>4. CASE GptPartition
  <2>1. PICK d, k : AtGptEntry(d, k)
    BY Zenon DEF AtGptEntry
  <2>2. UNCHANGED entry_buf \/ Added(GptFse(d, k))
    BY <1>3, <1>4, <2>1 DEF GptPartition, AtGptEntry, GptFse
  <2>3. PICK e : e = GptFse(d, k)
    BY Zenon
  <2>4. OfDisk(e, disk_index) /\ e.entry_type = "GPT"
    BY <2>3, EntryOfDisk DEF GptFse
  <2>5. UNCHANGED disk_index /\ pc = "gpt"
    BY <1>4 DEF GptPartition
  <2> QED BY <2>2, <2>3, <2>4, <2>5 DEF TableMoves, OnDisk
<1>5. CASE MbrPartition
  <2>1. PICK d, n, f, p : AtEntry(d, n, f, p)
    BY Zenon DEF AtEntry
  <2>2. PICK next : next = [frames EXCEPT ![n] = Advanced(f)]
    BY Zenon
  <2>3. MbrMoves(d, n, f, p, next)
    BY <1>5, <2>1, <2>2, MbrMove, Zenon DEF WalkInv
  <2>4. UNCHANGED entry_buf \/ Added(MbrFse(f, p))
    BY <1>3, <2>3 DEF MbrMoves, MbrFse
  <2>5. PICK e : e = MbrFse(f, p)
    BY Zenon
  <2>6. OfDisk(e, disk_index) /\ e.entry_type = "MBR"
    BY <2>5, EntryOfDisk DEF MbrFse
  <2>7. UNCHANGED disk_index /\ pc = "mbr"
    BY <1>5 DEF MbrPartition
  <2> QED BY <2>4, <2>5, <2>6, <2>7 DEF TableMoves, OnDisk
<1>6. PICK e : e = RawEntry
  BY Zenon
<1>7. OfDisk(e, disk_index)
  BY <1>6, EntryOfDisk DEF RawEntry
<1>8. CASE DetectCd
  <2>1. UNCHANGED disk_index /\ pc = "cd"
    BY <1>8 DEF DetectCd
  <2>2. \/ UNCHANGED entry_buf
        \/ \E r \in AddEntry(e) : entry_buf' = r.buf /\ pc' = "next_disk"
    BY <1>6, <1>8 DEF DetectCd
  <2>3. ASSUME NEW r \in AddEntry(e), entry_buf' = r.buf
        PROVE  UNCHANGED entry_buf \/ Added(e)
    BY <1>1, <2>3, EntryAdded DEF Added
  <2> QED BY <1>7, <2>1, <2>2, <2>3 DEF TableMoves, OnDisk
<1>9. CASE DetectRaw
  <2>1. UNCHANGED disk_index /\ pc = "raw" /\ pc' = "next_disk"
    BY <1>9 DEF DetectRaw
  <2>2. UNCHANGED entry_buf \/ Added(e)
    BY <1>3, <1>6, <1>9 DEF DetectRaw
  <2> QED BY <1>7, <2>1, <2>2 DEF TableMoves, OnDisk
<1> QED BY <1>2, <1>4, <1>5, <1>8, <1>9 DEF DiskStep

\* One more entry in the table.
LEMMA AddedSlots ==
    ASSUME BufferType(entry_buf), NEW e, Added(e)
    PROVE  /\ Len(entry_buf.slots) \in Nat
           /\ Len(entry_buf'.slots) = Len(entry_buf.slots) + 1
           /\ \A s \in 1..Len(entry_buf.slots) : entry_buf'.slots[s] = entry_buf.slots[s]
           /\ entry_buf'.slots[Len(entry_buf.slots) + 1] = e
<1>1. PICK b : b = entry_buf.slots
  BY Zenon
<1>2. entry_buf'.slots = Append(b, e) /\ IsSequence(b)
  BY <1>1 DEF Added, BufferType
<1>3. PICK S : S = Range(b) \cup {e}
  BY Zenon
<1>4. b \in Seq(S) /\ e \in S
  BY <1>2, <1>3, SeqMonotonic DEF IsSequence
<1>5. /\ Len(b) \in Nat
      /\ Len(Append(b, e)) = Len(b) + 1
      /\ \A s \in 1..Len(b) : Append(b, e)[s] = b[s]
      /\ Append(b, e)[Len(b) + 1] = e
  BY <1>4, AppendProperties, LenProperties
<1> QED BY <1>1, <1>2, <1>5

LEMMA DiskSame ==
    ASSUME UNCHANGED machine
    PROVE  /\ \A i : Disk(i)' = Disk(i) /\ DiskId(i)' = DiskId(i)
           /\ \A e : KnowsDisk(e)' <=> KnowsDisk(e)
<1>1. \A i : Disk(i)' = Disk(i) /\ DiskId(i)' = DiskId(i)
  BY DEF Disk, DiskId
<1> QED BY <1>1 DEF KnowsDisk, OfDisk, OfNetwork

LEMMA OrderInitInv == Init => OrderInv
<1> SUFFICES ASSUME Init PROVE OrderInv
  OBVIOUS
<1>1. Len(entry_buf.slots) = 0 /\ pxe_entry = NULL
  BY DEF Init
<1>2. 1..Len(entry_buf.slots) = {}
  BY <1>1
<1> QED BY <1>1, <1>2 DEF OrderInv, RawIsLast, PxeKnown

\* An entry of the disk detection is on, or of the network, comes after the
\* whole-disk entries of the disks before.
LEMMA OrderAdded ==
    ASSUME MediaTypeOK, OrderInv, UNCHANGED machine, NEW e, Added(e), KnowsDisk(e),
           \A s \in 1..Len(entry_buf.slots) :
             /\ entry_buf.slots[s].entry_type = "RAW" => e.disk # entry_buf.slots[s].disk
             /\ RawIsPast(entry_buf.slots[s])',
           RawIsPast(e)', PxeKnown'
    PROVE  OrderInv'
<1>1. PICK b, c, n : b = entry_buf.slots /\ c = entry_buf'.slots /\ n = Len(b)
  BY Zenon
<1>2. /\ n \in Nat /\ Len(c) = n + 1
      /\ \A s \in 1..n : c[s] = b[s]
      /\ c[n + 1] = e
  BY <1>1, AddedSlots DEF MediaTypeOK
<1>3. ASSUME NEW s \in 1..Len(c) PROVE s = n + 1 \/ s \in 1..n
  BY <1>2
<1>4. ASSUME NEW s \in 1..Len(c) PROVE KnowsDisk(c[s])' /\ RawIsPast(c[s])'
  <2>1. CASE s = n + 1
    BY <1>2, <2>1, DiskSame
  <2>2. CASE s \in 1..n
    BY <1>1, <1>2, <2>2, DiskSame DEF OrderInv
  <2> QED BY <1>3, <2>1, <2>2
<1>5. ASSUME NEW s \in 1..Len(c), NEW t \in 1..Len(c), s < t, c[s].entry_type = "RAW"
      PROVE  c[t].disk # c[s].disk
  <2>1. s \in 1..n
    BY <1>2, <1>5
  <2>2. CASE t = n + 1
    BY <1>1, <1>2, <2>1, <2>2, <1>5
  <2>3. CASE t \in 1..n
    BY <1>1, <1>2, <1>5, <2>1, <2>3 DEF OrderInv, RawIsLast
  <2> QED BY <1>3, <2>2, <2>3
<1>6. RawIsLast(c)
  BY <1>5 DEF RawIsLast
<1> QED BY <1>1, <1>4, <1>6 DEF OrderInv

LEMMA RawOnDisk ==
    ASSUME MediaTypeOK, NEW e, KnowsDisk(e), e.entry_type = "RAW"
    PROVE  e.disk \in Nat \ {0}
<1>1. PICK i \in DOMAIN machine.disks : e.disk = i
  BY DEF KnowsDisk, OfDisk, OfNetwork
<1>2. DOMAIN machine.disks = 1..Len(machine.disks) /\ Len(machine.disks) \in Nat
  BY BootMediaAssumption DEF MediaTypeOK
<1> QED BY <1>1, <1>2

LEMMA OrderDiskStep ==
    ASSUME WellFormedMachines, PointerInv, WalkInv, OrderInv, DiskStep
    PROVE  OrderInv'
<1>1. /\ MediaTypeOK /\ MediaTypeOK' /\ pc \in Detecting /\ pc' \in Detecting
      /\ UNCHANGED <<machine, pxe_entry>> /\ pxe_entry = NULL
      /\ disk_index \in Nat
  BY DiskStepTypes DEF PointerInv, PointersAreLate, searchVars, MediaTypeOK
<1>2. PxeKnown'
  BY <1>1 DEF PxeKnown
<1>3. ASSUME NEW s \in 1..Len(entry_buf.slots)
      PROVE  /\ KnowsDisk(entry_buf.slots[s]) /\ RawIsPast(entry_buf.slots[s])
             /\ entry_buf.slots[s].entry_type = "RAW" => entry_buf.slots[s].disk \in Nat
  BY <1>1, RawOnDisk DEF OrderInv
<1>4. CASE UNCHANGED <<entry_buf, disk_index>> /\ pc # "next_disk"
  <2>1. ASSUME NEW s \in 1..Len(entry_buf.slots) PROVE RawIsPast(entry_buf.slots[s])'
    BY <1>1, <1>3, <1>4 DEF RawIsPast
  <2> QED BY <1>1, <1>2, <1>3, <1>4, <2>1, DiskSame DEF OrderInv
<1>5. CASE UNCHANGED entry_buf /\ pc = "next_disk" /\ pc' = "disk" /\ disk_index' = disk_index + 1
  <2>1. ASSUME NEW s \in 1..Len(entry_buf.slots) PROVE RawIsPast(entry_buf.slots[s])'
    BY <1>1, <1>3, <1>5 DEF RawIsPast
  <2> QED BY <1>1, <1>2, <1>3, <1>5, <2>1, DiskSame DEF OrderInv
<1>6. CASE /\ UNCHANGED disk_index /\ pc \in OnDisk \ {"next_disk"}
           /\ \E e : /\ Added(e) /\ OfDisk(e, disk_index)
                     /\ e.entry_type = "RAW" => pc' = "next_disk"
  <2>1. PICK e : /\ Added(e) /\ OfDisk(e, disk_index)
                 /\ e.entry_type = "RAW" => pc' = "next_disk"
    BY <1>6
  <2>2. KnowsDisk(e) /\ e.disk = disk_index
    BY <1>1, <1>6, <2>1 DEF KnowsDisk, OfDisk, MediaTypeOK
  <2>3. RawIsPast(e)'
    BY <1>1, <1>6, <2>1, <2>2 DEF RawIsPast
  <2>4. ASSUME NEW s \in 1..Len(entry_buf.slots)
        PROVE  /\ entry_buf.slots[s].entry_type = "RAW" => e.disk # entry_buf.slots[s].disk
               /\ RawIsPast(entry_buf.slots[s])'
    <3>1. PICK x : x = entry_buf.slots[s]
      BY Zenon
    <3>2. x.entry_type = "RAW" => x.disk < disk_index /\ x.disk \in Nat
      BY <1>1, <1>3, <1>6, <3>1 DEF RawIsPast
    <3>3. RawIsPast(x)'
      BY <1>1, <1>6, <3>2 DEF RawIsPast
    <3>4. entry_buf'.slots[s] = x
      BY <1>1, <2>1, <3>1, AddedSlots DEF MediaTypeOK
    <3> QED BY <1>1, <2>2, <3>1, <3>2, <3>3, <3>4
  <2> QED BY <1>1, <1>2, <2>1, <2>2, <2>3, <2>4, OrderAdded
<1>7. TableMoves
  BY <1>1, DetectionMoves
<1> QED BY <1>4, <1>5, <1>6, <1>7 DEF TableMoves

LEMMA OrderDetectPxe ==
    ASSUME PointerInv, OrderInv, DetectPxe
    PROVE  OrderInv'
<1>1. PICK e : e = [NoEntry EXCEPT !.entry_type = "PXE"]
  BY Zenon
<1>2. /\ MediaTypeOK /\ pc' \notin Detecting /\ UNCHANGED machine /\ pxe_entry = NULL
      /\ BufferType(entry_buf)
  BY DEF PointerInv, MediaTypeOK, PointersAreLate, DetectPxe, Detecting, OnDisk
<1>3. ASSUME NEW x PROVE RawIsPast(x)'
  BY <1>2 DEF RawIsPast, Detecting, OnDisk
<1>4. CASE UNCHANGED <<entry_buf, pxe_entry>>
  BY <1>2, <1>3, <1>4, DiskSame DEF OrderInv, PxeKnown
<1>5. CASE /\ Added(e)
           /\ pxe_entry' = [base |-> entry_buf'.base, slot |-> Len(entry_buf'.slots)]
  <2>1. e.entry_type = "PXE" /\ e.disk = 0
    BY <1>1 DEF NoEntry
  <2>2. KnowsDisk(e)
    BY <2>1 DEF KnowsDisk, OfNetwork
  <2>3. PxeKnown'
    <3>1. entry_buf'.slots[Len(entry_buf'.slots)] = e
      BY <1>2, <1>5, AddedSlots
    <3> QED BY <1>5, <2>1, <3>1 DEF PxeKnown, Deref
  <2>4. ASSUME NEW s \in 1..Len(entry_buf.slots), entry_buf.slots[s].entry_type = "RAW"
        PROVE  e.disk # entry_buf.slots[s].disk
    <3>1. PICK x : x = entry_buf.slots[s]
      BY Zenon
    <3>2. x.disk \in Nat \ {0}
      BY <1>2, <2>4, <3>1, RawOnDisk DEF OrderInv
    <3> QED BY <2>1, <3>1, <3>2
  <2> QED BY <1>2, <1>3, <1>5, <2>2, <2>3, <2>4, OrderAdded
<1> QED BY <1>1, <1>4, <1>5, DetectPxeTypes

LEMMA OrderNextInv ==
    ASSUME WellFormedMachines, PointerInv, WalkInv, OrderInv, [Next]_vars
    PROVE  OrderInv'
<1>1. CASE DiskStep
  BY <1>1, OrderDiskStep
<1>2. CASE DetectPxe
  BY <1>2, OrderDetectPxe
<1>3. CASE SearchStep
  <2>1. pc' \notin Detecting /\ UNCHANGED <<machine, entry_buf, pxe_entry>>
    BY <1>3, SearchStepTypes DEF mediaVars
  <2>2. ASSUME NEW x PROVE RawIsPast(x)'
    BY <2>1 DEF RawIsPast, Detecting, OnDisk
  <2> QED BY <2>1, <2>2, DiskSame DEF OrderInv, PxeKnown, Deref
<1>4. CASE UNCHANGED vars
  <2>1. UNCHANGED <<pc, disk_index, machine, entry_buf, pxe_entry>>
    BY <1>4 DEF vars
  <2> QED BY <2>1, DiskSame DEF OrderInv, PxeKnown, Deref, RawIsPast
<1> QED BY <1>1, <1>2, <1>3, <1>4, NextSplit

-----------------------------------------------------------------------------
(* What the numbers of disks and partitions tell apart                     *)

\* Two disks of a kind have two numbers.
LEMMA DiskIdTells ==
    ASSUME MediaTypeOK, NEW i \in DOMAIN machine.disks, NEW j \in DOMAIN machine.disks,
           Disk(i).kind = Disk(j).kind, DiskId(i) = DiskId(j)
    PROVE  i = j
<1>1. i \in Nat /\ j \in Nat /\ i >= 1 /\ j >= 1
  BY BootMediaAssumption DEF MediaTypeOK
<1>2. ASSUME NEW a \in DOMAIN machine.disks, NEW b \in DOMAIN machine.disks,
             a \in Nat, b \in Nat, a >= 1, b >= 1, a < b,
             Disk(a).kind = Disk(b).kind
      PROVE  DiskId(a) # DiskId(b)
  <2>1. PICK A, B : /\ A = {k \in 1..a-1 : Disk(k).kind = Disk(a).kind}
                    /\ B = {k \in 1..b-1 : Disk(k).kind = Disk(b).kind}
    BY Zenon
  <2>2. A \subseteq B /\ a \in B /\ a \notin A /\ B \subseteq 1..b-1
    BY <1>2, <2>1
  <2>3. IsFiniteSet(1..b-1)
    BY <1>2, FS_Interval
  <2>4. IsFiniteSet(B)
    BY <2>2, <2>3, FS_Subset, Zenon
  <2>5. Cardinality(A) # Cardinality(B)
    <3>1. IsFiniteSet(A) /\ Cardinality(A) <= Cardinality(B)
          /\ (Cardinality(A) = Cardinality(B) => A = B)
      BY <2>2, <2>4, FS_Subset
    <3> QED BY <2>2, <3>1
  <2> QED BY <2>1, <2>5 DEF DiskId
<1> QED BY <1>1, <1>2

\* Two partitions of a disk with one index are one partition.
LEMMA IndexTells ==
    ASSUME NEW d, DiskType(d), WellFormed(d), NEW q \in Partitions(d), NEW r \in Partitions(d),
           q.index = r.index
    PROVE  q = r
<1>1. CASE d.gpt # <<>>
  <2>1. PICK k \in DOMAIN d.gpt : d.gpt[k].used /\ q = GptAt(d, k)
    BY <1>1, GptPartitions
  <2>2. PICK l \in DOMAIN d.gpt : d.gpt[l].used /\ r = GptAt(d, l)
    BY <1>1, GptPartitions
  <2>3. k \in Nat /\ l \in Nat
    BY LenProperties DEF DiskType
  <2>4. q.index = k - 1 /\ r.index = l - 1
    BY <2>1, <2>2 DEF GptAt
  <2>5. k - 1 = l - 1
    BY <2>4, Zenon
  <2>6. k = l
    BY <2>3, <2>5
  <2> QED BY <2>1, <2>2, <2>6
<1>2. CASE d.gpt = <<>> /\ 0 \in DOMAIN d.mbr
  <2>1. MbrOnly(d)
    BY <1>2 DEF MbrOnly
  <2>2. q.index \in 0..5
    BY <2>1, MbrIndex
  <2>3. CASE q.index <= 3
    BY <2>1, <2>3, MbrIndex
  <2>4. CASE q.index = 4
    <3>0. r.index = 4
      BY <2>4, Zenon
    <3>1. PICK s : FirstRecord(d, s) /\ q = MbrAt(4, s + d.mbr[s][1].first)
      BY <2>1, <2>4, MbrIndex, ZenonT(30)
    <3>2. PICK t : FirstRecord(d, t) /\ r = MbrAt(4, t + d.mbr[t][1].first)
      BY <2>1, <3>0, MbrIndex, ZenonT(30)
    <3>3. s = t
      BY <2>1, <3>1, <3>2, RecordFacts
    <3> QED BY <3>1, <3>2, <3>3
  <2>5. CASE q.index = 5
    <3>0. r.index = 5
      BY <2>5, Zenon
    <3>1. PICK s : SecondRecord(d, s) /\ q = MbrAt(5, s + d.mbr[s][1].first)
      BY <2>1, <2>5, MbrIndex, Zenon
    <3>2. PICK t : SecondRecord(d, t) /\ r = MbrAt(5, t + d.mbr[t][1].first)
      BY <2>1, <3>0, MbrIndex, ZenonT(30)
    <3>3. s = t
      BY <2>1, <3>1, <3>2, RecordFacts
    <3> QED BY <3>1, <3>2, <3>3
  <2> QED BY <2>2, <2>3, <2>4, <2>5
<1>3. CASE d.gpt = <<>> /\ 0 \notin DOMAIN d.mbr
  BY <1>3 DEF Partitions
<1> QED BY <1>1, <1>2, <1>3

\* What a partition table gives is neither a whole disk nor the network.
LEMMA PartitionKind ==
    ASSUME NEW d, DiskType(d), WellFormed(d), NEW q \in Partitions(d)
    PROVE  q.entry_type \in {"GPT", "MBR"}
<1>1. CASE d.gpt # <<>>
  BY <1>1, GptPartitions DEF GptAt
<1>2. CASE d.gpt = <<>> /\ 0 \in DOMAIN d.mbr
  BY <1>2, MbrIndex DEF MbrOnly
<1>3. CASE d.gpt = <<>> /\ 0 \notin DOMAIN d.mbr
  BY <1>3 DEF Partitions
<1> QED BY <1>1, <1>2, <1>3

-----------------------------------------------------------------------------
(* The configuration files of an entry                                     *)

\* What the search may rely on for an entry that is exact.
Sound(e) ==
    /\ FilesOf(e) \subseteq Nat \ {0}
    /\ e.entry_type = "PXE" <=> e.disk = 0
    /\ e.entry_type \notin {"PXE", "RAW"} =>
         /\ e.disk \in DOMAIN machine.disks
         /\ Location(e).at \in Partitions(Disk(e.disk))
         /\ FilesOf(e) = Disk(e.disk).fat[e.lba]

\* The files of an entry are those of the file system it stands for.
LEMMA ConfigFiles ==
    ASSUME NEW e
    PROVE  ConfigsOf(Location(e)) = FilesOf(e)
<1>1. PICK x : x = [entry_type |-> Location(e).at.entry_type, disk |-> Location(e).disk,
                    lba |-> Location(e).at.lba]
  BY Zenon
<1>2. x.entry_type = e.entry_type /\ x.disk = e.disk /\ x.lba = e.lba
  BY <1>1 DEF Location
<1>3. FilesOf(x) = FilesOf(e)
  BY <1>2, Zenon DEF FilesOf
<1> QED BY <1>1, <1>3 DEF ConfigsOf

LEMMA DiskFacts ==
    ASSUME WellFormedMachines, MediaTypeOK, NEW i \in DOMAIN machine.disks
    PROVE  /\ DiskType(Disk(i)) /\ WellFormed(Disk(i))
           /\ \A b \in DOMAIN Disk(i).fat : Disk(i).fat[b] \subseteq Nat \ {0}
           /\ \A b \in DOMAIN Disk(i).iso : Disk(i).iso[b] \subseteq Nat \ {0}
BY BootMediaAssumption, SearchAssumption, Zenon DEF MediaTypeOK, WellFormedMachines, Disk

LEMMA ExactIsSound ==
    ASSUME WellFormedMachines, MediaTypeOK, NEW e, Location(e) \in Present
    PROVE  Sound(e)
<1>1. PICK l : l = Location(e)
  BY Zenon
<1>2. /\ l.disk = e.disk /\ l.at.entry_type = e.entry_type /\ l.at.lba = e.lba
  BY <1>1 DEF Location
<1>3. CASE l.disk = 0
  <2>1. l.at = PxeAt /\ 0 \in DOMAIN machine.pxe
    BY <1>1, <1>3, PresentWhere
  <2>2. e.entry_type = "PXE" /\ e.disk = 0
    BY <1>2, <1>3, <2>1 DEF PxeAt
  <2>3. FilesOf(e) = machine.pxe[0]
    BY <2>2 DEF FilesOf
  <2>4. machine.pxe[0] \subseteq Nat \ {0}
    BY <2>1, SearchAssumption DEF MediaTypeOK
  <2> QED BY <2>2, <2>3, <2>4 DEF Sound
<1>4. CASE l.disk # 0
  <2>1. /\ l.disk \in DOMAIN machine.disks
        /\ \/ l.at \in Partitions(Disk(l.disk)) /\ l.at.lba \in DOMAIN Disk(l.disk).fat
           \/ l.at = RawAt /\ 0 \in DOMAIN Disk(l.disk).fat \cup DOMAIN Disk(l.disk).iso
    BY <1>1, <1>4, PresentWhere
  <2>2. PICK d : d = Disk(e.disk)
    BY Zenon
  <2>3. /\ DiskType(d) /\ WellFormed(d)
        /\ \A b \in DOMAIN d.fat : d.fat[b] \subseteq Nat \ {0}
        /\ \A b \in DOMAIN d.iso : d.iso[b] \subseteq Nat \ {0}
    BY <1>2, <2>1, <2>2, DiskFacts
  <2>4. CASE l.at \in Partitions(d) /\ e.lba \in DOMAIN d.fat
    <3>1. e.entry_type \in {"GPT", "MBR"}
      BY <1>2, <2>3, <2>4, PartitionKind
    <3>2. FilesOf(e) = d.fat[e.lba]
      BY <2>2, <3>1 DEF FilesOf
    <3> QED BY <1>1, <1>2, <1>4, <2>1, <2>2, <2>3, <2>4, <3>1, <3>2 DEF Sound
  <2>5. CASE l.at = RawAt /\ 0 \in DOMAIN d.fat \cup DOMAIN d.iso
    <3>1. e.entry_type = "RAW" /\ e.lba = 0
      BY <1>2, <2>5 DEF RawAt
    <3>2. FilesOf(e) = IF 0 \in DOMAIN d.iso THEN d.iso[0] ELSE d.fat[0]
      BY <2>2, <3>1 DEF FilesOf
    <3>3. FilesOf(e) \subseteq Nat \ {0}
      BY <2>3, <2>5, <3>2
    <3> QED BY <1>2, <1>4, <3>1, <3>3 DEF Sound
  <2> QED BY <1>2, <2>1, <2>2, <2>4, <2>5
<1> QED BY <1>3, <1>4

\* The file that config_from_entry takes when no read fails.
LEMMA FirstFile ==
    ASSUME NEW e, FilesOf(e) \subseteq Nat \ {0}, NEW j \in config_from_entry(e, 0)
    PROVE  /\ j = 0 => FilesOf(e) = {}
           /\ j # 0 => j \in FilesOf(e) /\ \A k \in FilesOf(e) : j <= k
<1>1. PICK F : F = FilesOf(e)
  BY Zenon
<1>2. config_from_entry(e, 0) = IF F = {} THEN {0} ELSE {Min(F)}
  <2>1. 0 # 1
    OBVIOUS
  <2> QED BY <1>1, <2>1, Zenon DEF config_from_entry, Min
<1>3. CASE F = {}
  BY <1>1, <1>2, <1>3
<1>4. CASE F # {}
  <2>1. j = Min(F)
    BY <1>2, <1>4
  <2>2. Min(F) \in F /\ \A y \in F : Min(F) <= y
    <3>1. F \subseteq Nat
      BY <1>1
    <3> QED BY <1>4, <3>1, LeastNumber, Zenon
  <2> QED BY <1>1, <2>1, <2>2
<1> QED BY <1>3, <1>4

-----------------------------------------------------------------------------
(* The search                                                              *)

Resolved == {"search", "load", "loaded", "oops"}

\* The slots that answer to the boot partition, of which the first is taken.
BootSlots ==
    {s \in 1..Len(entry_buf.slots) : IsBootPartition(entry_buf.slots[s], ds_query_boot_device)}

BootKnown ==
    pc \in Resolved =>
      /\ boot_dev = ds_query_boot_device
      /\ boot_dev.type = "PXE" => boot_entry = pxe_entry
      /\ boot_dev.type = "none" => boot_entry = NULL
      /\ boot_dev.type = "disk" =>
           boot_entry = IF boot_dev.partition_id = "none" \/ BootSlots = {} THEN NULL
                        ELSE PointerTo(Min(BootSlots))

\* The loops of find_config_file that come before a loop.
Before(loop) ==
    CASE loop = "boot" -> {} [] loop = "device" -> {"boot"}
      [] loop = "all" -> {"boot", "device"} [] OTHER -> {"boot", "device", "all"}

HasNone(s) == FilesOf(entry_buf.slots[s]) = {}
FoundAt(s) ==
    /\ origin_fs.entry = entry_buf.slots[s]
    /\ origin_fs.path \in FilesOf(entry_buf.slots[s])
    /\ \A j \in FilesOf(entry_buf.slots[s]) : origin_fs.path <= j

SearchType ==
    /\ search = [loop |-> search.loop, i |-> search.i]
    /\ search.i \in Nat \ {0} /\ search.loop \in {"boot", "device", "all", "none"}

\* Whatever the search has passed has no configuration.
Searched ==
    /\ pc \notin Resolved => search.loop = "boot" /\ search.i = 1
    /\ pc \in Resolved => \A loop \in Before(search.loop) : \A s \in Probed(loop) : HasNone(s)
    /\ pc = "search" => /\ search.loop # "none"
                        /\ \A s \in Probed(search.loop) : s < search.i => HasNone(s)
    /\ pc \in {"load", "loaded"} => \E s \in Probed(search.loop) : FoundAt(s)
    /\ pc = "oops" => search.loop = "none"

SearchInv == SearchType /\ BootKnown /\ (faults = 0 => Searched)

LEMMA SearchInitInv == Init => SearchInv
<1> SUFFICES ASSUME Init PROVE SearchInv
  OBVIOUS
<1>1. search = [loop |-> "boot", i |-> 1] /\ pc = "disk"
  BY DEF Init
<1>2. SearchType
  BY <1>1 DEF SearchType
<1> QED BY <1>1, <1>2 DEF SearchInv, BootKnown, Searched, Resolved

\* The table and the boot device stay, and so does what the search sees of them.
LEMMA SearchSame ==
    ASSUME UNCHANGED <<machine, entry_buf, pxe_entry>>
    PROVE  /\ ds_query_boot_device' = ds_query_boot_device /\ BootSlots' = BootSlots
           /\ \A s : PointerTo(s)' = PointerTo(s)
           /\ \A s : HasNone(s)' <=> HasNone(s)
           /\ \A e : FilesOf(e)' = FilesOf(e)
           /\ UNCHANGED <<boot_entry, boot_dev>> =>
                /\ \A loop : Probed(loop)' = Probed(loop)
                /\ UNCHANGED pc => (BootKnown' <=> BootKnown)
<1>1. \A i : Disk(i)' = Disk(i) /\ DiskId(i)' = DiskId(i)
  BY DiskSame
<1>2. ds_query_boot_device' = ds_query_boot_device
  BY <1>1 DEF ds_query_boot_device
<1>3. BootSlots' = BootSlots
  BY <1>2 DEF BootSlots, IsBootPartition, OnBootDisk
<1>4. \A s : PointerTo(s)' = PointerTo(s)
  BY DEF PointerTo
<1>5. \A e : FilesOf(e)' = FilesOf(e)
  BY <1>1 DEF FilesOf
<1>6. \A s : HasNone(s)' <=> HasNone(s)
  BY <1>5 DEF HasNone
<1>7. ASSUME UNCHANGED <<boot_entry, boot_dev>>, NEW loop
      PROVE  Probed(loop)' = Probed(loop)
  BY <1>4, <1>7, ZenonT(30) DEF Probed, fst_entry_on_boot_device, OnBootDisk
<1>8. ASSUME UNCHANGED <<boot_entry, boot_dev, pc>>
      PROVE  BootKnown' <=> BootKnown
  BY <1>2, <1>3, <1>4, <1>8 DEF BootKnown
<1> QED BY <1>2, <1>3, <1>4, <1>5, <1>6, <1>7, <1>8

\* The search begins with what fst_resolve_boot_entry found.
LEMMA ResolveInv ==
    ASSUME SearchInv, fst_resolve_boot_entry
    PROVE  SearchInv'
<1>1. /\ pc = "resolve" /\ pc' = "search" /\ UNCHANGED search
      /\ UNCHANGED <<machine, entry_buf, pxe_entry, faults>>
  BY DEF fst_resolve_boot_entry, mediaVars
<1>2. SearchType' /\ (faults = 0 => search.loop = "boot" /\ search.i = 1)
  BY <1>1 DEF SearchInv, SearchType, Searched, Resolved
<1>3. BootKnown'
  <2> DEFINE dev == ds_query_boot_device
             Boot(e) == IsBootPartition(e, dev)
             k == FirstSlot(Boot)
  <2>1. k = IF BootSlots # {} THEN Min(BootSlots) ELSE 0
    BY DEF FirstSlot, BootSlots
  <2>2. BootSlots # {} => Min(BootSlots) # 0
    <3>1. PICK B : B = BootSlots
      BY Zenon
    <3>2. B \subseteq Nat \ {0}
      BY <3>1 DEF BootSlots
    <3> QED BY <3>1, <3>2, LeastNumber, Zenon
  <2>3. /\ boot_dev' = dev
        /\ boot_entry' = IF dev.type = "PXE" THEN pxe_entry
                         ELSE IF dev.type = "none" \/ dev.partition_id = "none" \/ k = 0 THEN NULL
                         ELSE PointerTo(k)
    BY DEF fst_resolve_boot_entry
  <2> HIDE DEF dev, k
  <2>4. dev = ds_query_boot_device
    BY DEF dev
  <2> QED BY <1>1, <2>1, <2>2, <2>3, <2>4, SearchSame DEF BootKnown
<1>4. ASSUME faults' = 0 PROVE Searched'
  <2>1. search'.loop = "boot" /\ search'.i = 1
    BY <1>1, <1>2, <1>4
  <2>2. Before("boot") = {}
    BY DEF Before
  <2>3. ASSUME NEW s \in Probed("boot")' PROVE ~(s < 1)
    BY <2>3 DEF Probed
  <2> QED BY <1>1, <2>1, <2>2, <2>3 DEF Searched, Resolved
<1> QED BY <1>2, <1>3, <1>4 DEF SearchInv

\* Without faults the slots and the file systems of the machine are the same.
LEMMA ExactSlots ==
    ASSUME WellFormedMachines, TableInv, faults = 0, Detected
    PROVE  /\ \A s \in 1..Len(entry_buf.slots) :
                Location(entry_buf.slots[s]) \in Present /\ Sound(entry_buf.slots[s])
           /\ \A m \in Present : \E s \in 1..Len(entry_buf.slots) : m = Location(entry_buf.slots[s])
<1>1. PICK b : b = entry_buf.slots
  BY Zenon
<1>2. {Location(e) : e \in Range(b)} = Present
  BY <1>1, TableInvIsExact DEF TableIsExact
<1>3. MediaTypeOK /\ DOMAIN b = 1..Len(b)
  BY <1>1, LenProperties DEF TableInv, PointerInv, MediaTypeOK, BufferType, IsSequence
<1>4. Range(b) = {b[s] : s \in 1..Len(b)}
  BY <1>3 DEF Range
<1>5. ASSUME NEW s \in 1..Len(b) PROVE Location(b[s]) \in Present /\ Sound(b[s])
  <2>1. PICK e : e = b[s]
    BY Zenon
  <2>2. e \in Range(b)
    BY <1>4, <2>1
  <2>3. Location(e) \in Present
    BY <1>2, <2>2
  <2> QED BY <1>3, <2>1, <2>3, ExactIsSound
<1>6. ASSUME NEW m \in Present PROVE \E s \in 1..Len(b) : m = Location(b[s])
  <2>1. PICK e \in Range(b) : m = Location(e)
    BY <1>2
  <2> QED BY <1>4, <2>1
<1> QED BY <1>1, <1>5, <1>6

LEMMA ProbeInv ==
    ASSUME WellFormedMachines, TableInv, SearchInv, Probe
    PROVE  SearchInv'
<1>1. /\ pc = "search" /\ pc' \in {"search", "load"} /\ search' = [search EXCEPT !.i = @ + 1]
      /\ UNCHANGED <<machine, entry_buf, pxe_entry, boot_entry, boot_dev>>
      /\ faults \in Nat
  BY DEF Probe, mediaVars, TableInv, PointerInv, MediaTypeOK
<1>2. PICK L, i : L = search.loop /\ i = search.i
  BY Zenon
<1>3. search = [loop |-> L, i |-> i] /\ i \in Nat \ {0} /\ L \in {"boot", "device", "all", "none"}
  BY <1>2 DEF SearchInv, SearchType
<1>4. search'.loop = L /\ search'.i = i + 1 /\ search' = [loop |-> L, i |-> i + 1]
  BY <1>1, <1>3
<1>5. SearchType'
  BY <1>3, <1>4 DEF SearchType
<1>6. BootKnown'
  BY <1>1, SearchSame DEF SearchInv, BootKnown, Resolved
<1>7. ASSUME faults' = 0 PROVE Searched'
  <2>1. /\ faults = 0
        /\ i \in Probed(L) =>
             \E j \in config_from_entry(entry_buf.slots[i], 0) :
               /\ origin_fs' = IF j = 0 THEN origin_fs ELSE [entry |-> entry_buf.slots[i], path |-> j]
               /\ pc' = IF j = 0 THEN "search" ELSE "load"
        /\ i \notin Probed(L) => UNCHANGED pc
    BY <1>1, <1>2, <1>7, FailsEffect DEF Probe
  <2>2. /\ \A loop \in Before(L) : \A s \in Probed(loop) : HasNone(s)
        /\ L # "none" /\ \A s \in Probed(L) : s < i => HasNone(s)
    BY <1>1, <1>2, <2>1 DEF SearchInv, Searched, Resolved
  <2>3. /\ \A loop : Probed(loop)' = Probed(loop)
        /\ \A s : HasNone(s)' <=> HasNone(s)
        /\ \A e : FilesOf(e)' = FilesOf(e)
    BY <1>1, SearchSame
  <2>4. /\ \A loop \in Before(L) : \A s \in Probed(loop)' : HasNone(s)'
    BY <2>2, <2>3
  <2>5. ASSUME NEW s \in Probed(L), s < i + 1 PROVE s < i \/ s = i
    BY <1>3, <2>5 DEF Probed
  <2>6. CASE i \in Probed(L)
    <3>1. PICK j \in config_from_entry(entry_buf.slots[i], 0) :
               /\ origin_fs' = IF j = 0 THEN origin_fs ELSE [entry |-> entry_buf.slots[i], path |-> j]
               /\ pc' = IF j = 0 THEN "search" ELSE "load"
      BY <2>1, <2>6
    <3>2. PICK e : e = entry_buf.slots[i]
      BY Zenon
    <3>3. FilesOf(e) \subseteq Nat \ {0}
      BY <1>1, <2>1, <2>6, <3>2, ExactSlots DEF Detected, Sound, Probed
    <3>4. /\ j = 0 => FilesOf(e) = {}
          /\ j # 0 => j \in FilesOf(e) /\ \A k \in FilesOf(e) : j <= k
      BY <3>1, <3>2, <3>3, FirstFile
    <3>5. CASE j = 0
      <4>1. pc' = "search" /\ HasNone(i)
        BY <3>1, <3>2, <3>4, <3>5 DEF HasNone
      <4>2. \A s \in Probed(L) : s < i + 1 => HasNone(s)
        BY <2>2, <2>5, <4>1
      <4> QED BY <1>4, <2>2, <2>3, <2>4, <4>1, <4>2 DEF Searched, Resolved
    <3>6. CASE j # 0
      <4>1. pc' = "load" /\ origin_fs' = [entry |-> e, path |-> j]
        BY <3>1, <3>2, <3>6
      <4>2. FoundAt(i)'
        BY <1>1, <2>3, <3>2, <3>4, <3>6, <4>1 DEF FoundAt
      <4>3. \E s \in Probed(L)' : FoundAt(s)'
        BY <2>3, <2>6, <4>2
      <4> QED BY <1>4, <2>2, <2>4, <4>1, <4>3 DEF Searched, Resolved
    <3> QED BY <3>5, <3>6
  <2>7. CASE i \notin Probed(L)
    <3>1. \A s \in Probed(L) : s < i + 1 => HasNone(s)
      BY <2>2, <2>5, <2>7
    <3> QED BY <1>1, <1>4, <2>1, <2>2, <2>3, <2>4, <2>7, <3>1 DEF Searched, Resolved
  <2> QED BY <2>6, <2>7
<1> QED BY <1>5, <1>6, <1>7 DEF SearchInv

LEMMA NextLoopInv ==
    ASSUME TableInv, SearchInv, NextLoop
    PROVE  SearchInv'
<1>1. PICK L, i, M : L = search.loop /\ i = search.i /\ M = LoopAfter(search.loop)
  BY Zenon
<1>2. /\ pc = "search" /\ pc' = (IF M = "none" THEN "oops" ELSE "search")
      /\ i > Len(entry_buf.slots) /\ search' = [loop |-> M, i |-> 1]
      /\ UNCHANGED <<machine, entry_buf, pxe_entry, boot_entry, boot_dev, faults>>
  BY <1>1 DEF NextLoop, mediaVars
<1>3. L \in {"boot", "device", "all", "none"} /\ i \in Nat
  BY <1>1 DEF SearchInv, SearchType
<1>4. M \in {"device", "all", "none"}
  BY <1>1, <1>3 DEF LoopAfter
<1>5. SearchType'
  BY <1>2, <1>4 DEF SearchType
<1>6. BootKnown'
  BY <1>2, SearchSame DEF SearchInv, BootKnown, Resolved
<1>7. ASSUME faults' = 0 PROVE Searched'
  <2>1. /\ \A loop \in Before(L) : \A s \in Probed(loop) : HasNone(s)
        /\ L # "none" /\ \A s \in Probed(L) : s < i => HasNone(s)
    BY <1>1, <1>2, <1>7 DEF SearchInv, Searched, Resolved
  <2>2. Len(entry_buf.slots) \in Nat
    BY LenProperties DEF TableInv, PointerInv, MediaTypeOK, BufferType, IsSequence
  <2>3. ASSUME NEW s \in Probed(L) PROVE HasNone(s)
    <3>1. s \in 1..Len(entry_buf.slots)
      BY <2>3 DEF Probed
    <3> QED BY <1>2, <1>3, <2>1, <2>2, <3>1
  <2>4. Before(M) = Before(L) \cup {L}
    BY <1>1, <1>3, <2>1 DEF LoopAfter, Before
  <2>5. /\ \A loop : Probed(loop)' = Probed(loop)
        /\ \A s : HasNone(s)' <=> HasNone(s)
    BY <1>2, SearchSame
  <2>6. \A loop \in Before(M) : \A s \in Probed(loop)' : HasNone(s)'
    BY <2>1, <2>3, <2>4, <2>5
  <2>7. ASSUME NEW s \in Probed(M)' PROVE ~(s < 1)
    BY <2>7 DEF Probed
  <2>8. search'.loop = M /\ search'.i = 1
    BY <1>2
  <2> QED BY <1>2, <2>6, <2>7, <2>8, SMTT(30) DEF Searched, Resolved
<1> QED BY <1>5, <1>6, <1>7 DEF SearchInv

LEMMA SearchNextInv ==
    ASSUME WellFormedMachines, TableInv, SearchInv, [Next]_vars
    PROVE  SearchInv'
<1>1. PointerInv /\ MediaTypeOK /\ faults \in Nat
  BY DEF TableInv, PointerInv, MediaTypeOK
<1>2. ASSUME UNCHANGED search, pc \notin Resolved, pc' \notin Resolved, faults' = 0 => faults = 0
      PROVE  SearchInv'
  BY <1>2 DEF SearchInv, SearchType, BootKnown, Searched, Resolved
<1>3. CASE DiskStep
  <2>1. UNCHANGED search /\ pc \in Detecting /\ pc' \in Detecting
    BY <1>1, <1>3, DiskStepTypes DEF searchVars
  <2>2. faults' = 0 => faults = 0
    BY <1>1, <1>3, FaultsStay DEF TableInv
  <2> QED BY <1>2, <2>1, <2>2 DEF Detecting, OnDisk, Resolved
<1>4. CASE DetectPxe
  <2>1. UNCHANGED search /\ pc = "disk" /\ pc' = "resolve"
    BY <1>4 DEF DetectPxe
  <2>2. faults' = 0 => faults = 0
    BY <1>1, <1>4, DetectPxeTypes, FailsEffect
  <2> QED BY <1>2, <2>1, <2>2 DEF Resolved
<1>5. CASE ReadConfig \/ LookUp \/ UNCHANGED vars
  <2>1. /\ UNCHANGED <<machine, entry_buf, pxe_entry, boot_entry, boot_dev, search, origin_fs>>
        /\ \/ UNCHANGED pc
           \/ pc = "load" /\ pc' = "loaded"
           \/ pc = "load" /\ pc' = "oops" /\ Fails(1)
        /\ UNCHANGED faults \/ Fails(0) \/ Fails(1)
    BY <1>5 DEF ReadConfig, LookUp, mediaVars, vars
  <2>2. faults' = 0 => faults = 0 /\ (UNCHANGED pc \/ (pc = "load" /\ pc' = "loaded"))
    BY <1>1, <2>1, FailsEffect
  <2>3. /\ \A loop : Probed(loop)' = Probed(loop)
        /\ \A s : HasNone(s)' <=> HasNone(s)
        /\ \A e : FilesOf(e)' = FilesOf(e)
    BY <2>1, SearchSame
  <2>4. BootKnown' /\ SearchType'
    BY <2>1, SearchSame DEF SearchInv, SearchType, BootKnown, Resolved
  <2>5. ASSUME NEW s PROVE FoundAt(s)' <=> FoundAt(s)
    BY <2>1, <2>3 DEF FoundAt
  <2>6. ASSUME faults' = 0 PROVE Searched'
    <3>1. Searched
      BY <2>2, <2>6 DEF SearchInv
    <3> QED BY <2>1, <2>2, <2>3, <2>5, <2>6, <3>1 DEF Searched, Resolved
  <2> QED BY <2>4, <2>6 DEF SearchInv
<1>6. CASE fst_resolve_boot_entry
  BY <1>6, ResolveInv
<1>7. CASE Probe
  BY <1>7, ProbeInv
<1>8. CASE NextLoop
  BY <1>8, NextLoopInv
<1> QED BY <1>3, <1>4, <1>5, <1>6, <1>7, <1>8, NextSplit DEF SearchStep, Stopped

-----------------------------------------------------------------------------
(* The order of preference                                                 *)

\* An entry is a partition, and the one the firmware names.
IsNamed(e) ==
    LET b == machine.boot IN
    /\ e.entry_type # "RAW"
    /\ \/ b.partition_id = "index" /\ b.partition = e.partition_index
       \/ b.partition_id = "lba" /\ b.partition = e.lba

LEMMA PreferenceOf ==
    ASSUME NEW e
    PROVE  LET b == machine.boot
               rank == Preference(Location(e))
           IN /\ b.type = "none" => rank = 2
              /\ b.type = "PXE" => rank = IF e.entry_type = "PXE" THEN 0 ELSE 2
              /\ b.type = "disk" => rank = IF e.disk # b.disk THEN 2
                                           ELSE IF IsNamed(e) THEN 0 ELSE 1
<1>1. PICK l : l = Location(e)
  BY Zenon
<1>2. /\ l.disk = e.disk /\ l.at.entry_type = e.entry_type
      /\ l.at.index = e.partition_index /\ l.at.lba = e.lba
  BY <1>1 DEF Location
<1>3. machine.boot.type = "none" => Preference(l) = 2
  BY DEF Preference
<1>4. machine.boot.type = "PXE" => Preference(l) = IF e.entry_type = "PXE" THEN 0 ELSE 2
  BY <1>2 DEF Preference
<1>5. machine.boot.type = "disk" =>
        Preference(l) = IF e.disk # machine.boot.disk THEN 2 ELSE IF IsNamed(e) THEN 0 ELSE 1
  BY <1>2 DEF Preference, IsNamed
<1> QED BY <1>1, <1>3, <1>4, <1>5

\* The entries of the disk the loader was booted from.
LEMMA OfBootDisk ==
    ASSUME MediaTypeOK, machine.boot.type = "disk", NEW e, KnowsDisk(e)
    PROVE  /\ OnBootDisk(e, ds_query_boot_device) <=> e.disk = machine.boot.disk
           /\ ds_query_boot_device.type = "disk"
           /\ ds_query_boot_device.partition_id = machine.boot.partition_id
           /\ ds_query_boot_device.partition = machine.boot.partition
<1>1. PICK b, dev : b = machine.boot /\ dev = ds_query_boot_device
  BY Zenon
<1>2. dev = [type |-> "disk", disk_kind |-> Disk(b.disk).kind, disk_id |-> DiskId(b.disk),
             partition_id |-> b.partition_id, partition |-> b.partition]
  BY <1>1 DEF ds_query_boot_device
<1>3. /\ dev.type = "disk" /\ dev.disk_kind = Disk(b.disk).kind /\ dev.disk_id = DiskId(b.disk)
      /\ dev.partition_id = b.partition_id /\ dev.partition = b.partition
  BY <1>2
<1>4. b.disk \in DOMAIN machine.disks
  BY <1>1, SearchAssumption DEF MediaTypeOK
<1>5. b.disk # 0
  BY <1>4, BootMediaAssumption DEF MediaTypeOK
<1>6. CASE OfNetwork(e)
  BY <1>1, <1>3, <1>5, <1>6 DEF OfNetwork, OnBootDisk
<1>7. CASE \E i \in DOMAIN machine.disks : OfDisk(e, i)
  <2>1. PICK i \in DOMAIN machine.disks : OfDisk(e, i)
    BY <1>7
  <2>2. e.disk = i /\ e.entry_type # "PXE" /\ e.disk_kind = Disk(i).kind /\ e.disk_id = DiskId(i)
    BY <2>1 DEF OfDisk
  <2>3. ASSUME OnBootDisk(e, dev) PROVE i = b.disk
    BY <1>3, <1>4, <2>2, <2>3, DiskIdTells, ZenonT(30) DEF OnBootDisk
  <2>4. ASSUME i = b.disk PROVE OnBootDisk(e, dev)
    BY <1>3, <2>2, <2>4 DEF OnBootDisk
  <2> QED BY <1>1, <1>3, <2>2, <2>3, <2>4
<1> QED BY <1>6, <1>7 DEF KnowsDisk

\* The partitions of the boot disk that answer to what the firmware names have the
\* same files.
LEMMA SameFiles ==
    ASSUME WellFormedMachines, MediaTypeOK,
           NEW y, Sound(y), IsNamed(y), y.disk = machine.boot.disk,
           NEW z, Sound(z), IsNamed(z), z.disk = machine.boot.disk,
           machine.boot.type = "disk"
    PROVE  FilesOf(y) = FilesOf(z)
<1>1. PICK b : b = machine.boot
  BY Zenon
<1>2. b.disk \in DOMAIN machine.disks /\ b.disk # 0
  BY <1>1, SearchAssumption, BootMediaAssumption DEF MediaTypeOK
<1>3. PICK d : d = Disk(b.disk)
  BY Zenon
<1>4. /\ Location(y).at \in Partitions(d) /\ FilesOf(y) = d.fat[y.lba]
      /\ Location(z).at \in Partitions(d) /\ FilesOf(z) = d.fat[z.lba]
  BY <1>1, <1>2, <1>3, SMTT(30) DEF Sound, IsNamed
<1>5. CASE y.lba = z.lba
  BY <1>4, <1>5
<1>6. CASE y.partition_index = z.partition_index
  <2>1. PICK p, q : p = Location(y).at /\ q = Location(z).at
    BY Zenon
  <2>2. p.index = y.partition_index /\ q.index = z.partition_index
        /\ p.lba = y.lba /\ q.lba = z.lba
    BY <2>1 DEF Location
  <2>3. DiskType(d) /\ WellFormed(d)
    BY <1>2, <1>3, DiskFacts
  <2>4. p = q
    BY <1>4, <1>6, <2>1, <2>2, <2>3, IndexTells
  <2> QED BY <1>4, <2>2, <2>4
<1>7. y.lba = z.lba \/ y.partition_index = z.partition_index
  BY <1>1 DEF IsNamed
<1> QED BY <1>5, <1>6, <1>7

\* The search stands on the slot s that has a configuration, and so has t.
Ranking(s, t) ==
    /\ WellFormedMachines /\ TableInv /\ OrderInv /\ SearchInv /\ faults = 0
    /\ pc \in {"load", "loaded"}
    /\ s \in Probed(search.loop) /\ ~HasNone(s)
    /\ t \in 1..Len(entry_buf.slots) /\ ~HasNone(t)

\* A slot on the boot device with a configuration keeps the search from the third
\* loop.
LEMMA StopsEarly ==
    ASSUME NEW s, NEW t, Ranking(s, t), fst_entry_on_boot_device(entry_buf.slots[t])
    PROVE  search.loop \in {"boot", "device"}
<1>1. t \in Probed("boot") \cup Probed("device")
  BY DEF Ranking, Probed
<1>2. \A loop \in Before(search.loop) : \A u \in Probed(loop) : HasNone(u)
  BY DEF Ranking, SearchInv, Searched, Resolved
<1>3. search.loop \in {"boot", "device", "all", "none"}
  BY DEF Ranking, SearchInv, SearchType
<1>4. search.loop \in {"all", "none"} => {"boot", "device"} \subseteq Before(search.loop)
  BY DEF Before
<1> QED BY <1>1, <1>2, <1>3, <1>4 DEF Ranking

LEMMA RankedNetwork ==
    ASSUME NEW s, NEW t, Ranking(s, t), machine.boot.type = "PXE",
           entry_buf.slots[t].entry_type = "PXE"
    PROVE  entry_buf.slots[s].entry_type = "PXE"
<1>1. boot_dev = ds_query_boot_device /\ (boot_dev.type = "PXE" => boot_entry = pxe_entry)
  BY DEF Ranking, SearchInv, BootKnown, Resolved
<1>2. boot_dev.type = "PXE"
  BY <1>1 DEF ds_query_boot_device, NoBootDevice
<1>3. search.loop \in {"boot", "device"}
  BY <1>2, StopsEarly DEF fst_entry_on_boot_device
<1>4. CASE search.loop = "boot"
  <2>1. PointerTo(s) = pxe_entry /\ s \in 1..Len(entry_buf.slots)
    BY <1>1, <1>2, <1>4 DEF Ranking, Probed
  <2>2. pxe_entry.slot = s /\ pxe_entry # NULL
    BY <2>1 DEF PointerTo, NULL
  <2> QED BY <2>2 DEF Ranking, OrderInv, PxeKnown, Deref
<1>5. CASE search.loop = "device"
  BY <1>2, <1>5 DEF Ranking, Probed, fst_entry_on_boot_device
<1> QED BY <1>3, <1>4, <1>5

\* The entry that fst_resolve_boot_entry takes.
LEMMA BootSlot ==
    ASSUME PointerInv, SearchInv, pc \in Resolved, boot_dev.type = "disk",
           NEW s \in 1..Len(entry_buf.slots)
    PROVE  /\ PointerTo(s) = boot_entry =>
                IsBootPartition(entry_buf.slots[s], ds_query_boot_device)
           /\ IsBootPartition(entry_buf.slots[s], ds_query_boot_device)
                /\ boot_dev.partition_id # "none" =>
                \E u \in 1..s : PointerTo(u) = boot_entry
<1>1. PICK B : B = BootSlots
  BY Zenon
<1>2. Len(entry_buf.slots) \in Nat
  BY LenProperties DEF PointerInv, MediaTypeOK, BufferType, IsSequence
<1>3. B \subseteq 1..Len(entry_buf.slots) /\ B \subseteq Nat
  BY <1>1, <1>2 DEF BootSlots
<1>4. B # {} => Min(B) \in B /\ \A y \in B : Min(B) <= y
  BY <1>3, LeastNumber, ZenonT(30)
<1>5. boot_entry = IF boot_dev.partition_id = "none" \/ B = {} THEN NULL ELSE PointerTo(Min(B))
  BY <1>1 DEF SearchInv, BootKnown
<1>6. ASSUME PointerTo(s) = boot_entry
      PROVE  IsBootPartition(entry_buf.slots[s], ds_query_boot_device)
  <2>1. PointerTo(s) # NULL
    BY DEF PointerTo, NULL
  <2>2. B # {} /\ PointerTo(s) = PointerTo(Min(B))
    BY <1>5, <1>6, <2>1
  <2>3. s = Min(B)
    BY <2>2 DEF PointerTo
  <2> QED BY <1>1, <1>4, <2>2, <2>3 DEF BootSlots
<1>7. ASSUME IsBootPartition(entry_buf.slots[s], ds_query_boot_device),
             boot_dev.partition_id # "none"
      PROVE  \E u \in 1..s : PointerTo(u) = boot_entry
  <2>1. s \in B
    BY <1>1, <1>7 DEF BootSlots
  <2>2. boot_entry = PointerTo(Min(B)) /\ Min(B) <= s /\ Min(B) \in 1..Len(entry_buf.slots)
    BY <1>3, <1>4, <1>5, <1>7, <2>1, Zenon
  <2>3. Min(B) \in 1..s
    BY <1>2, <2>2
  <2> QED BY <2>2, <2>3
<1> QED BY <1>6, <1>7

LEMMA RankedDisk ==
    ASSUME NEW s, NEW t, Ranking(s, t), machine.boot.type = "disk",
           entry_buf.slots[t].disk = machine.boot.disk
    PROVE  /\ entry_buf.slots[s].disk = machine.boot.disk
           /\ IsNamed(entry_buf.slots[t]) => IsNamed(entry_buf.slots[s])
<1>1. PICK b, dev, n, x, y : /\ b = machine.boot /\ dev = ds_query_boot_device
                             /\ n = Len(entry_buf.slots)
                             /\ x = entry_buf.slots[s] /\ y = entry_buf.slots[t]
  BY Zenon
<1>2. /\ WellFormedMachines /\ PointerInv /\ MediaTypeOK /\ SearchInv /\ faults = 0 /\ Detected
      /\ s \in 1..n /\ t \in 1..n /\ pc \in Resolved /\ boot_dev = dev
  BY <1>1 DEF Ranking, TableInv, PointerInv, Probed, Detected, SearchInv, BootKnown, Resolved
<1>3. ASSUME NEW u \in 1..n
      PROVE  KnowsDisk(entry_buf.slots[u]) /\ Sound(entry_buf.slots[u])
  BY <1>1, <1>2, ExactSlots DEF Ranking, OrderInv
<1>4. /\ dev.type = "disk" /\ dev.partition_id = b.partition_id /\ dev.partition = b.partition
      /\ \A u \in 1..n : OnBootDisk(entry_buf.slots[u], dev) <=> entry_buf.slots[u].disk = b.disk
  BY <1>1, <1>2, <1>3, OfBootDisk, SMTT(30)
<1>5. b.partition_id \in {"none", "index", "lba"}
  BY <1>1, <1>2, SearchAssumption DEF MediaTypeOK
<1>6. search.loop \in {"boot", "device"}
  <2>1. fst_entry_on_boot_device(y)
    BY <1>1, <1>2, <1>4 DEF fst_entry_on_boot_device
  <2> QED BY <1>1, <2>1, StopsEarly
<1>7. ASSUME NEW u \in 1..n, PointerTo(u) = boot_entry
      PROVE  IsBootPartition(entry_buf.slots[u], dev) /\ entry_buf.slots[u].disk = b.disk
  <2>1. IsBootPartition(entry_buf.slots[u], dev)
    BY <1>1, <1>2, <1>4, <1>7, BootSlot
  <2>2. OnBootDisk(entry_buf.slots[u], dev)
    BY <2>1 DEF IsBootPartition
  <2> QED BY <1>4, <2>1, <2>2, SMTT(30)
<1>8. x.disk = b.disk
  <2>1. CASE search.loop = "boot"
    <3>1. PointerTo(s) = boot_entry
      BY <2>1 DEF Ranking, Probed
    <3> QED BY <1>1, <1>2, <1>7, <3>1
  <2>2. CASE search.loop = "device"
    <3>1. fst_entry_on_boot_device(x)
      BY <1>1, <2>2 DEF Ranking, Probed
    <3> QED BY <1>1, <1>2, <1>4, <3>1 DEF fst_entry_on_boot_device
  <2> QED BY <1>6, <2>1, <2>2, SMTT(30)
<1>9. ASSUME IsNamed(y) PROVE IsNamed(x)
  <2>1. dev.partition_id # "none" /\ IsBootPartition(y, dev)
    <3>1. OnBootDisk(y, dev)
      BY <1>1, <1>2, <1>4
    <3> QED BY <1>1, <1>4, <1>9, <3>1, ZenonT(30) DEF IsNamed, IsBootPartition
  <2>2. PICK u \in 1..t : PointerTo(u) = boot_entry
    BY <1>1, <1>2, <1>4, <2>1, BootSlot
  <2>3. PICK z : z = entry_buf.slots[u]
    BY Zenon
  <2>4. u \in 1..n /\ (u = t \/ u < t)
    <3>1. n \in Nat
      BY <1>1, <1>2, LenProperties, SMTT(30) DEF MediaTypeOK, BufferType, IsSequence
    <3>2. t \in Nat /\ t <= n /\ u \in Nat /\ 1 <= u /\ u <= t
      BY <1>2, <3>1
    <3> QED BY <3>1, <3>2
  <2>5. IsBootPartition(z, dev) /\ z.disk = b.disk
    BY <1>7, <2>2, <2>3, <2>4
  <2>6. z.entry_type # "RAW"
    <3>1. CASE u = t
      BY <1>1, <1>9, <2>3, <3>1 DEF IsNamed
    <3>2. CASE u < t
      <4>1. z.entry_type = "RAW" => y.disk # z.disk
        BY <1>1, <1>2, <2>3, <2>4, <3>2 DEF Ranking, OrderInv, RawIsLast
      <4> QED BY <1>1, <2>5, <4>1
    <3> QED BY <2>4, <3>1, <3>2
  <2>7. IsNamed(z)
    BY <1>1, <1>4, <1>5, <2>1, <2>5, <2>6, ZenonT(30) DEF IsNamed, IsBootPartition
  <2>8. CASE search.loop = "boot"
    <3>1. PointerTo(s) = boot_entry
      BY <2>8 DEF Ranking, Probed
    <3>2. s = u
      BY <2>2, <3>1 DEF PointerTo
    <3> QED BY <1>1, <2>3, <2>7, <3>2
  <2>9. CASE search.loop = "device"
    <3>1. u \in Probed("boot")
      BY <1>1, <2>2, <2>4 DEF Probed
    <3>2. "boot" \in Before(search.loop)
      BY <2>9 DEF Before
    <3>3. FilesOf(z) = {}
      BY <1>2, <2>3, <3>1, <3>2, SMTT(30) DEF SearchInv, Searched, Resolved, HasNone
    <3>4. FilesOf(y) = FilesOf(z)
      BY <1>1, <1>2, <1>3, <1>9, <2>3, <2>4, <2>5, <2>7, SameFiles
    <3> QED BY <1>1, <3>3, <3>4 DEF Ranking, HasNone
  <2> QED BY <1>6, <2>8, <2>9
<1> QED BY <1>1, <1>8, <1>9

LEMMA Ranked ==
    ASSUME NEW s, NEW t, Ranking(s, t)
    PROVE  Preference(Location(entry_buf.slots[s])) <= Preference(Location(entry_buf.slots[t]))
<1>1. PICK b, x, y : b = machine.boot /\ x = entry_buf.slots[s] /\ y = entry_buf.slots[t]
  BY Zenon
<1>2. b.type \in {"none", "PXE", "disk"}
  BY <1>1, SearchAssumption, SMTT(30) DEF Ranking, TableInv, PointerInv, MediaTypeOK
<1>3. CASE b.type = "none"
  BY <1>1, <1>3, PreferenceOf, SMTT(30)
<1>4. CASE b.type = "PXE"
  <2>1. y.entry_type = "PXE" => x.entry_type = "PXE"
    BY <1>1, <1>4, RankedNetwork, SMTT(30)
  <2> QED BY <1>1, <1>4, <2>1, PreferenceOf
<1>5. CASE b.type = "disk"
  <2>1. y.disk = b.disk => x.disk = b.disk /\ (IsNamed(y) => IsNamed(x))
    BY <1>1, <1>5, RankedDisk, SMTT(30)
  <2>2. /\ Preference(Location(x)) = IF x.disk # b.disk THEN 2 ELSE IF IsNamed(x) THEN 0 ELSE 1
        /\ Preference(Location(y)) = IF y.disk # b.disk THEN 2 ELSE IF IsNamed(y) THEN 0 ELSE 1
    BY <1>1, <1>5, PreferenceOf
  <2> QED BY <1>1, <2>1, <2>2
<1> QED BY <1>2, <1>3, <1>4, <1>5

LEMMA SearchKeepsOrder ==
    ASSUME WellFormedMachines, TableInv, OrderInv, SearchInv
    PROVE  ConfigByPreference
<1> SUFFICES ASSUME faults = 0 PROVE
      /\ pc \in {"load", "loaded"} =>
           /\ Location(origin_fs.entry) \in Present
           /\ origin_fs.path \in ConfigsOf(Location(origin_fs.entry))
           /\ \A j \in ConfigsOf(Location(origin_fs.entry)) : origin_fs.path <= j
           /\ \A m \in Present : ConfigsOf(m) # {} =>
                Preference(Location(origin_fs.entry)) <= Preference(m)
      /\ pc = "oops" => \A m \in Present : ConfigsOf(m) = {}
  BY Zenon DEF ConfigByPreference
<1>1. Searched
  BY DEF SearchInv
<1>2. ASSUME Detected, NEW m \in Present
      PROVE  \E t \in 1..Len(entry_buf.slots) :
               m = Location(entry_buf.slots[t]) /\ (ConfigsOf(m) = {} <=> HasNone(t))
  <2>1. PICK t \in 1..Len(entry_buf.slots) : m = Location(entry_buf.slots[t])
    BY <1>2, ExactSlots
  <2>2. ConfigsOf(m) = FilesOf(entry_buf.slots[t])
    BY <2>1, ConfigFiles
  <2> QED BY <2>1, <2>2, ZenonT(30) DEF HasNone
<1>3. CASE pc \in {"load", "loaded"}
  <2>1. PICK s \in Probed(search.loop) : FoundAt(s)
    BY <1>1, <1>3 DEF Searched
  <2>2. PICK x : x = entry_buf.slots[s]
    BY Zenon
  <2>3. /\ origin_fs.entry = x /\ origin_fs.path \in FilesOf(x)
        /\ \A j \in FilesOf(x) : origin_fs.path <= j
        /\ ~HasNone(s)
    BY <2>1, <2>2 DEF FoundAt, HasNone
  <2>4. Detected /\ s \in 1..Len(entry_buf.slots)
    BY <1>3, <2>1 DEF Detected, Probed
  <2>5. Location(x) \in Present /\ ConfigsOf(Location(x)) = FilesOf(x)
    BY <2>2, <2>4, ExactSlots, ConfigFiles, SMTT(30)
  <2>6. ASSUME NEW m \in Present, ConfigsOf(m) # {}
        PROVE  Preference(Location(x)) <= Preference(m)
    <3>1. PICK t \in 1..Len(entry_buf.slots) : m = Location(entry_buf.slots[t]) /\ ~HasNone(t)
      BY <1>2, <2>4, <2>6
    <3>2. Ranking(s, t)
      BY <1>3, <2>1, <2>3, <3>1 DEF Ranking
    <3> QED BY <2>2, <3>1, <3>2, Ranked
  <2> QED BY <1>3, <2>3, <2>5, <2>6
<1>4. CASE pc = "oops"
  <2>1. search.loop = "none"
    BY <1>1, <1>4 DEF Searched
  <2>2. \A t \in Probed("all") : HasNone(t)
    BY <1>1, <1>4, <2>1 DEF Searched, Resolved, Before
  <2>3. Probed("all") = 1..Len(entry_buf.slots)
    BY DEF Probed
  <2> QED BY <1>2, <1>4, <2>2, <2>3 DEF Detected
<1> QED BY <1>3, <1>4

\* The search keeps the order of preference on every machine whose partition tables
\* are well formed, with any number of disks, partitions and files: as long as
\* nothing fails, find_config_file takes the configuration of the boot partition
\* if it has one, else one of the boot device, else any, each time the first of
\* search_paths that the file system has; and init_config gives up only when no
\* file system of the machine has any.
THEOREM MediaConfigByPreference ==
    ASSUME WellFormedMachines
    PROVE  Spec => []ConfigByPreference
<1> DEFINE IInv == TableInv /\ OrderInv /\ SearchInv
<1>1. Init => IInv
  BY TableInitInv, OrderInitInv, SearchInitInv
<1>2. IInv /\ [Next]_vars => IInv'
  <2> SUFFICES ASSUME IInv, [Next]_vars PROVE IInv'
    OBVIOUS
  <2>1. TableInv'
    BY TableNextInv
  <2>2. OrderInv'
    BY OrderNextInv DEF TableInv
  <2>3. SearchInv'
    BY SearchNextInv
  <2> QED BY <2>1, <2>2, <2>3
<1>3. IInv => ConfigByPreference
  BY SearchKeepsOrder
<1> HIDE DEF IInv
<1> QED BY <1>1, <1>2, <1>3, PTL DEF Spec
=============================================================================

------------------------- MODULE BootMediaTableProofs -------------------------
(***************************************************************************)
(* The proof that detection without faults puts every file system of the   *)
(* machine in the table exactly once.                                      *)
(***************************************************************************)
EXTENDS BootMediaProofs

\* Which of the file systems of the machine detection has passed.
SeenOnDisk(q) ==
    \/ pc = "gpt" /\ q.entry_type = "GPT" /\ q.index < gpt.off
    \/ pc = "mbr" /\ q.entry_type = "MBR" /\ MbrSeen(Disk(disk_index), frames, q.index)
    \/ pc \in {"cd", "raw"} /\ q.entry_type # "RAW"
    \/ pc = "next_disk"

Visited(l) ==
    \/ l.disk = 0 /\ pc \notin Detecting
    \/ l.disk # 0 /\ l.disk < disk_index
    \/ l.disk # 0 /\ l.disk = disk_index /\ SeenOnDisk(l.at)

\* When nothing failed, these are the ones in the table, once each.
TableHolds(P) ==
    /\ {Location(e) : e \in Range(entry_buf.slots)} = P
    /\ Len(entry_buf.slots) = Cardinality(P)

NothingLost ==
    /\ lost = {}
    /\ pc = "gpt" => Disk(disk_index).gpt # <<>>
    /\ pc \in {"mbr_signature", "mbr"} => Disk(disk_index).gpt = <<>>
    /\ pc = "raw" => 0 \notin DOMAIN Disk(disk_index).iso
    /\ pc \notin Detecting => disk_index > Len(machine.disks)

TableGrows == faults = 0 => NothingLost /\ TableHolds({l \in Present : Visited(l)})

\* A file system of the machine is on the network, on a partition, or on a disk.
LEMMA PresentWhere ==
    ASSUME MediaTypeOK, NEW l \in Present
    PROVE  /\ l.disk \in Nat
           /\ l.disk = 0 => l = [disk |-> 0, at |-> PxeAt] /\ 0 \in DOMAIN machine.pxe
           /\ l.disk # 0 =>
                /\ l.disk \in DOMAIN machine.disks /\ l.disk <= Len(machine.disks)
                /\ l = [disk |-> l.disk, at |-> l.at]
                /\ \/ l.at \in Partitions(Disk(l.disk)) /\ l.at.lba \in DOMAIN Disk(l.disk).fat
                   \/ l.at = RawAt /\ 0 \in DOMAIN Disk(l.disk).fat \cup DOMAIN Disk(l.disk).iso
<1>1. DOMAIN machine.disks = 1..Len(machine.disks) /\ Len(machine.disks) \in Nat
  BY BootMediaAssumption DEF MediaTypeOK
<1>2. CASE \E i \in DOMAIN machine.disks : \E q \in Partitions(Disk(i)) :
             q.lba \in DOMAIN Disk(i).fat /\ l = [disk |-> i, at |-> q]
  <2>1. PICK i \in DOMAIN machine.disks : \E q \in Partitions(Disk(i)) :
             q.lba \in DOMAIN Disk(i).fat /\ l = [disk |-> i, at |-> q]
    BY <1>2
  <2>2. PICK q \in Partitions(Disk(i)) : q.lba \in DOMAIN Disk(i).fat /\ l = [disk |-> i, at |-> q]
    BY <2>1
  <2>3. l.disk = i /\ l.at = q /\ i \in Nat /\ i # 0 /\ i <= Len(machine.disks)
    BY <1>1, <2>2
  <2> QED BY <2>2, <2>3
<1>3. CASE \E i \in DOMAIN machine.disks :
             /\ 0 \in DOMAIN Disk(i).fat \cup DOMAIN Disk(i).iso
             /\ l = [disk |-> i, at |-> RawAt]
  <2>1. PICK i \in DOMAIN machine.disks :
             /\ 0 \in DOMAIN Disk(i).fat \cup DOMAIN Disk(i).iso
             /\ l = [disk |-> i, at |-> RawAt]
    BY <1>3
  <2>2. l.disk = i /\ l.at = RawAt /\ i \in Nat /\ i # 0 /\ i <= Len(machine.disks)
    BY <1>1, <2>1
  <2> QED BY <2>1, <2>2
<1>4. CASE 0 \in DOMAIN machine.pxe /\ l = [disk |-> 0, at |-> PxeAt]
  BY <1>4
<1> QED BY <1>2, <1>3, <1>4, PresentIff

\* A table that holds what has been passed goes on doing so when the entry that
\* is added is what is passed.
LEMMA TableStep ==
    ASSUME BufferType(entry_buf), UNCHANGED machine, NEW S,
           TableHolds({l \in Present : Visited(l)}),
           \A l \in Present : Visited(l)' <=> Visited(l) \/ l \in S,
           \/ UNCHANGED entry_buf /\ S = {}
           \/ \E e : /\ Added(e) /\ S = {Location(e)}
                     /\ Location(e) \in Present /\ ~Visited(Location(e))
    PROVE  TableHolds({l \in Present : Visited(l)})'
<1> DEFINE P == {l \in Present : Visited(l)}
<1>1. Present' = Present
  BY PresentSame
<1>2. P' = {l \in Present : Visited(l) \/ l \in S}
  BY <1>1
<1>3. /\ {Location(e) : e \in Range(entry_buf.slots)} = P
      /\ Len(entry_buf.slots) = Cardinality(P)
      /\ IsSequence(entry_buf.slots)
  BY DEF TableHolds, BufferType
<1>4. CASE UNCHANGED entry_buf /\ S = {}
  <2>1. P' = P
    BY <1>2, <1>4
  <2> HIDE DEF P
  <2> QED BY <1>3, <1>4, <2>1, Zenon DEF TableHolds, P, Location
<1>5. CASE \E e : /\ Added(e) /\ S = {Location(e)}
                  /\ Location(e) \in Present /\ ~Visited(Location(e))
  <2>1. PICK e : /\ Added(e) /\ S = {Location(e)}
                 /\ Location(e) \in Present /\ ~Visited(Location(e))
    BY <1>5
  <2>2. P' = P \cup {Location(e)} /\ Location(e) \notin P
    BY <1>2, <2>1
  <2> HIDE DEF P
  <2>3. PICK s, n : s = entry_buf.slots /\ n = Len(s)
    BY Zenon
  <2>4. n \in Nat /\ IsSequence(s) /\ DOMAIN s = 1..n /\ Range(s) = {s[k] : k \in 1..n}
    <3>1. s \in Seq(Range(s))
      BY <1>3, <2>3 DEF IsSequence
    <3>2. n \in Nat /\ DOMAIN s = 1..n
      BY <2>3, <3>1, LenProperties
    <3> QED BY <1>3, <2>3, <3>2 DEF Range
  <2>5. IsFiniteSet(P)
    <3> DEFINE f == [k \in 1..n |-> Location(s[k])]
    <3>1. P = {Location(x) : x \in Range(s)}
      BY <1>3, <2>3
    <3>2. f \in Surjection(1..n, P)
      BY <2>4, <3>1 DEF Surjection
    <3>3. IsFiniteSet(1..n)
      BY <2>4, FS_Interval
    <3> HIDE DEF f
    <3> QED BY <3>2, <3>3, FS_Surjection
  <2>6. Cardinality(P \cup {Location(e)}) = Cardinality(P) + 1
    BY <2>2, <2>5, FS_AddElement
  <2>7. /\ Len(entry_buf'.slots) = n + 1
        /\ Range(entry_buf'.slots) = Range(s) \cup {e}
    BY <2>1, <2>3, <2>4, SlotAppended DEF Added
  <2>8. {Location(x) : x \in Range(entry_buf'.slots)} = P \cup {Location(e)}
    BY <1>3, <2>3, <2>7
  <2>9. Len(entry_buf'.slots) = Cardinality(P \cup {Location(e)})
    BY <1>3, <2>3, <2>6, <2>7
  <2> QED BY <2>2, <2>8, <2>9, Zenon DEF TableHolds, P, Location
<1> QED BY <1>4, <1>5

\* A step on one disk passes only what is on it.
LEMMA OneDisk ==
    ASSUME MediaTypeOK, UNCHANGED <<machine, disk_index>>, pc \in Detecting, pc' \in Detecting,
           NEW S, \A l \in S : l.disk = disk_index,
           \A l \in Present : l.disk = disk_index => (SeenOnDisk(l.at)' <=> SeenOnDisk(l.at) \/ l \in S)
    PROVE  \A l \in Present : Visited(l)' <=> Visited(l) \/ l \in S
<1>1. disk_index \in Nat \ {0}
  BY DEF MediaTypeOK
<1> SUFFICES ASSUME NEW l \in Present PROVE Visited(l)' <=> Visited(l) \/ l \in S
  OBVIOUS
<1>2. l.disk \in Nat
  BY PresentWhere
<1>3. CASE l.disk = disk_index
  BY <1>1, <1>3 DEF Visited
<1>4. CASE l.disk # disk_index
  BY <1>1, <1>4 DEF Visited
<1> QED BY <1>3, <1>4

Exact == NothingLost /\ TableHolds({l \in Present : Visited(l)})
ExactInv == WellFormedMachines /\ MediaTypeOK /\ WalkInv /\ Exact

\* What is on the disk that detection is at.
LEMMA OnThisDisk ==
    ASSUME MediaTypeOK, NEW l \in Present, l.disk = disk_index
    PROVE  LET d == Disk(disk_index) IN
           /\ disk_index \in DOMAIN machine.disks
           /\ l = [disk |-> disk_index, at |-> l.at]
           /\ \/ l.at \in Partitions(d) /\ l.at.lba \in DOMAIN d.fat
              \/ l.at = RawAt /\ 0 \in DOMAIN d.fat \cup DOMAIN d.iso
BY PresentWhere DEF MediaTypeOK

\* Steps of detection that come to no partition.
LEMMA ExactBetween ==
    ASSUME ExactInv, faults' = 0, BeginDisk \/ GptInitialize \/ GptDone \/ MbrInitialize
    PROVE  Exact'
<1>1. /\ WellFormedMachines /\ MediaTypeOK /\ GptSane /\ NothingLost /\ BufferType(entry_buf)
      /\ faults \in Nat /\ TableHolds({l \in Present : Visited(l)}) /\ disk_index \in Nat \ {0}
  BY DEF ExactInv, Exact, WalkInv, MediaTypeOK
<1>2. /\ UNCHANGED <<machine, disk_index, entry_buf>>
      /\ pc \in {"disk", "gpt_signature", "gpt", "mbr_signature"} /\ pc \in Detecting
      /\ pc' \in {"gpt_signature", "cd", "mbr_signature", "gpt", "mbr"} /\ pc' \in Detecting
  BY DEF BeginDisk, GptInitialize, GptDone, MbrInitialize, Detecting, OnDisk
<1>3. UNCHANGED lost /\ ~Fails(1)
  BY <1>1, FailsEffect DEF BeginDisk, GptInitialize, GptDone, MbrInitialize
<1>4. PICK d : d = Disk(disk_index) /\ d = Disk(disk_index)'
  BY <1>2 DEF Disk
<1>5. NothingLost'
  <2>1. lost' = {} /\ pc' # "raw"
    BY <1>1, <1>2, <1>3 DEF NothingLost
  <2>2. CASE BeginDisk
    BY <1>2, <1>3, <2>1, <2>2 DEF BeginDisk, NothingLost
  <2>3. CASE GptInitialize
    BY <1>2, <1>3, <1>4, <2>1, <2>3 DEF GptInitialize, NothingLost
  <2>4. CASE GptDone
    BY <1>2, <2>1, <2>4 DEF GptDone, NothingLost
  <2>5. CASE MbrInitialize
    <3>1. pc = "mbr_signature" /\ pc' \in {"mbr", "cd"}
      BY <2>5 DEF MbrInitialize
    <3>2. d.gpt = <<>>
      BY <1>1, <1>4, <3>1 DEF NothingLost
    <3> QED BY <1>2, <1>4, <2>1, <3>1, <3>2 DEF NothingLost
  <2> QED BY <2>2, <2>3, <2>4, <2>5
<1>6. ASSUME NEW l \in Present, l.disk = disk_index
      PROVE  SeenOnDisk(l.at)' <=> SeenOnDisk(l.at)
  <2>1. PICK q : q = l.at
    OBVIOUS
  <2>2. \/ q \in Partitions(d) /\ q.lba \in DOMAIN d.fat
        \/ q = RawAt
    BY <1>1, <1>4, <1>6, <2>1, OnThisDisk
  <2>3. CASE BeginDisk
    <3>1. pc = "disk" /\ pc' = "gpt_signature"
      BY <1>3, <2>3 DEF BeginDisk
    <3> QED BY <3>1 DEF SeenOnDisk
  <2>4. CASE GptInitialize
    <3>1. pc = "gpt_signature"
      BY <2>4 DEF GptInitialize
    <3>2. CASE pc' = "mbr_signature"
      BY <3>1, <3>2 DEF SeenOnDisk
    <3>3. CASE pc' # "mbr_signature"
      <4>1. pc' = "gpt" /\ gpt'.off = 0 /\ d.gpt # <<>>
        BY <1>3, <1>4, <2>4, <3>3 DEF GptInitialize
      <4>2. ~(q.entry_type = "GPT" /\ q.index < 0)
        <5>1. CASE q = RawAt
          BY <5>1 DEF RawAt
        <5>2. CASE q \in Partitions(d)
          <6>1. PICK k \in DOMAIN d.gpt : q = GptAt(d, k)
            BY <4>1, <5>2, GptPartitions
          <6>2. DiskType(d)
            BY <1>1, <1>4, <3>1, AtDisk DEF OnDisk
          <6>3. k \in Nat \ {0}
            <7>1. PICK g : g = d.gpt
              OBVIOUS
            <7>2. g \in Seq([used : BOOLEAN, start : Nat, guid : Nat]) /\ k \in DOMAIN g
              BY <6>2, <7>1 DEF DiskType
            <7> QED BY <7>2
          <6>4. q.index = k - 1
            BY <6>1 DEF GptAt
          <6> QED BY <6>3, <6>4
        <5> QED BY <2>2, <5>1, <5>2
      <4> QED BY <2>1, <3>1, <4>1, <4>2 DEF SeenOnDisk
    <3> QED BY <3>2, <3>3
  <2>5. CASE GptDone
    <3>1. pc = "gpt" /\ pc' = "cd" /\ gpt.part_idx = Len(d.gpt)
      BY <1>4, <2>5, Zenon DEF GptDone
    <3>2. d.gpt # <<>> /\ gpt.off = Len(d.gpt) /\ DiskType(d)
      BY <1>1, <1>4, <3>1, AtDisk DEF NothingLost, GptSane, OnDisk
    <3>3. CASE q = RawAt
      BY <2>1, <3>1, <3>3 DEF SeenOnDisk, RawAt
    <3>4. CASE q \in Partitions(d)
      <4>1. PICK k \in DOMAIN d.gpt : q = GptAt(d, k)
        BY <3>2, <3>4, GptPartitions
      <4>2. k \in 1..Len(d.gpt) /\ Len(d.gpt) \in Nat
        <5>1. PICK g : g = d.gpt
          OBVIOUS
        <5>2. g \in Seq([used : BOOLEAN, start : Nat, guid : Nat]) /\ k \in DOMAIN g
          BY <3>2, <5>1 DEF DiskType
        <5> QED BY <5>1, <5>2
      <4>3. q.entry_type = "GPT" /\ q.index = k - 1
        BY <4>1 DEF GptAt
      <4>4. q.index < gpt.off
        BY <3>2, <4>2, <4>3
      <4> QED BY <2>1, <3>1, <4>3, <4>4 DEF SeenOnDisk
    <3> QED BY <2>2, <3>3, <3>4
  <2>6. CASE MbrInitialize
    <3>1. pc = "mbr_signature" /\ d.gpt = <<>>
      BY <1>1, <1>4, <2>6 DEF MbrInitialize, NothingLost
    <3>2. \/ 0 \notin DOMAIN d.mbr /\ pc' = "cd"
          \/ 0 \in DOMAIN d.mbr /\ pc' = "mbr" /\ frames' = <<Frame(0, 0)>>
      BY <1>3, <1>4, <2>6 DEF MbrInitialize
    <3>3. ~SeenOnDisk(q)
      BY <3>1 DEF SeenOnDisk
    <3>4. CASE 0 \notin DOMAIN d.mbr /\ pc' = "cd"
      <4>1. q = RawAt
        BY <2>2, <3>1, <3>4 DEF Partitions
      <4> QED BY <2>1, <3>3, <3>4, <4>1 DEF SeenOnDisk, RawAt
    <3>5. CASE 0 \in DOMAIN d.mbr /\ pc' = "mbr" /\ frames' = <<Frame(0, 0)>>
      <4>1. ~(q.entry_type = "MBR" /\ MbrSeen(d, <<Frame(0, 0)>>, q.index))
        <5>1. CASE q = RawAt
          BY <5>1 DEF RawAt
        <5>2. CASE q \in Partitions(d)
          <6>1. MbrOnly(d)
            BY <1>1, <1>4, <3>1, <3>5, AtDisk DEF MbrOnly, OnDisk
          <6>2. q.index \in 0..5
            BY <5>2, <6>1, MbrIndex
          <6>3. PICK t : t = <<Frame(0, 0)>>
            BY Zenon
          <6>4. Len(t) = 1 /\ t[1].i = 0
            BY <6>3 DEF Frame
          <6>5. ~MbrSeen(d, t, q.index)
            BY <6>2, <6>4 DEF MbrSeen
          <6> QED BY <6>3, <6>5
        <5> QED BY <2>2, <5>1, <5>2
      <4>2. MbrSeen(d, frames', q.index) <=> MbrSeen(d, <<Frame(0, 0)>>, q.index)
        BY <3>5
      <4> QED BY <1>4, <2>1, <3>3, <3>5, <4>1, <4>2 DEF SeenOnDisk
    <3> QED BY <3>2, <3>4, <3>5
  <2> QED BY <2>3, <2>4, <2>5, <2>6
<1>7. PICK S : S = {}
  BY Zenon
<1>8. \A l \in Present : Visited(l)' <=> Visited(l) \/ l \in S
  <2>1. /\ \A l \in S : l.disk = disk_index
        /\ \A l \in Present :
             l.disk = disk_index => (SeenOnDisk(l.at)' <=> SeenOnDisk(l.at) \/ l \in S)
    BY <1>6, <1>7
  <2> QED BY <1>1, <1>2, <2>1, OneDisk
<1>9. TableHolds({l \in Present : Visited(l)})'
  BY <1>1, <1>2, <1>7, <1>8, TableStep
<1> QED BY <1>5, <1>9 DEF Exact

\* The step that comes to a partition, or to the whole disk: S is the file system
\* that is found there, if there is one.
LEMMA ExactOnDisk ==
    ASSUME ExactInv, UNCHANGED <<machine, disk_index>>, pc \in Detecting, pc' \in Detecting,
           NEW S,
           \/ UNCHANGED entry_buf /\ S = {}
           \/ \E e : /\ Added(e) /\ S = {Location(e)} /\ Location(e) \in Present
                     /\ Location(e).disk = disk_index /\ ~SeenOnDisk(Location(e).at),
           \A l \in Present : l.disk = disk_index => (SeenOnDisk(l.at)' <=> SeenOnDisk(l.at) \/ l \in S)
    PROVE  TableHolds({l \in Present : Visited(l)})'
<1>1. /\ MediaTypeOK /\ BufferType(entry_buf) /\ TableHolds({l \in Present : Visited(l)})
      /\ disk_index \in Nat \ {0}
  BY DEF ExactInv, Exact, MediaTypeOK
<1>2. /\ \A l \in S : l.disk = disk_index
      /\ \/ UNCHANGED entry_buf /\ S = {}
         \/ \E e : /\ Added(e) /\ S = {Location(e)}
                   /\ Location(e) \in Present /\ ~Visited(Location(e))
  <2>1. CASE UNCHANGED entry_buf /\ S = {}
    BY <2>1
  <2>2. CASE \E e : /\ Added(e) /\ S = {Location(e)} /\ Location(e) \in Present
                    /\ Location(e).disk = disk_index /\ ~SeenOnDisk(Location(e).at)
    <3>1. PICK e : /\ Added(e) /\ S = {Location(e)} /\ Location(e) \in Present
                   /\ Location(e).disk = disk_index /\ ~SeenOnDisk(Location(e).at)
      BY <2>2
    <3>2. ~Visited(Location(e))
      BY <1>1, <3>1 DEF Visited
    <3> QED BY <3>1, <3>2
  <2> QED BY <2>1, <2>2
<1>3. \A l \in Present : Visited(l)' <=> Visited(l) \/ l \in S
  BY <1>1, <1>2, OneDisk
<1> QED BY <1>1, <1>2, <1>3, TableStep

\* gpt_do_initialize at an entry.
LEMMA ExactGpt ==
    ASSUME ExactInv, faults' = 0, GptPartition
    PROVE  Exact'
<1>1. /\ WellFormedMachines /\ MediaTypeOK /\ GptSane /\ NothingLost /\ BufferType(entry_buf)
      /\ faults \in Nat
  BY DEF ExactInv, Exact, WalkInv, MediaTypeOK
<1>2. /\ UNCHANGED <<machine, disk_index, pc>> /\ pc = "gpt" /\ pc \in Detecting
      /\ gpt.part_idx < Len(Disk(disk_index).gpt)
  BY DEF GptPartition, Detecting, OnDisk
<1>3. PICK d, k : d = Disk(disk_index) /\ k = gpt.off + 1 /\ AtGptEntry(d, k)
  BY DEF AtGptEntry
<1>4. ~Fails(1) /\ (Fails(0) => UNCHANGED lost)
  BY <1>1, FailsEffect
<1>5. /\ gpt' = NextEntry(gpt, d.gpt[k]) /\ UNCHANGED lost
      /\ \/ d.gpt[k].used /\ d.gpt[k].start \in DOMAIN d.fat /\ Added(GptFse(d, k))
         \/ ~(d.gpt[k].used /\ d.gpt[k].start \in DOMAIN d.fat) /\ UNCHANGED entry_buf
  <2>1. /\ gpt' = NextEntry(gpt, d.gpt[k])
        /\ \/ d.gpt[k].used /\ Detect(d.fat, d.gpt[k].start, GptFse(d, k))
           \/ ~d.gpt[k].used /\ UNCHANGED entry_buf /\ Fails(0)
    BY <1>3, <1>4 DEF GptPartition, GptFse
  <2> QED BY <1>1, <1>4, <2>1, DetectEffect
<1>6. /\ gpt.off \in Nat /\ gpt.off = gpt.part_idx /\ gpt'.off = gpt.off + 1
      /\ disk_index \notin lost /\ d.gpt # <<>> /\ k - 1 = gpt.off
  BY <1>1, <1>2, <1>3, <1>5 DEF GptSane, NothingLost, NextEntry
<1>7. DiskType(d) /\ Disk(disk_index)' = d
  BY <1>1, <1>2, <1>3, AtDisk DEF OnDisk, Disk
<1>8. NothingLost'
  BY <1>1, <1>2, <1>3, <1>5, <1>6, <1>7 DEF NothingLost
<1>9. PICK g : g = [disk |-> disk_index, at |-> GptAt(d, k)]
  BY Zenon
<1>10. g.disk = disk_index /\ g.at = GptAt(d, k) /\ g.at.entry_type = "GPT" /\ g.at.index = gpt.off
  BY <1>6, <1>9 DEF GptAt
<1>11. ASSUME NEW l \in Present, l.disk = disk_index
       PROVE  SeenOnDisk(l.at)' <=> SeenOnDisk(l.at) \/ l = g
  <2>1. PICK q : q = l.at
    OBVIOUS
  <2>2. /\ (q \in Partitions(d) /\ q.lba \in DOMAIN d.fat) \/ q = RawAt
        /\ l = [disk |-> disk_index, at |-> q]
    BY <1>1, <1>3, <1>11, <2>1, OnThisDisk
  <2>3. CASE q = RawAt
    <3>1. q.entry_type = "RAW"
      BY <2>3 DEF RawAt
    <3> QED BY <1>2, <1>10, <2>1, <3>1 DEF SeenOnDisk
  <2>4. CASE q \in Partitions(d)
    <3>1. PICK j \in DOMAIN d.gpt : q = GptAt(d, j)
      BY <1>6, <2>4, GptPartitions
    <3>2. j \in Nat \ {0}
      <4>1. PICK h : h = d.gpt
        OBVIOUS
      <4>2. h \in Seq([used : BOOLEAN, start : Nat, guid : Nat]) /\ j \in DOMAIN h
        BY <1>7, <4>1 DEF DiskType
      <4> QED BY <4>2
    <3>3. q.entry_type = "GPT" /\ q.index = j - 1
      BY <3>1 DEF GptAt
    <3>4. l = g <=> j = k
      BY <1>3, <1>6, <1>9, <1>10, <2>1, <2>2, <3>1, <3>2, <3>3
    <3>5. q.index < gpt.off + 1 <=> q.index < gpt.off \/ j = k
      BY <1>3, <1>6, <3>2, <3>3
    <3> QED BY <1>2, <1>6, <2>1, <3>3, <3>4, <3>5 DEF SeenOnDisk
  <2> QED BY <2>2, <2>3, <2>4
<1>12. ~SeenOnDisk(g.at)
  BY <1>2, <1>6, <1>10 DEF SeenOnDisk
<1>13. TableHolds({l \in Present : Visited(l)})'
  <2>1. CASE d.gpt[k].used /\ d.gpt[k].start \in DOMAIN d.fat /\ Added(GptFse(d, k))
    <3>1. PICK e : e = GptFse(d, k)
      OBVIOUS
    <3>2. g \in Present /\ Location(e) = g
      BY <1>1, <1>3, <1>6, <1>9, <2>1, <3>1, GptEntry
    <3>3. PICK S : S = {g}
      BY Zenon
    <3>4. /\ Added(e) /\ S = {Location(e)} /\ Location(e) \in Present
          /\ Location(e).disk = disk_index /\ ~SeenOnDisk(Location(e).at)
      BY <1>10, <1>12, <2>1, <3>1, <3>2, <3>3
    <3>5. \A l \in Present : l.disk = disk_index => (SeenOnDisk(l.at)' <=> SeenOnDisk(l.at) \/ l \in S)
      BY <1>11, <3>3
    <3> QED BY <1>2, <3>4, <3>5, ExactOnDisk, Zenon
  <2>2. CASE ~(d.gpt[k].used /\ d.gpt[k].start \in DOMAIN d.fat) /\ UNCHANGED entry_buf
    <3>1. g \notin Present
      <4> SUFFICES ASSUME g \in Present PROVE FALSE
        OBVIOUS
      <4>1. PICK q : q = g.at
        OBVIOUS
      <4>2. q \in Partitions(d) /\ q.lba \in DOMAIN d.fat
        <5>1. q # RawAt
          BY <1>10, <4>1 DEF RawAt
        <5> QED BY <1>1, <1>3, <1>10, <4>1, <5>1, OnThisDisk
      <4>3. PICK j \in DOMAIN d.gpt : d.gpt[j].used /\ q = GptAt(d, j)
        BY <1>6, <4>2, GptPartitions
      <4>4. j \in Nat
        <5>1. PICK h : h = d.gpt
          OBVIOUS
        <5>2. h \in Seq([used : BOOLEAN, start : Nat, guid : Nat]) /\ j \in DOMAIN h
          BY <1>7, <5>1 DEF DiskType
        <5> QED BY <5>2
      <4>5. q.index = j - 1 /\ q.lba = d.gpt[j].start
        BY <4>3 DEF GptAt
      <4>6. j = k
        BY <1>3, <1>6, <1>10, <4>1, <4>4, <4>5
      <4> QED BY <2>2, <4>2, <4>3, <4>5, <4>6
    <3>2. PICK S : S = {}
      BY Zenon
    <3>3. \A l \in Present : l.disk = disk_index => (SeenOnDisk(l.at)' <=> SeenOnDisk(l.at) \/ l \in S)
      BY <1>11, <3>1, <3>2
    <3> QED BY <1>2, <2>2, <3>2, <3>3, ExactOnDisk, Zenon
  <2> QED BY <1>5, <2>1, <2>2
<1> QED BY <1>8, <1>13 DEF Exact

\* What has been passed on an MBR disk is what its walk has passed.
LEMMA MbrSeenOnDisk ==
    ASSUME NEW d, MbrOnly(d), d = Disk(disk_index), pc = "mbr",
           NEW q, q \in Partitions(d) \/ q = RawAt
    PROVE  SeenOnDisk(q) <=> q \in Partitions(d) /\ MbrSeen(d, frames, q.index)
<1>1. CASE q \in Partitions(d)
  BY <1>1, MbrIndex DEF SeenOnDisk
<1>2. CASE q = RawAt
  <2>1. q.entry_type = "RAW"
    BY <1>2 DEF RawAt
  <2>2. q \notin Partitions(d)
    BY <2>1, MbrIndex
  <2> QED BY <2>1, <2>2 DEF SeenOnDisk
<1> QED BY <1>1, <1>2

\* mbr_do_initialize at an entry.
LEMMA ExactMbr ==
    ASSUME ExactInv, faults' = 0, MbrPartition
    PROVE  Exact'
<1>1. /\ WellFormedMachines /\ MediaTypeOK /\ FramesSane /\ NothingLost /\ BufferType(entry_buf)
      /\ faults \in Nat
  BY DEF ExactInv, Exact, WalkInv, MediaTypeOK
<1>2. UNCHANGED <<machine, disk_index, pc>> /\ pc = "mbr" /\ pc \in Detecting
  BY DEF MbrPartition, Detecting, OnDisk
<1>3. PICK d, n, f, p : AtEntry(d, n, f, p)
  BY Zenon DEF AtEntry
<1>4. PICK next : next = [frames EXCEPT ![n] = Advanced(f)]
  BY Zenon
<1>5. d = Disk(disk_index) /\ d = Disk(disk_index)'
  BY <1>2, <1>3 DEF AtEntry, Disk
<1>6. f.i < (IF n = 1 THEN 4 ELSE 2) /\ frames # <<>> /\ MbrMoves(d, n, f, p, next)
  BY <1>1, <1>3, <1>4, MbrMove, Zenon
<1>7. Passes(d, n, f, p, next)
  BY <1>1, <1>3, <1>4, NextFrames, ZenonT(30)
<1>8. WalkOf(d, frames, n, f, p)
  <2>1. /\ DiskType(d) /\ WellFormed(d) /\ SaneWalk(d, frames) /\ frames \in Seq(FrameType)
        /\ n \in {1, 2, 3}
    BY <1>7 DEF Passes
  <2>2. d.gpt = <<>>
    BY <1>1, <1>2, <1>5 DEF NothingLost
  <2>3. MbrOnly(d)
    BY <2>1, <2>2 DEF MbrOnly, SaneWalk
  <2> QED BY <1>3, <2>1, <2>3 DEF WalkOf, AtEntry
<1>9. MbrOnly(d)
  BY <1>8 DEF WalkOf
<1>10. ~Fails(1) /\ (Fails(0) => UNCHANGED lost)
  BY <1>1, FailsEffect
<1>11. /\ UNCHANGED lost
       /\ \/ UNCHANGED entry_buf /\ ~DataEntry(d, n, f, p)
          \/ DataEntry(d, n, f, p) /\ Added(MbrFse(f, p)) /\ frames' = next
       /\ \/ p.type # "ebr" /\ frames' = next
          \/ /\ n # 1
             /\ \/ p.type = "ebr" /\ f.i = 0
                \/ p.type = "data" /\ f.i = 1
             /\ frames' = Front(frames)
          \/ /\ p.type = "ebr" /\ (n = 1 \/ f.i # 0)
             /\ frames' = Append(next, Frame(NestedBase(f), f.sector + p.first))
  <2>1. CASE /\ p.type = "data" /\ (n = 1 \/ f.i # 1)
             /\ frames' = next
             /\ Detect(d.fat, f.sector + p.first, MbrFse(f, p))
    <3>1. /\ UNCHANGED lost
          /\ \/ f.sector + p.first \notin DOMAIN d.fat /\ UNCHANGED entry_buf
             \/ f.sector + p.first \in DOMAIN d.fat /\ Added(MbrFse(f, p))
      BY <1>1, <1>10, <2>1, DetectEffect
    <3> QED BY <2>1, <3>1 DEF DataEntry
  <2>2. CASE ~ /\ p.type = "data" /\ (n = 1 \/ f.i # 1)
               /\ frames' = next
               /\ Detect(d.fat, f.sector + p.first, MbrFse(f, p))
    BY <1>6, <1>10, <2>2 DEF MbrMoves, DataEntry, MbrFse
  <2> QED BY <2>1, <2>2
<1>12. NothingLost'
  BY <1>1, <1>2, <1>5, <1>11 DEF NothingLost
<1>13. PICK g : g = [disk |-> disk_index, at |-> MbrAt(f.base + f.i, f.sector + p.first)]
  BY Zenon
<1>14. ASSUME NEW q \in Partitions(d), q.lba \in DOMAIN d.fat
       PROVE  MbrSeen(d, frames', q.index) <=>
                \/ MbrSeen(d, frames, q.index)
                \/ DataEntry(d, n, f, p) /\ q = MbrAt(f.base + f.i, f.sector + p.first)
  <2>1. CASE p.type # "ebr" /\ frames' = next
    <3>1. MbrSeen(d, frames', q.index) <=>
            \/ MbrSeen(d, frames, q.index)
            \/ q.index = f.base + f.i /\ (n = 1 \/ f.i = 0)
      <4>1. Len(next) = n /\ (\A k \in 1..n-1 : next[k] = frames[k]) /\ next[n].i = f.i + 1
        BY <1>7 DEF Passes
      <4> QED BY <1>6, <1>8, <2>1, <4>1, SeenOn, SMTT(30)
    <3>2. ASSUME q.index = f.base + f.i, n = 1 \/ f.i = 0
          PROVE  DataEntry(d, n, f, p) /\ q = MbrAt(f.base + f.i, f.sector + p.first)
      <4>1. p.type = "data" /\ q = MbrAt(f.base + f.i, f.sector + p.first)
        BY <1>6, <1>8, <3>2, EntryAt
      <4>2. q.lba = f.sector + p.first
        BY <4>1 DEF MbrAt
      <4> QED BY <1>14, <3>2, <4>1, <4>2 DEF DataEntry
    <3>3. ASSUME DataEntry(d, n, f, p), q = MbrAt(f.base + f.i, f.sector + p.first)
          PROVE  q.index = f.base + f.i /\ (n = 1 \/ f.i = 0)
      <4>1. q.index = f.base + f.i
        BY <3>3 DEF MbrAt
      <4>2. f.i \in Nat
        BY <1>8, WalkFacts
      <4> QED BY <1>6, <3>3, <4>1, <4>2 DEF DataEntry
    <3> QED BY <3>1, <3>2, <3>3
  <2>2. CASE /\ n # 1
             /\ \/ p.type = "ebr" /\ f.i = 0
                \/ p.type = "data" /\ f.i = 1
             /\ frames' = Front(frames)
    <3>1. Len(Front(frames)) = n - 1 /\ \A k \in 1..n-1 : Front(frames)[k] = frames[k]
      BY <1>7 DEF Passes
    <3>2. MbrSeen(d, frames', q.index) <=> MbrSeen(d, frames, q.index)
      BY <1>8, <2>2, <3>1, SeenBack
    <3>3. ~DataEntry(d, n, f, p)
      BY <2>2 DEF DataEntry
    <3> QED BY <3>2, <3>3
  <2>3. CASE /\ p.type = "ebr" /\ (n = 1 \/ f.i # 0)
             /\ frames' = Append(next, Frame(NestedBase(f), f.sector + p.first))
    <3>1. Entered(d, frames, n, f, frames')
      BY <1>7, <2>3 DEF Passes
    <3>2. MbrSeen(d, frames', q.index) <=> MbrSeen(d, frames, q.index)
      BY <1>8, <3>1, SeenInto
    <3>3. ~DataEntry(d, n, f, p)
      BY <2>3 DEF DataEntry
    <3> QED BY <3>2, <3>3
  <2> QED BY <1>11, <2>1, <2>2, <2>3
<1>15. ASSUME NEW l \in Present, l.disk = disk_index
       PROVE  SeenOnDisk(l.at)' <=> SeenOnDisk(l.at) \/ (DataEntry(d, n, f, p) /\ l = g)
  <2>1. PICK q : q = l.at
    OBVIOUS
  <2>2. /\ (q \in Partitions(d) /\ q.lba \in DOMAIN d.fat) \/ q = RawAt
        /\ l = [disk |-> disk_index, at |-> q]
    BY <1>1, <1>5, <1>15, <2>1, OnThisDisk
  <2>3. SeenOnDisk(q) <=> q \in Partitions(d) /\ MbrSeen(d, frames, q.index)
    BY <1>2, <1>5, <1>9, <2>2, MbrSeenOnDisk
  <2>4. SeenOnDisk(q)' <=> q \in Partitions(d) /\ MbrSeen(d, frames', q.index)
    <3>1. q \in Partitions(d) => q.entry_type = "MBR"
      BY <1>9, MbrIndex
    <3>2. q = RawAt => q.entry_type = "RAW"
      BY DEF RawAt
    <3> QED BY <1>2, <1>5, <2>2, <3>1, <3>2 DEF SeenOnDisk
  <2>5. l = g <=> q = MbrAt(f.base + f.i, f.sector + p.first)
    BY <1>13, <2>1, <2>2
  <2>6. q = MbrAt(f.base + f.i, f.sector + p.first) => q # RawAt
    BY DEF MbrAt, RawAt
  <2>7. q \in Partitions(d) /\ q.lba \in DOMAIN d.fat =>
          (MbrSeen(d, frames', q.index) <=>
                \/ MbrSeen(d, frames, q.index)
                \/ DataEntry(d, n, f, p) /\ q = MbrAt(f.base + f.i, f.sector + p.first))
    BY <1>14
  <2>8. CASE q \in Partitions(d) /\ q.lba \in DOMAIN d.fat
    <3>1. SeenOnDisk(q)' <=> SeenOnDisk(q) \/ (DataEntry(d, n, f, p) /\ l = g)
      BY <2>3, <2>4, <2>5, <2>7, <2>8
    <3> QED BY <2>1, <3>1
  <2>9. CASE q = RawAt
    <3>1. q \notin Partitions(d)
      <4>1. q.entry_type = "RAW"
        BY <2>9 DEF RawAt
      <4> QED BY <1>9, <4>1, MbrIndex
    <3>2. ~SeenOnDisk(q)' /\ ~SeenOnDisk(q) /\ l # g
      BY <2>3, <2>4, <2>5, <2>6, <2>9, <3>1
    <3> QED BY <2>1, <3>2
  <2> QED BY <2>2, <2>8, <2>9
<1>16. TableHolds({l \in Present : Visited(l)})'
  <2>1. CASE DataEntry(d, n, f, p) /\ Added(MbrFse(f, p)) /\ frames' = next
    <3>1. PICK e : e = MbrFse(f, p)
      OBVIOUS
    <3>2. g \in Present /\ Location(e) = g /\ g.disk = disk_index
      BY <1>1, <1>3, <1>13, <2>1, <3>1, MbrEntry
    <3>3. ~SeenOnDisk(g.at)
      <4>1. PICK q : q = g.at
        OBVIOUS
      <4>2. q = MbrAt(f.base + f.i, f.sector + p.first) /\ q.index = f.base + f.i
            /\ q.entry_type = "MBR"
        BY <1>13, <4>1 DEF MbrAt
      <4>3. q \in Partitions(d)
        <5>1. q # RawAt
          BY <4>2 DEF RawAt
        <5> QED BY <1>1, <1>5, <3>2, <4>1, <5>1, OnThisDisk
      <4>4. ~MbrSeen(d, frames, q.index)
        <5>1. Len(next) = n /\ (\A k \in 1..n-1 : next[k] = frames[k]) /\ next[n].i = f.i + 1
          BY <1>7 DEF Passes
        <5>2. p.type # "ebr" /\ (n = 1 \/ f.i = 0)
          <6>1. f.i \in Nat
            BY <1>8, WalkFacts
          <6> QED BY <1>6, <2>1, <6>1, SMTT(30) DEF DataEntry
        <5> QED BY <1>6, <1>8, <4>2, <4>3, <5>1, <5>2, SeenOn
      <4> QED BY <1>2, <1>5, <1>9, <4>1, <4>3, <4>4, MbrSeenOnDisk
    <3>4. PICK S : S = {g}
      BY Zenon
    <3>5. /\ Added(e) /\ S = {Location(e)} /\ Location(e) \in Present
          /\ Location(e).disk = disk_index /\ ~SeenOnDisk(Location(e).at)
      BY <2>1, <3>1, <3>2, <3>3, <3>4
    <3>6. \A l \in Present : l.disk = disk_index => (SeenOnDisk(l.at)' <=> SeenOnDisk(l.at) \/ l \in S)
      BY <1>15, <2>1, <3>4
    <3> QED BY <1>2, <3>5, <3>6, ExactOnDisk
  <2>2. CASE UNCHANGED entry_buf /\ ~DataEntry(d, n, f, p)
    <3>1. PICK S : S = {}
      BY Zenon
    <3>2. \A l \in Present : l.disk = disk_index => (SeenOnDisk(l.at)' <=> SeenOnDisk(l.at) \/ l \in S)
      BY <1>15, <2>2, <3>1
    <3> QED BY <1>2, <2>2, <3>1, <3>2, ExactOnDisk
  <2> QED BY <1>11, <2>1, <2>2
<1> QED BY <1>12, <1>16 DEF Exact

\* mbr_do_initialize returns.
LEMMA ExactReturn ==
    ASSUME ExactInv, faults' = 0, MbrReturn
    PROVE  Exact'
<1>1. /\ WellFormedMachines /\ MediaTypeOK /\ FramesSane /\ NothingLost
      /\ frames \in Seq(FrameType)
  BY DEF ExactInv, Exact, WalkInv, MediaTypeOK
<1>2. /\ UNCHANGED <<machine, disk_index, entry_buf, lost>> /\ pc = "mbr"
      /\ pc \in Detecting /\ pc' \in Detecting /\ pc' \in {"mbr", "cd"}
  BY DEF MbrReturn, Detecting, OnDisk
<1>3. PICK d : d = Disk(disk_index) /\ d = Disk(disk_index)'
  BY <1>2 DEF Disk
<1>4. /\ DiskType(d) /\ WellFormed(d) /\ SaneWalk(d, frames) /\ d.gpt = <<>>
  BY <1>1, <1>2, <1>3, AtDisk, SMTT(30) DEF FramesSane, OnDisk, NothingLost
<1>5. MbrOnly(d)
  BY <1>4 DEF MbrOnly, SaneWalk
<1>6. NothingLost'
  BY <1>1, <1>2, <1>3, <1>4 DEF NothingLost
<1>7. ASSUME NEW q \in Partitions(d)
      PROVE  \/ frames = <<>> /\ pc' = "cd" /\ MbrSeen(d, frames, q.index)
             \/ /\ pc' = "mbr"
                /\ MbrSeen(d, frames', q.index) <=> MbrSeen(d, frames, q.index)
  <2>1. CASE frames = <<>>
    BY <2>1 DEF MbrReturn, MbrSeen
  <2>2. CASE frames # <<>>
    <3>1. PICK n, f, p : n = Len(frames) /\ f = frames[n] /\ p = d.mbr[f.sector][f.i + 1]
      BY Zenon
    <3>2. /\ n \in {1, 2, 3} /\ \A k \in 1..n : frames[k] \in FrameType
          /\ Last(frames) = f /\ (is_ebr(f) <=> n # 1)
      BY <1>1, <1>4, <2>2, <3>1, WalkAt, SMTT(30)
    <3>3. WalkOf(d, frames, n, f, p)
      BY <1>1, <1>4, <1>5, <3>1, <3>2 DEF WalkOf
    <3>4. frames' = Front(frames) /\ pc' = "mbr" /\ f.i = max_partitions(f)
      BY <1>2, <2>2, <3>2 DEF MbrReturn
    <3>5. f.i = (IF n = 1 THEN 4 ELSE 2)
      BY <3>2, <3>4 DEF max_partitions
    <3>6. Len(Front(frames)) = n - 1 /\ \A k \in 1..n-1 : Front(frames)[k] = frames[k]
      <4>1. f \in FrameType
        BY <3>1, <3>2
      <4> QED BY <1>1, <2>2, <3>1, <4>1, FrameSteps
    <3>7. MbrSeen(d, Front(frames), q.index) <=> MbrSeen(d, frames, q.index)
      BY <3>3, <3>5, <3>6, SeenBack
    <3> QED BY <3>4, <3>7
  <2> QED BY <2>1, <2>2
<1>8. ASSUME NEW l \in Present, l.disk = disk_index
      PROVE  SeenOnDisk(l.at)' <=> SeenOnDisk(l.at)
  <2>1. PICK q : q = l.at
    OBVIOUS
  <2>2. q \in Partitions(d) \/ q = RawAt
    BY <1>1, <1>3, <1>8, <2>1, OnThisDisk
  <2>3. CASE q = RawAt
    <3>1. q.entry_type = "RAW"
      BY <2>3 DEF RawAt
    <3> QED BY <1>2, <2>1, <3>1 DEF SeenOnDisk
  <2>4. CASE q \in Partitions(d)
    <3>1. q.entry_type = "MBR"
      BY <1>5, <2>4, MbrIndex
    <3>2. SeenOnDisk(q)' <=> SeenOnDisk(q)
      BY <1>2, <1>3, <1>7, <2>4, <3>1 DEF SeenOnDisk
    <3> QED BY <2>1, <3>2
  <2> QED BY <2>2, <2>3, <2>4
<1>9. PICK S : S = {}
  BY Zenon
<1>10. \A l \in Present : l.disk = disk_index => (SeenOnDisk(l.at)' <=> SeenOnDisk(l.at) \/ l \in S)
  BY <1>8, <1>9
<1>11. TableHolds({l \in Present : Visited(l)})'
  BY <1>2, <1>9, <1>10, ExactOnDisk
<1> QED BY <1>6, <1>11 DEF Exact

\* The file system of a whole disk.
LEMMA ExactWhole ==
    ASSUME ExactInv, faults' = 0, DetectCd \/ DetectRaw
    PROVE  Exact'
<1>1. /\ WellFormedMachines /\ MediaTypeOK /\ NothingLost /\ BufferType(entry_buf)
      /\ faults \in Nat
  BY DEF ExactInv, Exact, WalkInv, MediaTypeOK
<1>2. /\ UNCHANGED <<machine, disk_index>> /\ pc \in {"cd", "raw"} /\ pc' \in {"raw", "next_disk"}
      /\ pc \in Detecting /\ pc' \in Detecting
  BY DEF DetectCd, DetectRaw, Detecting, OnDisk
<1>3. PICK d : d = Disk(disk_index) /\ d = Disk(disk_index)'
  BY <1>2 DEF Disk
<1>4. ~Fails(1) /\ (Fails(0) => UNCHANGED lost)
  BY <1>1, FailsEffect
<1>5. /\ UNCHANGED lost
      /\ \/ pc' = "raw" /\ 0 \notin DOMAIN d.iso /\ UNCHANGED entry_buf
         \/ /\ pc' = "next_disk" /\ 0 \in DOMAIN d.fat \cup DOMAIN d.iso
            /\ Added(RawEntry)
         \/ /\ pc' = "next_disk" /\ 0 \notin DOMAIN d.fat \cup DOMAIN d.iso
            /\ UNCHANGED entry_buf
  <2>1. CASE DetectCd
    <3>1. CASE \E r \in AddEntry(RawEntry) :
                 entry_buf' = r.buf /\ Fails(r.failed) /\ pc' = "next_disk" /\ 0 \in DOMAIN d.iso
      <4>1. PICK r \in AddEntry(RawEntry) :
                 entry_buf' = r.buf /\ Fails(r.failed) /\ pc' = "next_disk" /\ 0 \in DOMAIN d.iso
        BY <3>1
      <4>2. /\ r.failed \in {0, 1} /\ BufferType(r.buf)
            /\ r.failed = 0 => r.buf.slots = Append(entry_buf.slots, RawEntry)
        BY <1>1, EntryAdded
      <4>3. r.failed = 0
        BY <1>4, <4>1, <4>2
      <4>4. Added(RawEntry)
        BY <4>1, <4>2, <4>3 DEF Added
      <4>5. Fails(0)
        BY <4>1, <4>3
      <4> QED BY <1>4, <4>1, <4>4, <4>5
    <3>2. CASE ~\E r \in AddEntry(RawEntry) :
                 entry_buf' = r.buf /\ Fails(r.failed) /\ pc' = "next_disk" /\ 0 \in DOMAIN d.iso
      BY <1>3, <1>4, <2>1, <3>2, SMTT(30) DEF DetectCd
    <3> QED BY <3>1, <3>2
  <2>2. CASE DetectRaw
    <3>1. pc = "raw" /\ pc' = "next_disk" /\ Detect(d.fat, 0, RawEntry)
      BY <1>3, <2>2 DEF DetectRaw
    <3>2. 0 \notin DOMAIN d.iso
      BY <1>1, <1>3, <3>1 DEF NothingLost
    <3> QED BY <1>1, <1>4, <3>1, <3>2, DetectEffect
  <2> QED BY <2>1, <2>2
<1>6. NothingLost'
  BY <1>1, <1>2, <1>3, <1>5 DEF NothingLost
<1>7. PICK g : g = [disk |-> disk_index, at |-> RawAt]
  BY Zenon
<1>8. g.disk = disk_index /\ g.at = RawAt /\ g.at.entry_type = "RAW"
  BY <1>7 DEF RawAt
<1>9. ASSUME NEW l \in Present, l.disk = disk_index
      PROVE  SeenOnDisk(l.at)' <=> SeenOnDisk(l.at) \/ (pc' = "next_disk" /\ l = g)
  <2>1. PICK q : q = l.at
    OBVIOUS
  <2>2. (q \in Partitions(d) \/ q = RawAt) /\ l = [disk |-> disk_index, at |-> q]
    BY <1>1, <1>3, <1>9, <2>1, OnThisDisk
  <2>3. q.entry_type = "RAW" <=> q = RawAt
    <3>1. CASE q = RawAt
      BY <3>1 DEF RawAt
    <3>2. CASE q \in Partitions(d)
      <4>1. q.entry_type \in {"GPT", "MBR"}
        BY <3>2 DEF Partitions
      <4> QED BY <4>1 DEF RawAt
    <3> QED BY <2>2, <3>1, <3>2
  <2>4. l = g <=> q = RawAt
    BY <1>7, <1>8, <2>1, <2>2
  <2>5. SeenOnDisk(q)' <=> SeenOnDisk(q) \/ (pc' = "next_disk" /\ l = g)
    BY <1>2, <2>3, <2>4 DEF SeenOnDisk
  <2> QED BY <2>1, <2>5
<1>10. ~SeenOnDisk(g.at)
  BY <1>2, <1>8 DEF SeenOnDisk
<1>11. CASE pc' = "next_disk" /\ 0 \in DOMAIN d.fat \cup DOMAIN d.iso /\ Added(RawEntry)
  <2>1. PICK e, S : e = RawEntry /\ S = {g}
    BY Zenon
  <2>2. Location(e) = g /\ g \in Present
    BY <1>1, <1>2, <1>3, <1>7, <1>11, <2>1, WholeDiskEntry
  <2>3. /\ Added(e) /\ S = {Location(e)} /\ Location(e) \in Present
        /\ Location(e).disk = disk_index /\ ~SeenOnDisk(Location(e).at)
    BY <1>8, <1>10, <1>11, <2>1, <2>2
  <2>4. \A l \in Present : l.disk = disk_index => (SeenOnDisk(l.at)' <=> SeenOnDisk(l.at) \/ l \in S)
    BY <1>9, <1>11, <2>1
  <2>5. TableHolds({l \in Present : Visited(l)})'
    BY <1>2, <2>3, <2>4, ExactOnDisk
  <2> QED BY <1>6, <2>5 DEF Exact
<1>12. CASE /\ UNCHANGED entry_buf
            /\ pc' = "raw" \/ 0 \notin DOMAIN d.fat \cup DOMAIN d.iso
  <2>1. PICK S : S = {}
    BY Zenon
  <2>2. pc' = "raw" \/ g \notin Present
    <3>1. ASSUME g \in Present PROVE 0 \in DOMAIN d.fat \cup DOMAIN d.iso
      <4>1. RawAt \notin Partitions(d)
        BY DEF Partitions, RawAt
      <4> QED BY <1>1, <1>3, <1>8, <3>1, <4>1, OnThisDisk
    <3> QED BY <1>12, <3>1
  <2>3. \A l \in Present : l.disk = disk_index => (SeenOnDisk(l.at)' <=> SeenOnDisk(l.at) \/ l \in S)
    BY <1>9, <2>1, <2>2
  <2>4. TableHolds({l \in Present : Visited(l)})'
    BY <1>2, <1>12, <2>1, <2>3, ExactOnDisk
  <2> QED BY <1>6, <2>4 DEF Exact
<1> QED BY <1>5, <1>11, <1>12

\* Steps that pass no file system.
LEMMA NothingPassed ==
    ASSUME ExactInv, UNCHANGED <<machine, entry_buf>>,
           \A l \in Present : Visited(l)' <=> Visited(l)
    PROVE  TableHolds({l \in Present : Visited(l)})'
<1>1. PICK S : S = {}
  BY Zenon
<1>2. \A l \in Present : Visited(l)' <=> Visited(l) \/ l \in S
  BY <1>1
<1>3. BufferType(entry_buf) /\ TableHolds({l \in Present : Visited(l)})
  BY DEF ExactInv, Exact, MediaTypeOK
<1> QED BY <1>1, <1>2, <1>3, TableStep

\* init_all_disks goes on with the next disk.
LEMMA ExactNext ==
    ASSUME ExactInv, NextDisk
    PROVE  Exact'
<1>1. /\ MediaTypeOK /\ NothingLost /\ disk_index \in Nat \ {0}
      /\ pc = "next_disk" /\ pc' = "disk" /\ disk_index' = disk_index + 1
      /\ UNCHANGED <<machine, entry_buf, lost>>
  BY DEF ExactInv, Exact, MediaTypeOK, NextDisk
<1>2. NothingLost'
  BY <1>1 DEF NothingLost, Detecting
<1>3. ASSUME NEW l \in Present PROVE Visited(l)' <=> Visited(l)
  <2>1. l.disk \in Nat
    BY <1>1, PresentWhere
  <2>2. Visited(l) <=> l.disk # 0 /\ l.disk <= disk_index
    BY <1>1, <2>1 DEF Visited, SeenOnDisk, Detecting, OnDisk
  <2>3. Visited(l)' <=> l.disk # 0 /\ l.disk < disk_index + 1
    BY <1>1, <2>1 DEF Visited, SeenOnDisk, Detecting, OnDisk
  <2> QED BY <1>1, <2>1, <2>2, <2>3
<1>4. TableHolds({l \in Present : Visited(l)})'
  BY <1>1, <1>3, NothingPassed
<1> QED BY <1>2, <1>4 DEF Exact

\* fs_detect_pxe, after the last disk.
LEMMA ExactPxe ==
    ASSUME ExactInv, PointerInv, faults' = 0, DetectPxe
    PROVE  Exact'
<1>1. /\ MediaTypeOK /\ NothingLost /\ disk_index \in Nat \ {0} /\ faults \in Nat
      /\ BufferType(entry_buf) /\ TableHolds({l \in Present : Visited(l)})
      /\ pc = "disk" /\ pc' = "resolve" /\ disk_index > Len(machine.disks)
      /\ UNCHANGED <<machine, disk_index>>
  BY DEF ExactInv, Exact, MediaTypeOK, DetectPxe
<1>2. PICK e, g : /\ e = [NoEntry EXCEPT !.entry_type = "PXE"]
                  /\ g = [disk |-> 0, at |-> PxeAt]
  BY Zenon
<1>3. /\ UNCHANGED lost
      /\ \/ 0 \in DOMAIN machine.pxe /\ Added(e)
         \/ 0 \notin DOMAIN machine.pxe /\ UNCHANGED entry_buf
  <2>1. ~Fails(1) /\ (Fails(0) => UNCHANGED lost)
    BY <1>1, FailsEffect
  <2> QED BY <1>2, <2>1, DetectPxeTypes
<1>4. NothingLost'
  BY <1>1, <1>3 DEF NothingLost, Detecting, OnDisk
<1>5. ASSUME NEW l \in Present
      PROVE  /\ Visited(l)' /\ (Visited(l) <=> l.disk # 0)
             /\ l.disk = 0 => l = g /\ 0 \in DOMAIN machine.pxe
  <2>1. /\ l.disk \in Nat /\ Len(machine.disks) \in Nat
        /\ l.disk # 0 => l.disk <= Len(machine.disks)
        /\ l.disk = 0 => l = g /\ 0 \in DOMAIN machine.pxe
    BY <1>1, <1>2, PresentWhere, BootMediaAssumption DEF MediaTypeOK
  <2>2. l.disk # 0 => l.disk < disk_index
    BY <1>1, <2>1
  <2> QED BY <1>1, <2>1, <2>2 DEF Visited, Detecting, OnDisk
<1>6. CASE 0 \in DOMAIN machine.pxe /\ Added(e)
  <2>1. Location(e) = g /\ g \in Present /\ g.disk = 0
    BY <1>2, <1>6, PxeEntry
  <2>2. PICK S : S = {g}
    BY Zenon
  <2>3. \A l \in Present : Visited(l)' <=> Visited(l) \/ l \in S
    BY <1>5, <2>1, <2>2
  <2>4. Added(e) /\ S = {Location(e)} /\ Location(e) \in Present /\ ~Visited(Location(e))
    BY <1>5, <1>6, <2>1, <2>2
  <2>5. TableHolds({l \in Present : Visited(l)})'
    BY <1>1, <2>3, <2>4, TableStep, Zenon
  <2> QED BY <1>4, <2>5 DEF Exact
<1>7. CASE 0 \notin DOMAIN machine.pxe /\ UNCHANGED entry_buf
  <2>1. TableHolds({l \in Present : Visited(l)})'
    BY <1>1, <1>5, <1>7, NothingPassed
  <2> QED BY <1>4, <2>1 DEF Exact
<1> QED BY <1>3, <1>6, <1>7

\* After detection every file system of the machine has been passed.
LEMMA AllPassed ==
    ASSUME MediaTypeOK, pc \notin Detecting, disk_index > Len(machine.disks), NEW l \in Present
    PROVE  Visited(l)
<1>1. /\ l.disk \in Nat /\ Len(machine.disks) \in Nat /\ disk_index \in Nat
      /\ l.disk # 0 => l.disk <= Len(machine.disks)
  BY PresentWhere, BootMediaAssumption DEF MediaTypeOK
<1>2. l.disk # 0 => l.disk < disk_index
  BY <1>1
<1> QED BY <1>2 DEF Visited

\* A step of detection on a disk that fails once shows it in faults.
LEMMA FaultsStay ==
    ASSUME WellFormedMachines, MediaTypeOK, WalkInv, DiskStep \/ DetectPxe, faults' = 0
    PROVE  faults = 0
<1>1. faults \in Nat /\ BufferType(entry_buf)
  BY DEF MediaTypeOK
<1>2. \A n \in {0, 1} : Fails(n) => faults = 0
  BY <1>1, FailsEffect
<1>3. ASSUME NEW fs, NEW lba, NEW fse, Detect(fs, lba, fse) PROVE faults = 0
  BY <1>1, <1>2, <1>3, DetectEffect
<1>4. ASSUME NEW fse, NEW r \in AddEntry(fse), Fails(r.failed) PROVE faults = 0
  BY <1>1, <1>2, <1>4, EntryAdded
<1>5. CASE GptDone \/ MbrReturn \/ NextDisk
  BY <1>5 DEF GptDone, MbrReturn, NextDisk
<1>6. CASE BeginDisk \/ GptInitialize \/ MbrInitialize
  BY <1>2, <1>6 DEF BeginDisk, GptInitialize, MbrInitialize
<1>7. CASE GptPartition
  BY <1>2, <1>3, <1>7 DEF GptPartition
<1>8. CASE DetectCd \/ DetectRaw
  BY <1>2, <1>3, <1>4, <1>8 DEF DetectCd, DetectRaw
<1>9. CASE DetectPxe
  BY <1>2, <1>4, <1>9 DEF DetectPxe
<1>10. CASE MbrPartition
  <2>1. \/ \E n \in {0, 1} : Fails(n)
        \/ \E fs, lba, fse : Detect(fs, lba, fse)
    <3>1. PICK d, n, f, p : AtEntry(d, n, f, p)
      BY Zenon DEF AtEntry
    <3>2. PICK next : next = [frames EXCEPT ![n] = Advanced(f)]
      BY Zenon
    <3>3. MbrMoves(d, n, f, p, next)
      BY <1>10, <3>1, <3>2, MbrMove, Zenon DEF WalkInv
    <3> QED BY <3>3 DEF MbrMoves
  <2> QED BY <1>2, <1>3, <2>1
<1> QED BY <1>5, <1>6, <1>7, <1>8, <1>9, <1>10 DEF DiskStep

TableInv == PointerInv /\ WalkInv /\ TableGrows

LEMMA TableInitInv == Init => TableInv
<1> SUFFICES ASSUME Init PROVE TableInv
  OBVIOUS
<1>1. PointerInv /\ MediaTypeOK
  BY PointerInitInv DEF PointerInv
<1>2. pc = "disk" /\ disk_index = 1 /\ lost = {} /\ entry_buf.slots = <<>>
  BY DEF Init
<1>3. \A l \in Present : ~Visited(l)
  <2> SUFFICES ASSUME NEW l \in Present PROVE ~Visited(l)
    OBVIOUS
  <2>1. l.disk \in Nat
    BY <1>1, PresentWhere
  <2> QED BY <1>2, <2>1 DEF Visited, SeenOnDisk, Detecting, OnDisk
<1>4. PICK P : P = {l \in Present : Visited(l)}
  BY Zenon
<1>5. P = {} /\ Cardinality(P) = 0
  BY <1>3, <1>4, FS_EmptySet
<1>6. Range(entry_buf.slots) = {} /\ Len(entry_buf.slots) = 0
  BY <1>2 DEF Range
<1>7. TableHolds(P)
  BY <1>5, <1>6 DEF TableHolds
<1>8. NothingLost
  BY <1>2 DEF NothingLost, Detecting
<1> QED BY <1>1, <1>2, <1>4, <1>7, <1>8 DEF TableInv, WalkInv, GptSane, FramesSane, TableGrows

\* Under the hypothesis that the tables of the disks mean to the loader what they
\* mean to the formats.
LEMMA TableNextInv ==
    ASSUME WellFormedMachines, TableInv, [Next]_vars
    PROVE  TableInv'
<1>1. PointerInv /\ PointerInv' /\ MediaTypeOK /\ WalkInv /\ TableGrows
  BY PointerNextInv DEF TableInv, PointerInv
<1>2. CASE DiskStep
  <2>1. WalkInv'
    BY <1>1, <1>2, WalkStep
  <2>2. ASSUME faults' = 0 PROVE Exact'
    <3>1. ExactInv
      BY <1>1, <1>2, <2>2, FaultsStay DEF ExactInv, Exact, TableGrows
    <3> QED BY <1>2, <2>2, <3>1, ExactBetween, ExactGpt, ExactMbr, ExactReturn, ExactWhole, ExactNext
            DEF DiskStep
  <2> QED BY <1>1, <2>1, <2>2 DEF TableInv, TableGrows, Exact
<1>3. CASE DetectPxe
  <2>1. WalkInv'
    BY <1>3 DEF DetectPxe, WalkInv, GptSane, FramesSane
  <2>2. ASSUME faults' = 0 PROVE Exact'
    <3>1. ExactInv
      BY <1>1, <1>3, <2>2, FaultsStay DEF ExactInv, Exact, TableGrows
    <3> QED BY <1>1, <1>3, <2>2, <3>1, ExactPxe
  <2> QED BY <1>1, <2>1, <2>2 DEF TableInv, TableGrows, Exact
<1>4. CASE SearchStep
  <2>1. /\ pc \notin Detecting /\ pc' \notin Detecting /\ UNCHANGED mediaVars
        /\ faults' = 0 => UNCHANGED <<faults, lost>>
    BY <1>1, <1>4, SearchStepTypes
  <2>2. WalkInv'
    BY <2>1 DEF WalkInv, GptSane, FramesSane, Detecting, OnDisk
  <2>3. ASSUME faults' = 0 PROVE Exact'
    <3>1. /\ ExactInv /\ disk_index > Len(machine.disks) /\ lost = {}
          /\ UNCHANGED <<machine, disk_index, entry_buf, lost>>
      BY <1>1, <2>1, <2>3 DEF ExactInv, Exact, TableGrows, NothingLost, mediaVars
    <3>2. NothingLost'
      BY <2>1, <3>1 DEF NothingLost, Detecting, OnDisk
    <3>3. ASSUME NEW l \in Present PROVE Visited(l)' <=> Visited(l)
      <4>1. Visited(l) /\ (l.disk = 0 \/ (l.disk # 0 /\ l.disk < disk_index))
        <5>1. /\ l.disk \in Nat /\ Len(machine.disks) \in Nat /\ disk_index \in Nat
              /\ l.disk # 0 => l.disk <= Len(machine.disks)
          BY <1>1, PresentWhere, BootMediaAssumption DEF MediaTypeOK
        <5> QED BY <1>1, <2>1, <3>1, <5>1, AllPassed
      <4> QED BY <2>1, <3>1, <4>1 DEF Visited
    <3>4. TableHolds({l \in Present : Visited(l)})'
      BY <3>1, <3>3, NothingPassed
    <3> QED BY <3>2, <3>4 DEF Exact
  <2> QED BY <1>1, <2>2, <2>3 DEF TableInv, TableGrows, Exact
<1>5. CASE UNCHANGED vars
  <2>1. Present' = Present /\ Disk(disk_index)' = Disk(disk_index)
    BY <1>5, PresentSame, SMTT(30) DEF vars, Disk
  <2>2. WalkInv' /\ (NothingLost => NothingLost')
    BY <1>1, <1>5, <2>1 DEF vars, WalkInv, GptSane, FramesSane, NothingLost
  <2>3. ASSUME faults' = 0 PROVE Exact'
    <3>1. ExactInv /\ NothingLost
      BY <1>1, <1>5, <2>3 DEF ExactInv, Exact, TableGrows, vars
    <3>2. \A l \in Present : Visited(l)' <=> Visited(l)
      BY <1>5, <2>1 DEF vars, Visited, SeenOnDisk
    <3>3. TableHolds({l \in Present : Visited(l)})'
      BY <1>5, <3>1, <3>2, NothingPassed DEF vars
    <3> QED BY <2>2, <3>1, <3>3 DEF Exact
  <2> QED BY <1>1, <2>2, <2>3 DEF TableInv, TableGrows, Exact
<1> QED BY <1>2, <1>3, <1>4, <1>5, NextSplit

LEMMA TableInvIsExact == TableInv => TableIsExact
<1> SUFFICES ASSUME TableInv, Detected, faults = 0
             PROVE  TableHolds(Present)
  BY DEF TableIsExact, TableHolds
<1>1. MediaTypeOK /\ NothingLost /\ TableHolds({l \in Present : Visited(l)})
  BY DEF TableInv, PointerInv, TableGrows
<1>2. pc \notin Detecting
  BY DEF Detected, Detecting, OnDisk
<1>3. disk_index > Len(machine.disks)
  BY <1>1, <1>2 DEF NothingLost
<1>4. {l \in Present : Visited(l)} = Present
  BY <1>1, <1>2, <1>3, AllPassed
<1> QED BY <1>1, <1>4

\* Detection without faults is complete and exact, for machines with any number of
\* disks whose tables are well formed: when init_all_disks is done, the table has
\* one entry for every file system of every partition, of every unpartitioned disk
\* and of the network, with the index, first block and GUID that the partition
\* table gives it, and no other entry.
THEOREM MediaTableIsExact ==
    ASSUME WellFormedMachines
    PROVE  Spec => []TableIsExact
<1>1. TableInv /\ [Next]_vars => TableInv'
  BY TableNextInv
<1> QED BY <1>1, TableInvIsExact, TableInitInv, PTL DEF Spec
=============================================================================

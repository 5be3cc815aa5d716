--------------------------- MODULE BootMediaProofs ---------------------------
(***************************************************************************)
(* Proofs about the detection of file systems and the pointers into their  *)
(* table.                                                                  *)
(***************************************************************************)
EXTENDS BootMedia, PartitionTableProofs

\* The steps of init_all_disks, and those of them that work on a disk.
OnDisk == {"gpt_signature", "gpt", "mbr_signature", "mbr", "cd", "raw", "next_disk"}
Detecting == OnDisk \cup {"disk"}

\* A sequence of whatever it holds.
IsSequence(s) == s \in Seq(Range(s))

BufferType(buf) ==
    /\ buf = [base |-> buf.base, capacity |-> buf.capacity, slots |-> buf.slots]
    /\ buf.base \in Nat /\ buf.capacity \in Nat
    /\ IsSequence(buf.slots)

MediaTypeOK ==
    /\ machine \in Machines
    /\ pc \in Detecting \cup {"resolve", "search", "load", "loaded", "oops"}
    /\ disk_index \in Nat \ {0}
    /\ pc \in OnDisk => disk_index \in DOMAIN machine.disks
    /\ frames \in Seq(FrameType)
    /\ BufferType(entry_buf)
    /\ faults \in Nat

\* Nobody has a pointer into the table before its last entry is in.
PointersAreLate ==
    /\ pc \in Detecting => pxe_entry = NULL
    /\ pc \in Detecting \cup {"resolve"} => boot_entry = NULL
    /\ PointersAreLive

\* gpt_do_initialize is at an entry of the array, the one it says it is at
\* unless a read failed.
GptSane ==
    pc = "gpt" =>
      /\ gpt \in [part_idx : Nat, off : Nat]
      /\ gpt.off <= gpt.part_idx /\ gpt.part_idx <= Len(Disk(disk_index).gpt)
      /\ disk_index \notin lost => gpt.off = gpt.part_idx

FramesSane == pc = "mbr" => SaneWalk(Disk(disk_index), frames)

PointerInv == MediaTypeOK /\ PointersAreLate
WalkInv == GptSane /\ FramesSane

-----------------------------------------------------------------------------
(* Sequences                                                               *)

\* A set of numbers that is not empty has a least one.
LEMMA LeastNumber ==
    ASSUME NEW T, T \subseteq Nat, T # {}
    PROVE  Min(T) \in T /\ \A y \in T : Min(T) <= y
<1> DEFINE R == {ss \in Nat \X Nat : ss[1] < ss[2]}
<1>1. IsWellFoundedOn(R, Nat)
  BY NatLessThanWellFounded DEF OpToRel
<1>2. \E x \in T : \A y \in T : x <= y
  <2>1. \E x \in T : \A y \in T : ~(<<y, x>> \in R)
    <3> HIDE DEF R
    <3> QED BY <1>1, WFMin, Zenon
  <2>2. PICK x \in T : \A y \in T : ~(<<y, x>> \in R)
    BY <2>1
  <2>3. ASSUME NEW y \in T PROVE x <= y
    <3>1. x \in Nat /\ y \in Nat
      OBVIOUS
    <3>2. ~(<<y, x>> \in R)
      BY <2>2
    <3>3. <<y, x>> \in Nat \X Nat /\ <<y, x>>[1] = y /\ <<y, x>>[2] = x
      BY <3>1
    <3>4. ~(y < x)
      BY <3>2, <3>3
    <3> QED BY <3>1, <3>4
  <2> QED BY <2>3
<1> QED BY <1>2, Zenon DEF Min

\* Where a search of the table that matches the slots I stops.
LEMMA FirstMatch ==
    ASSUME NEW s, IsSequence(s), NEW I, I \subseteq 1..Len(s)
    PROVE  /\ Len(s) \in Nat
           /\ I # {} => Min(I) \in I /\ Min(I) # 0 /\ \A j \in I : Min(I) <= j
<1>1. Len(s) \in Nat
  BY LenProperties DEF IsSequence
<1>2. I \subseteq Nat /\ 0 \notin I
  BY <1>1
<1> QED BY <1>1, <1>2, LeastNumber, Zenon

\* What appending to the table does to its sequence of entries.
LEMMA SlotAppended ==
    ASSUME NEW s, IsSequence(s), NEW x
    PROVE  /\ IsSequence(Append(s, x))
           /\ Len(Append(s, x)) = Len(s) + 1 /\ Len(s) \in Nat
           /\ Range(Append(s, x)) = Range(s) \cup {x}
<1> DEFINE S == Range(s) \cup {x}
           t == Append(s, x)
<1>1. s \in Seq(S)
  BY SeqMonotonic DEF IsSequence
<1>2. /\ t \in Seq(S) /\ Len(t) = Len(s) + 1
      /\ \A i \in 1..Len(s) : t[i] = s[i]
      /\ t[Len(s) + 1] = x
  <2> HIDE DEF S
  <2>1. x \in S BY DEF S
  <2> QED BY <1>1, <2>1, AppendProperties
<1>3. Len(s) \in Nat /\ DOMAIN s = 1..Len(s) /\ DOMAIN t = 1..Len(t)
  BY <1>1, <1>2, LenProperties
<1>4. Range(t) = S
  <2>1. Range(s) = {s[i] : i \in 1..Len(s)}
    BY <1>3 DEF Range
  <2>2. Range(t) = {t[i] : i \in 1..Len(s) + 1}
    BY <1>2, <1>3 DEF Range
  <2>3. 1..Len(s) + 1 = (1..Len(s)) \cup {Len(s) + 1}
    BY <1>3
  <2> HIDE DEF t
  <2> QED BY <1>2, <2>1, <2>2, <2>3
<1> QED BY <1>2, <1>3, <1>4 DEF IsSequence

-----------------------------------------------------------------------------
(* The table                                                               *)

\* What a step does to the table: nothing, or one more entry.
Added(fse) ==
    BufferType(entry_buf') /\ entry_buf'.slots = Append(entry_buf.slots, fse)

LEMMA EntryAdded ==
    ASSUME BufferType(entry_buf), NEW fse, NEW r \in AddEntry(fse)
    PROVE  /\ r.failed \in {0, 1}
           /\ BufferType(r.buf)
           /\ r.failed = 1 => r.buf = entry_buf
           /\ r.failed = 0 => r.buf.slots = Append(entry_buf.slots, fse)
<1> DEFINE full == Len(entry_buf.slots) = entry_buf.capacity
           buf == IF full THEN Grown(entry_buf) ELSE entry_buf
<1>1. \/ r = [buf |-> [buf EXCEPT !.slots = Append(@, fse)], failed |-> 0]
      \/ r = [buf |-> entry_buf, failed |-> 1]
  BY DEF AddEntry
<1>2. /\ buf = [base |-> buf.base, capacity |-> buf.capacity, slots |-> buf.slots]
      /\ buf.base \in Nat /\ buf.capacity \in Nat
      /\ buf.slots = entry_buf.slots
  <2>1. CASE ~full
    BY <2>1 DEF BufferType
  <2>2. CASE full
    <3>1. buf = [base |-> entry_buf.base + 1, capacity |-> entry_buf.capacity + EntriesPerGrowth,
                 slots |-> entry_buf.slots]
      BY <2>2, Zenon DEF BufferType, Grown
    <3> HIDE DEF buf
    <3> QED BY <3>1, BootMediaAssumption DEF BufferType
  <2> QED BY <2>1, <2>2
<1> HIDE DEF buf
<1>3. CASE r = [buf |-> entry_buf, failed |-> 1]
  BY <1>3
<1>4. CASE r = [buf |-> [buf EXCEPT !.slots = Append(@, fse)], failed |-> 0]
  <2>1. /\ r.failed = 0
        /\ r.buf = [base |-> buf.base, capacity |-> buf.capacity,
                    slots |-> Append(entry_buf.slots, fse)]
    BY <1>2, <1>4, Zenon
  <2>2. IsSequence(Append(entry_buf.slots, fse))
    BY SlotAppended DEF BufferType
  <2> QED BY <1>2, <2>1, <2>2 DEF BufferType
<1> QED BY <1>1, <1>3, <1>4

\* fs_do_detect
LEMMA DetectEffect ==
    ASSUME BufferType(entry_buf), NEW fs, NEW lba, NEW fse, Detect(fs, lba, fse)
    PROVE  /\ BufferType(entry_buf')
           /\ \/ lba \in DOMAIN fs /\ Added(fse) /\ Fails(0)
              \/ lba \notin DOMAIN fs /\ UNCHANGED entry_buf /\ Fails(0)
              \/ UNCHANGED entry_buf /\ Fails(1)
<1>1. CASE \E r \in AddEntry(fse) : entry_buf' = r.buf /\ Fails(r.failed) /\ lba \in DOMAIN fs
  <2>1. PICK r \in AddEntry(fse) : entry_buf' = r.buf /\ Fails(r.failed) /\ lba \in DOMAIN fs
    BY <1>1
  <2>2. /\ r.failed \in {0, 1}
        /\ BufferType(r.buf)
        /\ r.failed = 1 => r.buf = entry_buf
        /\ r.failed = 0 => r.buf.slots = Append(entry_buf.slots, fse)
    BY EntryAdded
  <2> QED BY <2>1, <2>2 DEF Added
<1>2. CASE UNCHANGED entry_buf /\ (Fails(1) \/ (lba \notin DOMAIN fs /\ Fails(0)))
  BY <1>2
<1> QED BY <1>1, <1>2 DEF Detect

LEMMA FailsEffect ==
    ASSUME faults \in Nat, NEW n \in {0, 1}, Fails(n)
    PROVE  /\ faults' \in Nat
           /\ faults' = 0 => faults = 0 /\ n = 0
           /\ n = 0 => UNCHANGED <<faults, lost>>
           /\ n = 1 => faults' # 0 /\ lost' = lost \cup {disk_index}
           /\ lost \subseteq lost'
BY DEF Fails

-----------------------------------------------------------------------------
(* Pointers into the table                                                 *)

\* A step of init_all_disks on a disk.
DiskStep ==
    \/ BeginDisk \/ GptInitialize \/ GptPartition \/ GptDone
    \/ MbrInitialize \/ MbrPartition \/ MbrReturn
    \/ DetectCd \/ DetectRaw \/ NextDisk

\* A step of fst_resolve_boot_entry, find_config_file, init_config or later.
SearchStep == fst_resolve_boot_entry \/ Probe \/ NextLoop \/ ReadConfig \/ LookUp \/ Stopped

LEMMA NextSplit == Next <=> DiskStep \/ DetectPxe \/ SearchStep
BY DEF Next, Step, DiskStep, SearchStep

LEMMA PointerInitInv == Init => PointerInv
<1> SUFFICES ASSUME Init PROVE PointerInv
  OBVIOUS
<1>1. IsSequence(<<>>)
  BY DEF IsSequence
<1>2. MediaTypeOK
  BY <1>1 DEF Init, MediaTypeOK, BufferType, Detecting, OnDisk
<1>3. PointersAreLate
  BY DEF Init, PointersAreLate, PointersAreLive
<1> QED BY <1>2, <1>3 DEF PointerInv

\* The loop of mbr_do_initialize looks at one of the four entries of a table.
LEMMA TableEntry ==
    ASSUME MediaTypeOK, pc = "mbr", frames # <<>>, Last(frames).i < max_partitions(Last(frames))
    PROVE  /\ Last(frames) \in FrameType
           /\ Last(frames).i + 1 \in 1..4
           /\ Table(Last(frames).sector)[Last(frames).i + 1]
                \in [type : {"empty", "data", "ebr"}, first : Nat]
<1> DEFINE f == Last(frames)
<1>1. Len(frames) \in Nat \ {0} /\ frames \in Seq(FrameType)
  BY EmptySeq DEF MediaTypeOK
<1>2. f \in FrameType
  BY <1>1, ElementOfSeq DEF Last
<1>3. f.i + 1 \in 1..4
  BY <1>2 DEF FrameType, max_partitions
<1>4. DiskType(Disk(disk_index))
  BY BootMediaAssumption DEF MediaTypeOK, OnDisk, Disk
<1>5. Table(f.sector) \in [1..4 -> [type : {"empty", "data", "ebr"}, first : Nat]]
  <2>1. CASE f.sector \in DOMAIN Disk(disk_index).mbr
    BY <1>4, <2>1 DEF DiskType, Table
  <2>2. CASE f.sector \notin DOMAIN Disk(disk_index).mbr
    BY <2>2 DEF Table
  <2> QED BY <2>1, <2>2
<1> HIDE DEF f
<1>6. Table(f.sector)[f.i + 1] \in [type : {"empty", "data", "ebr"}, first : Nat]
  BY <1>3, <1>5
<1> QED BY <1>2, <1>3, <1>6 DEF f

\* Returning from an activation, going on with the next entry, and a call.
LEMMA FrameSteps ==
    ASSUME frames \in Seq(FrameType), frames # <<>>,
           NEW f \in FrameType, NEW g \in FrameType
    PROVE  LET n == Len(frames)
               next == [frames EXCEPT ![n] = f]
           IN
           /\ n \in Nat \ {0}
           /\ Front(frames) \in Seq(FrameType) /\ Len(Front(frames)) = n - 1
           /\ \A k \in 1..n-1 : Front(frames)[k] = frames[k]
           /\ next \in Seq(FrameType) /\ Len(next) = n /\ next[n] = f
           /\ \A k \in 1..n-1 : next[k] = frames[k]
           /\ Append(next, g) \in Seq(FrameType) /\ Len(Append(next, g)) = n + 1
           /\ Append(next, g)[n] = f /\ Append(next, g)[n + 1] = g
           /\ \A k \in 1..n-1 : Append(next, g)[k] = frames[k]
<1> DEFINE n == Len(frames)
           next == [frames EXCEPT ![n] = f]
<1>1. n \in Nat \ {0} /\ \A k \in 1..n : frames[k] \in FrameType
  BY EmptySeq, ElementOfSeq
<1>2. /\ Front(frames) \in Seq(FrameType) /\ Len(Front(frames)) = n - 1
      /\ \A k \in 1..n-1 : Front(frames)[k] = frames[k]
  <2>1. 1 \in Int /\ n - 1 \in Int /\ \A k \in 1..n-1 : frames[k] \in FrameType
    BY <1>1
  <2>2. /\ SubSeq(frames, 1, n - 1) \in Seq(FrameType)
        /\ Len(SubSeq(frames, 1, n - 1)) = IF 1 <= n - 1 THEN n - 1 - 1 + 1 ELSE 0
        /\ \A k \in 1..n-1-1+1 : SubSeq(frames, 1, n - 1)[k] = frames[1 + k - 1]
    <3> HIDE DEF n
    <3> QED BY <2>1, SubSeqProperties
  <2> HIDE DEF n
  <2>3. n - 1 - 1 + 1 = n - 1 /\ \A k \in 1..n-1 : 1 + k - 1 = k
    BY <1>1
  <2>4. Front(frames) = SubSeq(frames, 1, n - 1)
    BY DEF Front, n
  <2> QED BY <1>1, <2>2, <2>3, <2>4
<1>3. /\ next \in Seq(FrameType) /\ Len(next) = n
      /\ \A k \in 1..n : next[k] = IF k = n THEN f ELSE frames[k]
  BY <1>1, ExceptSeq
<1>4. /\ Append(next, g) \in Seq(FrameType) /\ Len(Append(next, g)) = n + 1
      /\ \A k \in 1..n : Append(next, g)[k] = next[k]
      /\ Append(next, g)[n + 1] = g
  <2> HIDE DEF next
  <2> QED BY <1>3, AppendProperties
<1> HIDE DEF next, n
<1>5. n \in 1..n /\ \A k \in 1..n-1 : k \in 1..n /\ k # n
  BY <1>1
<1> QED BY <1>1, <1>2, <1>3, <1>4, <1>5 DEF next, n

\* What a step on a disk does to everything but the table's contents.
LEMMA DiskStepTypes ==
    ASSUME MediaTypeOK, DiskStep
    PROVE  /\ MediaTypeOK'
           /\ pc \in Detecting /\ pc' \in Detecting
           /\ UNCHANGED <<machine, searchVars>>
<1>1. BufferType(entry_buf) /\ faults \in Nat /\ machine \in Machines
      /\ disk_index \in Nat \ {0} /\ frames \in Seq(FrameType)
  BY DEF MediaTypeOK
<1>2. DOMAIN machine.disks = 1..Len(machine.disks) /\ Len(machine.disks) \in Nat
  BY <1>1, BootMediaAssumption
<1>3. CASE BeginDisk
  <2>1. UNCHANGED <<machine, disk_index, frames, entry_buf, searchVars>>
        /\ disk_index <= Len(machine.disks) /\ pc = "disk" /\ pc' \in {"gpt_signature", "cd"}
    BY <1>3 DEF BeginDisk
  <2>2. faults' \in Nat
    BY <1>1, <1>3, FailsEffect DEF BeginDisk
  <2>3. disk_index \in DOMAIN machine.disks
    BY <1>1, <1>2, <2>1
  <2> QED BY <1>1, <2>1, <2>2, <2>3 DEF MediaTypeOK, Detecting, OnDisk
<1>4. CASE GptInitialize
  <2>1. UNCHANGED <<machine, disk_index, frames, entry_buf, searchVars>>
        /\ pc = "gpt_signature" /\ pc' \in {"mbr_signature", "gpt", "cd"}
    BY <1>4 DEF GptInitialize
  <2>2. faults' \in Nat
    BY <1>1, <1>4, FailsEffect DEF GptInitialize
  <2> QED BY <1>1, <2>1, <2>2 DEF MediaTypeOK, Detecting, OnDisk
<1>5. CASE GptPartition
  <2>1. UNCHANGED <<machine, disk_index, frames, pc, searchVars>> /\ pc = "gpt"
    BY <1>5 DEF GptPartition
  <2>2. BufferType(entry_buf') /\ faults' \in Nat
    BY <1>1, <1>5, FailsEffect, DetectEffect DEF GptPartition
  <2> QED BY <1>1, <2>1, <2>2 DEF MediaTypeOK, Detecting, OnDisk
<1>6. CASE GptDone \/ MbrReturn
  <2>1. frames' \in Seq(FrameType)
    <3>1. frames' = frames \/ (frames # <<>> /\ frames' = Front(frames))
      BY <1>6 DEF GptDone, MbrReturn
    <3>2. ASSUME frames # <<>> PROVE Front(frames) \in Seq(FrameType)
      <4>1. frames[1] \in FrameType
        BY <1>1, <3>2, EmptySeq, ElementOfSeq
      <4> QED BY <1>1, <3>2, <4>1, FrameSteps
    <3> QED BY <1>1, <3>1, <3>2
  <2> QED BY <1>1, <1>6, <2>1 DEF GptDone, MbrReturn, MediaTypeOK, Detecting, OnDisk
<1>7. CASE MbrInitialize
  <2>1. UNCHANGED <<machine, disk_index, entry_buf, searchVars>>
        /\ pc = "mbr_signature" /\ pc' \in {"mbr", "cd"}
    BY <1>7 DEF MbrInitialize
  <2>2. faults' \in Nat
    BY <1>1, <1>7, FailsEffect DEF MbrInitialize
  <2>3. frames' \in Seq(FrameType)
    <3>1. Frame(0, 0) \in FrameType
      BY DEF Frame, FrameType
    <3>2. frames' \in {frames, <<Frame(0, 0)>>}
      BY <1>7 DEF MbrInitialize
    <3> QED BY <1>1, <3>1, <3>2
  <2> QED BY <1>1, <2>1, <2>2, <2>3 DEF MediaTypeOK, Detecting, OnDisk
<1>8. CASE MbrPartition
  <2>1. UNCHANGED <<machine, disk_index, pc, searchVars>> /\ pc = "mbr"
    BY <1>8 DEF MbrPartition
  <2>2. BufferType(entry_buf') /\ faults' \in Nat
    <3>1. \/ UNCHANGED entry_buf /\ (Fails(0) \/ Fails(1))
          \/ \E fs, lba, fse : Detect(fs, lba, fse)
      BY <1>8, TableEntry, Zenon DEF MbrPartition
    <3> QED BY <1>1, <3>1, FailsEffect, DetectEffect
  <2>3. frames' \in Seq(FrameType)
    <3> DEFINE f == Last(frames)
               p == Table(f.sector)[f.i + 1]
               next == [frames EXCEPT ![Len(frames)] = Advanced(f)]
               g == Frame(NestedBase(f), f.sector + p.first)
    <3>1. /\ f \in FrameType /\ f.i + 1 \in 1..4
          /\ p \in [type : {"empty", "data", "ebr"}, first : Nat]
      BY <1>8, TableEntry DEF MbrPartition
    <3>2. frames' \in {Front(frames), next, Append(next, g)} /\ frames # <<>>
      BY <1>8, <3>1, Zenon DEF MbrPartition
    <3>3. Advanced(f) \in FrameType /\ g \in FrameType
      <4> HIDE DEF f, p
      <4> QED BY <3>1 DEF Advanced, Frame, NestedBase, is_ebr, FrameType
    <3> HIDE DEF f, g
    <3>4. /\ Front(frames) \in Seq(FrameType) /\ next \in Seq(FrameType)
          /\ Append(next, g) \in Seq(FrameType)
      BY <1>1, <3>2, <3>3, FrameSteps
    <3> QED BY <3>2, <3>4
  <2> QED BY <1>1, <2>1, <2>2, <2>3 DEF MediaTypeOK, Detecting, OnDisk
<1>9. CASE DetectCd
  <2>1. UNCHANGED <<machine, disk_index, frames, searchVars>> /\ pc = "cd" /\ pc' \in {"raw", "next_disk"}
    BY <1>9 DEF DetectCd
  <2>2. BufferType(entry_buf') /\ faults' \in Nat
    BY <1>1, <1>9, FailsEffect, EntryAdded DEF DetectCd
  <2> QED BY <1>1, <2>1, <2>2 DEF MediaTypeOK, Detecting, OnDisk
<1>10. CASE DetectRaw
  <2>1. UNCHANGED <<machine, disk_index, frames, searchVars>> /\ pc = "raw" /\ pc' = "next_disk"
    BY <1>10 DEF DetectRaw
  <2>2. BufferType(entry_buf') /\ faults' \in Nat
    BY <1>1, <1>10, FailsEffect, DetectEffect DEF DetectRaw
  <2> QED BY <1>1, <2>1, <2>2 DEF MediaTypeOK, Detecting, OnDisk
<1>11. CASE NextDisk
  BY <1>1, <1>11 DEF NextDisk, MediaTypeOK, Detecting, OnDisk
<1> QED BY <1>3, <1>4, <1>5, <1>6, <1>7, <1>8, <1>9, <1>10, <1>11 DEF DiskStep

\* The network file system is the last entry, and the pointer to it is taken
\* after the growth that made room for it.
LEMMA DetectPxeTypes ==
    ASSUME PointerInv, DetectPxe
    PROVE  /\ PointerInv'
           /\ \/ /\ 0 \in DOMAIN machine.pxe /\ Fails(0)
                 /\ Added([NoEntry EXCEPT !.entry_type = "PXE"])
                 /\ pxe_entry' = [base |-> entry_buf'.base, slot |-> Len(entry_buf'.slots)]
              \/ /\ 0 \notin DOMAIN machine.pxe /\ Fails(0)
                 /\ UNCHANGED <<entry_buf, pxe_entry>>
              \/ Fails(1) /\ UNCHANGED <<entry_buf, pxe_entry>>
<1> DEFINE fse == [NoEntry EXCEPT !.entry_type = "PXE"]
<1>1. BufferType(entry_buf) /\ faults \in Nat /\ MediaTypeOK
      /\ pxe_entry = NULL /\ boot_entry = NULL /\ pc = "disk"
  BY DEF PointerInv, MediaTypeOK, PointersAreLate, DetectPxe, Detecting
<1>2. pc' = "resolve" /\ UNCHANGED <<machine, disk_index, frames, boot_entry>>
  BY DEF DetectPxe
<1> HIDE DEF fse
<1>3. \/ /\ 0 \in DOMAIN machine.pxe /\ Fails(0) /\ Added(fse)
         /\ pxe_entry' = [base |-> entry_buf'.base, slot |-> Len(entry_buf'.slots)]
      \/ /\ 0 \notin DOMAIN machine.pxe /\ Fails(0)
         /\ UNCHANGED <<entry_buf, pxe_entry>>
      \/ Fails(1) /\ UNCHANGED <<entry_buf, pxe_entry>>
  <2>1. CASE \E r \in AddEntry(fse) :
                 /\ entry_buf' = r.buf
                 /\ pxe_entry' = IF r.failed = 1 THEN pxe_entry
                                 ELSE NewestSlot(entry_buf, r.buf)
                 /\ Fails(r.failed)
                 /\ 0 \in DOMAIN machine.pxe
    <3>1. PICK r \in AddEntry(fse) :
                 /\ entry_buf' = r.buf
                 /\ pxe_entry' = IF r.failed = 1 THEN pxe_entry
                                 ELSE NewestSlot(entry_buf, r.buf)
                 /\ Fails(r.failed)
                 /\ 0 \in DOMAIN machine.pxe
      BY <2>1
    <3>2. /\ r.failed \in {0, 1}
          /\ BufferType(r.buf)
          /\ r.failed = 1 => r.buf = entry_buf
          /\ r.failed = 0 => r.buf.slots = Append(entry_buf.slots, fse)
      BY <1>1, EntryAdded
    <3> QED BY <3>1, <3>2 DEF Added, NewestSlot
  <2>2. CASE UNCHANGED <<entry_buf, pxe_entry>> /\ (Fails(1) \/ (0 \notin DOMAIN machine.pxe /\ Fails(0)))
    BY <2>2
  <2> QED BY <2>1, <2>2 DEF DetectPxe, fse
<1>4. BufferType(entry_buf') /\ faults' \in Nat
  BY <1>1, <1>3, FailsEffect DEF Added
<1>5. MediaTypeOK'
  BY <1>1, <1>2, <1>4 DEF MediaTypeOK, Detecting, OnDisk
<1>6. PointersAreLive'
  <2>1. CASE pxe_entry' = NULL
    BY <1>1, <1>2, <2>1 DEF PointersAreLive
  <2>2. CASE Added(fse) /\ pxe_entry' = [base |-> entry_buf'.base, slot |-> Len(entry_buf'.slots)]
    <3>1. Len(entry_buf'.slots) = Len(entry_buf.slots) + 1 /\ Len(entry_buf.slots) \in Nat
      BY <1>1, <2>2, SlotAppended DEF Added, BufferType
    <3>2. pxe_entry'.base = entry_buf'.base /\ pxe_entry'.slot \in 1..Len(entry_buf'.slots)
      BY <2>2, <3>1
    <3> QED BY <1>1, <1>2, <3>2 DEF PointersAreLive
  <2> QED BY <1>1, <1>3, <2>1, <2>2
<1>7. PointersAreLate'
  BY <1>1, <1>2, <1>6 DEF PointersAreLate, Detecting, OnDisk
<1> QED BY <1>3, <1>5, <1>7 DEF PointerInv, fse

\* After detection the table stays where it is.
LEMMA SearchStepTypes ==
    ASSUME PointerInv, SearchStep
    PROVE  /\ PointerInv'
           /\ pc \notin Detecting /\ pc' \notin Detecting
           /\ UNCHANGED mediaVars
           /\ faults' = 0 => UNCHANGED <<faults, lost>>
           /\ lost \subseteq lost'
<1>1. MediaTypeOK /\ PointersAreLate /\ PointersAreLive /\ faults \in Nat
  BY DEF PointerInv, MediaTypeOK, PointersAreLate
<1>2. /\ UNCHANGED mediaVars
      /\ pc \in {"resolve", "search", "load", "loaded", "oops"}
      /\ pc' \in {"search", "load", "loaded", "oops"}
  BY DEF SearchStep, fst_resolve_boot_entry, Probe, NextLoop, ReadConfig, LookUp, Stopped,
         mediaVars, vars
<1>3. faults' \in Nat /\ (faults' = 0 => UNCHANGED <<faults, lost>>) /\ lost \subseteq lost'
  <2>1. UNCHANGED <<faults, lost>> \/ (\E n \in {0, 1} : Fails(n))
    BY DEF SearchStep, fst_resolve_boot_entry, Probe, NextLoop, ReadConfig, LookUp, Stopped, vars
  <2> QED BY <1>1, <2>1, FailsEffect
<1>4. MediaTypeOK'
  BY <1>1, <1>2, <1>3 DEF MediaTypeOK, mediaVars, Detecting, OnDisk
<1>5. PointersAreLive'
  <2>1. UNCHANGED <<entry_buf, pxe_entry>>
    BY <1>2 DEF mediaVars
  <2>2. CASE UNCHANGED boot_entry
    BY <1>1, <2>1, <2>2 DEF PointersAreLive
  <2>3. CASE fst_resolve_boot_entry
    <3> DEFINE dev == ds_query_boot_device
               Boot(e) == IsBootPartition(e, dev)
               I == {i \in 1..Len(entry_buf.slots) : Boot(entry_buf.slots[i])}
               k == FirstSlot(Boot)
    <3>1. k = IF I # {} THEN Min(I) ELSE 0
      BY DEF FirstSlot
    <3>2. k = 0 \/ k \in 1..Len(entry_buf.slots)
      <4>1. I \subseteq 1..Len(entry_buf.slots) /\ IsSequence(entry_buf.slots)
        BY <1>1 DEF MediaTypeOK, BufferType
      <4>2. I # {} => Min(I) \in I
        <5> HIDE DEF I
        <5> QED BY <4>1, FirstMatch, Zenon
      <4> HIDE DEF I, k
      <4> QED BY <3>1, <4>1, <4>2, Zenon
    <3>3. \/ boot_entry' \in {NULL, pxe_entry}
          \/ k # 0 /\ boot_entry' = PointerTo(k)
      BY <2>3 DEF fst_resolve_boot_entry
    <3> HIDE DEF k
    <3> QED BY <1>1, <2>1, <3>2, <3>3 DEF PointersAreLive, PointerTo
  <2> QED BY <2>2, <2>3 DEF SearchStep, Probe, NextLoop, ReadConfig, LookUp, Stopped, vars
<1>6. PointersAreLate'
  BY <1>2, <1>5 DEF PointersAreLate, Detecting, OnDisk
<1> QED BY <1>2, <1>3, <1>4, <1>6 DEF PointerInv, Detecting, OnDisk

LEMMA PointerNextInv == PointerInv /\ [Next]_vars => PointerInv'
<1> SUFFICES ASSUME PointerInv, [Next]_vars PROVE PointerInv'
  OBVIOUS
<1>1. CASE DiskStep
  <2>1. /\ MediaTypeOK' /\ pc \in Detecting /\ pc' \in Detecting
        /\ UNCHANGED <<pxe_entry, boot_entry>>
    BY <1>1, DiskStepTypes DEF PointerInv, searchVars
  <2>2. pxe_entry = NULL /\ boot_entry = NULL
    BY <2>1 DEF PointerInv, PointersAreLate
  <2> QED BY <2>1, <2>2 DEF PointerInv, PointersAreLate, PointersAreLive
<1>2. CASE DetectPxe
  BY <1>2, DetectPxeTypes
<1>3. CASE SearchStep
  BY <1>3, SearchStepTypes
<1>4. CASE UNCHANGED vars
  BY <1>4 DEF vars, PointerInv, MediaTypeOK, PointersAreLate, PointersAreLive
<1> QED BY <1>1, <1>2, <1>3, <1>4, NextSplit

\* Whatever machine the loader is started on and whatever fails: the loops over the
\* disks stay on disks there are, the table is a sequence of entries, and nobody
\* has a pointer into it while it can still move.
THEOREM MediaAlwaysTyped == Spec => []PointerInv
<1> QED BY PointerInitInv, PointerNextInv, PTL DEF Spec

\* Whatever disks the machine has, whatever fails and however often the table
\* moves: pxe_entry and boot_entry never point into an allocation that
\* dynamic_buffer_grow has left behind, nor past the last entry.
THEOREM MediaPointersAreLive == Spec => []PointersAreLive
<1>1. PointerInv => PointersAreLive
  BY DEF PointerInv, PointersAreLate
<1> QED BY <1>1, MediaAlwaysTyped, PTL

-----------------------------------------------------------------------------
(* What a disk holds                                                       *)

\* The file systems of the machine, one kind at a time.
LEMMA PresentIff ==
    ASSUME NEW l
    PROVE  l \in Present <=>
             \/ \E i \in DOMAIN machine.disks : \E q \in Partitions(Disk(i)) :
                  q.lba \in DOMAIN Disk(i).fat /\ l = [disk |-> i, at |-> q]
             \/ \E i \in DOMAIN machine.disks :
                  /\ 0 \in DOMAIN Disk(i).fat \cup DOMAIN Disk(i).iso
                  /\ l = [disk |-> i, at |-> RawAt]
             \/ 0 \in DOMAIN machine.pxe /\ l = [disk |-> 0, at |-> PxeAt]
<1> DEFINE Q(i) == {q \in Partitions(Disk(i)) : q.lba \in DOMAIN Disk(i).fat}
           R == {i \in DOMAIN machine.disks : 0 \in DOMAIN Disk(i).fat \cup DOMAIN Disk(i).iso}
<1>2. ASSUME NEW i, NEW S
      PROVE  l \in [disk : {i}, at : S] <=> \E q \in S : l = [disk |-> i, at |-> q]
  OBVIOUS
<1>3. l \in OnPartitions <=>
        \E i \in DOMAIN machine.disks : \E q \in Q(i) : l = [disk |-> i, at |-> q]
  <2>1. l \in OnPartitions <=> \E i \in DOMAIN machine.disks : l \in [disk : {i}, at : Q(i)]
    BY DEF OnPartitions
  <2> HIDE DEF Q
  <2> QED BY <1>2, <2>1
<1>4. l \in OnWholeDisks <=> \E i \in R : l = [disk |-> i, at |-> RawAt]
  <2>1. \A i \in R : l \in [disk : {i}, at : {RawAt}] <=> l = [disk |-> i, at |-> RawAt]
    BY <1>2
  <2>2. l \in OnWholeDisks <=> \E i \in R : l \in [disk : {i}, at : {RawAt}]
    BY DEF OnWholeDisks
  <2> HIDE DEF R
  <2> QED BY <2>1, <2>2
<1>5. l \in OnNetwork <=> 0 \in DOMAIN machine.pxe /\ l = [disk |-> 0, at |-> PxeAt]
  BY DEF OnNetwork
<1>6. l \in Present <=> l \in OnPartitions \/ l \in OnWholeDisks \/ l \in OnNetwork
  BY DEF Present
<1> QED BY <1>3, <1>4, <1>5, <1>6

-----------------------------------------------------------------------------
(* The walk of an MBR                                                      *)

\* The disk a step of detection is on.
LEMMA AtDisk ==
    ASSUME WellFormedMachines, MediaTypeOK, pc \in OnDisk
    PROVE  /\ disk_index \in DOMAIN machine.disks /\ disk_index \in Nat \ {0}
           /\ DiskType(Disk(disk_index)) /\ WellFormed(Disk(disk_index))
BY BootMediaAssumption DEF WellFormedMachines, MediaTypeOK, Disk

\* One pass through the loop of mbr_do_initialize: n activations, f is the
\* innermost, and p the entry it is at.
MbrMoves(d, n, f, p, next) ==
    \/ p.type = "empty" /\ frames' = next /\ UNCHANGED entry_buf /\ Fails(0)
    \/ /\ n # 1
       /\ \/ p.type = "ebr" /\ f.i = 0
          \/ p.type = "data" /\ f.i = 1
       /\ frames' = Front(frames) /\ UNCHANGED entry_buf /\ Fails(0)
    \/ /\ p.type = "ebr" /\ (n = 1 \/ f.i # 0)
       /\ frames' = Append(next, Frame(NestedBase(f), f.sector + p.first))
       /\ UNCHANGED entry_buf /\ Fails(0)
    \/ /\ p.type = "ebr" /\ (n = 1 \/ f.i # 0)
       /\ frames' = next /\ UNCHANGED entry_buf /\ Fails(1)
    \/ /\ p.type = "data" /\ (n = 1 \/ f.i # 1)
       /\ frames' = next
       /\ Detect(d.fat, f.sector + p.first,
                 fst_entry("MBR", f.base + f.i, NoGuid, NoGuid, f.sector + p.first))

AtEntry(d, n, f, p) ==
    /\ d = Disk(disk_index) /\ n = Len(frames) /\ f = frames[n]
    /\ p = d.mbr[f.sector][f.i + 1]

LEMMA MbrMove ==
    ASSUME WellFormedMachines, MediaTypeOK, FramesSane, MbrPartition,
           NEW d, NEW n, NEW f, NEW p, AtEntry(d, n, f, p),
           NEW next, next = [frames EXCEPT ![n] = Advanced(f)]
    PROVE  /\ pc = "mbr" /\ frames # <<>> /\ f \in FrameType
           /\ f.i < (IF n = 1 THEN 4 ELSE 2)
           /\ p \in [type : {"empty", "data", "ebr"}, first : Nat]
           /\ Advanced(f) \in FrameType
           /\ Advanced(f) = [base |-> f.base, sector |-> f.sector, i |-> f.i + 1]
           /\ MbrMoves(d, n, f, p, next)
<1> USE DEF AtEntry
<1>1. pc = "mbr" /\ frames # <<>> /\ Last(frames).i < max_partitions(Last(frames))
  BY DEF MbrPartition
<1>2. f.sector \in DOMAIN d.mbr /\ f \in FrameType /\ Last(frames) = f /\ (is_ebr(f) <=> n # 1)
  <2>1. DiskType(d) /\ WellFormed(d) /\ SaneWalk(d, frames) /\ frames \in Seq(FrameType)
    BY <1>1, AtDisk DEF FramesSane, MediaTypeOK, OnDisk
  <2>2. /\ Len(frames) \in {1, 2, 3} /\ \A k \in 1..Len(frames) : frames[k] \in FrameType
        /\ Last(frames) = frames[Len(frames)]
        /\ frames[Len(frames)].sector \in DOMAIN d.mbr
        /\ is_ebr(frames[Len(frames)]) <=> Len(frames) # 1
    BY <1>1, <2>1, WalkAt
  <2>3. n \in 1..Len(frames)
    BY <2>2
  <2> QED BY <2>2, <2>3
<1>3. Table(f.sector)[f.i + 1] = p
  BY <1>2 DEF Table
<1>4. f.i + 1 \in 1..4 /\ p \in [type : {"empty", "data", "ebr"}, first : Nat]
  BY <1>1, <1>2, <1>3, TableEntry, Zenon
<1>5. f.i < (IF n = 1 THEN 4 ELSE 2)
  BY <1>1, <1>2 DEF max_partitions
<1>6. Advanced(f) \in FrameType /\ Advanced(f) = [base |-> f.base, sector |-> f.sector, i |-> f.i + 1]
  BY <1>2, <1>4 DEF Advanced, FrameType
<1> DEFINE inner == is_ebr(f)
           off == f.sector + p.first
           fse == fst_entry("MBR", f.base + f.i, NoGuid, NoGuid, off)
           Break == frames' = Front(frames) /\ UNCHANGED entry_buf /\ Fails(0)
<1>7. (CASE p.type = "empty" -> frames' = next /\ UNCHANGED entry_buf /\ Fails(0)
        [] p.type = "ebr" /\ inner /\ f.i = 0 -> Break
        [] p.type = "ebr" /\ ~(inner /\ f.i = 0) ->
             /\ \/ /\ frames' = Append(next, Frame(NestedBase(f), off))
                   /\ Fails(0)
                \/ frames' = next /\ Fails(1)
             /\ UNCHANGED entry_buf
        [] p.type = "data" /\ inner /\ f.i = 1 -> Break
        [] p.type = "data" /\ ~(inner /\ f.i = 1) ->
             frames' = next /\ Detect(d.fat, off, fse))
  BY <1>2, <1>3, Zenon DEF MbrPartition
<1> HIDE DEF off, fse
<1>8. \/ p.type = "empty" /\ frames' = next /\ UNCHANGED entry_buf /\ Fails(0)
      \/ p.type = "ebr" /\ inner /\ f.i = 0 /\ Break
      \/ /\ p.type = "ebr" /\ ~(inner /\ f.i = 0)
         /\ \/ frames' = Append(next, Frame(NestedBase(f), off)) /\ Fails(0)
            \/ frames' = next /\ Fails(1)
         /\ UNCHANGED entry_buf
      \/ p.type = "data" /\ inner /\ f.i = 1 /\ Break
      \/ /\ p.type = "data" /\ ~(inner /\ f.i = 1)
         /\ frames' = next /\ Detect(d.fat, off, fse)
  <2>1. p.type \in {"empty", "data", "ebr"}
    BY <1>4, Zenon
  <2> HIDE DEF inner, Break
  <2> QED BY <1>7, <2>1, Zenon
<1>9. MbrMoves(d, n, f, p, next)
  BY <1>2, <1>8, Zenon DEF off, fse, MbrMoves
<1> QED BY <1>1, <1>2, <1>4, <1>5, <1>6, <1>9, ZenonT(30)

\* What the activations are after one pass: one less, the same with the innermost
\* one further, or one more.
Passes(d, n, f, p, next) ==
    /\ DiskType(d) /\ WellFormed(d) /\ SaneWalk(d, frames) /\ frames \in Seq(FrameType)
    /\ n \in {1, 2, 3} /\ f.i \in Nat
    /\ Len(Front(frames)) = n - 1
    /\ \A k \in 1..n-1 : Front(frames)[k] = frames[k]
    /\ Len(next) = n /\ \A k \in 1..n-1 : next[k] = frames[k]
    /\ next[n].base = f.base /\ next[n].sector = f.sector /\ next[n].i = f.i + 1
    /\ p.type = "ebr" /\ (n = 1 \/ f.i # 0) =>
         Entered(d, frames, n, f, Append(next, Frame(NestedBase(f), f.sector + p.first)))

LEMMA NextFrames ==
    ASSUME WellFormedMachines, MediaTypeOK, FramesSane, MbrPartition,
           NEW d, NEW n, NEW f, NEW p, AtEntry(d, n, f, p),
           NEW next, next = [frames EXCEPT ![n] = Advanced(f)]
    PROVE  Passes(d, n, f, p, next)
<1>1. d = Disk(disk_index) /\ n = Len(frames) /\ f = frames[n] /\ p = d.mbr[f.sector][f.i + 1]
  BY DEF AtEntry
<1>3. /\ pc = "mbr" /\ frames # <<>> /\ f \in FrameType
      /\ f.i < (IF n = 1 THEN 4 ELSE 2)
      /\ p \in [type : {"empty", "data", "ebr"}, first : Nat]
      /\ Advanced(f) \in FrameType
      /\ Advanced(f) = [base |-> f.base, sector |-> f.sector, i |-> f.i + 1]
  BY MbrMove
<1>4. DiskType(d) /\ WellFormed(d) /\ SaneWalk(d, frames) /\ frames \in Seq(FrameType)
  BY <1>1, <1>3, AtDisk, Zenon DEF FramesSane, MediaTypeOK, OnDisk
<1>5. n \in {1, 2, 3}
  BY <1>1, <1>3, <1>4, WalkAt, Zenon
<1>6. PICK a, g : a = Advanced(f) /\ g = Frame(NestedBase(f), f.sector + p.first)
  OBVIOUS
<1>7. /\ a \in FrameType /\ g \in FrameType /\ f.i \in Nat
      /\ a.base = f.base /\ a.sector = f.sector /\ a.i = f.i + 1
  <2>1. g \in FrameType /\ f.i \in Nat
    BY <1>3, <1>6 DEF Frame, NestedBase, is_ebr, FrameType
  <2> QED BY <1>3, <1>6, <2>1
<1>8. /\ Len(Front(frames)) = n - 1
      /\ \A k \in 1..n-1 : Front(frames)[k] = frames[k]
      /\ Len(next) = n /\ next[n] = a
      /\ \A k \in 1..n-1 : next[k] = frames[k]
      /\ Len(Append(next, g)) = n + 1
      /\ Append(next, g)[n] = a /\ Append(next, g)[n + 1] = g
      /\ \A k \in 1..n-1 : Append(next, g)[k] = frames[k]
  <2> DEFINE m == Len(frames)
             nx == [frames EXCEPT ![m] = a]
  <2>1. /\ Len(Front(frames)) = m - 1
        /\ \A k \in 1..m-1 : Front(frames)[k] = frames[k]
        /\ Len(nx) = m /\ nx[m] = a
        /\ \A k \in 1..m-1 : nx[k] = frames[k]
        /\ Len(Append(nx, g)) = m + 1
        /\ Append(nx, g)[m] = a /\ Append(nx, g)[m + 1] = g
        /\ \A k \in 1..m-1 : Append(nx, g)[k] = frames[k]
    BY <1>3, <1>4, <1>7, FrameSteps
  <2>2. m = n /\ nx = next
    BY <1>1, <1>6, Zenon
  <2> HIDE DEF m, nx
  <2> QED BY <2>1, <2>2
<1>9. ASSUME p.type = "ebr", n = 1 \/ f.i # 0
      PROVE  Entered(d, frames, n, f, Append(next, Frame(NestedBase(f), f.sector + p.first)))
  <2>1. PICK t : t = Append(next, g)
    BY Zenon
  <2>2. /\ Len(t) = n + 1 /\ \A k \in 1..n-1 : t[k] = frames[k]
        /\ t[n].base = f.base /\ t[n].sector = f.sector /\ t[n].i = f.i + 1
        /\ t[n + 1] = Frame(NestedBase(f), f.sector + d.mbr[f.sector][f.i + 1].first)
    BY <1>1, <1>6, <1>7, <1>8, <2>1, ZenonT(30)
  <2>3. d.mbr[f.sector][f.i + 1].type = "ebr"
    BY <1>1, <1>9
  <2>4. /\ n = Len(frames) /\ f = frames[n]
        /\ f.i < (IF n = 1 THEN 4 ELSE 2) /\ (n = 1 \/ f.i # 0)
    BY <1>1, <1>3, <1>9, ZenonT(30)
  <2>5. Entered(d, frames, n, f, t)
    BY <2>2, <2>3, <2>4 DEF Entered
  <2> QED BY <1>6, <2>1, <2>5
<1> QED BY <1>4, <1>5, <1>7, <1>8, <1>9 DEF Passes

\* The walk stays within the first table and two extended boot records.
LEMMA FramesStay ==
    ASSUME WellFormedMachines, MediaTypeOK, FramesSane, MbrPartition
    PROVE  FramesSane'
<1>1. PICK d, n, f, p : AtEntry(d, n, f, p)
  BY Zenon DEF AtEntry
<1>2. PICK next : next = [frames EXCEPT ![n] = Advanced(f)]
  BY Zenon
<1>3. /\ frames # <<>> /\ f.i < (IF n = 1 THEN 4 ELSE 2) /\ MbrMoves(d, n, f, p, next)
  BY <1>1, <1>2, MbrMove, Zenon
<1>4. /\ DiskType(d) /\ WellFormed(d) /\ SaneWalk(d, frames) /\ frames \in Seq(FrameType)
      /\ n \in {1, 2, 3} /\ f.i \in Nat
      /\ Len(Front(frames)) = n - 1
      /\ \A k \in 1..n-1 : Front(frames)[k] = frames[k]
      /\ Len(next) = n /\ \A k \in 1..n-1 : next[k] = frames[k]
      /\ next[n].base = f.base /\ next[n].sector = f.sector /\ next[n].i = f.i + 1
      /\ p.type = "ebr" /\ (n = 1 \/ f.i # 0) =>
           Entered(d, frames, n, f, Append(next, Frame(NestedBase(f), f.sector + p.first)))
  <2>1. Passes(d, n, f, p, next)
    BY <1>1, <1>2, NextFrames, Zenon
  <2> QED BY <2>1 DEF Passes
<1>5. d = Disk(disk_index) /\ n = Len(frames) /\ f = frames[n]
  BY <1>1 DEF AtEntry
<1>6. SaneWalk(d, frames')
  <2>1. CASE frames' = Front(frames)
    BY <1>4, <1>5, <2>1, WalkBack, Zenon
  <2>2. CASE frames' = next
    <3>1. /\ Len(next) = n /\ \A k \in 1..n-1 : next[k] = frames[k]
          /\ next[n].base = frames[n].base /\ next[n].sector = frames[n].sector
          /\ next[n].i = f.i + 1
      BY <1>4, <1>5
    <3>2. SaneWalk(d, next)
      <4>1. SaneWalk(d, frames) /\ Len(frames) = n /\ f.i \in Nat
            /\ f.i < (IF n = 1 THEN 4 ELSE 2)
        BY <1>3, <1>4, <1>5
      <4> QED BY <1>4, <1>5, <3>1, <4>1, WalkOn, ZenonT(30)
    <3> QED BY <2>2, <3>2
  <2>3. CASE /\ p.type = "ebr" /\ (n = 1 \/ f.i # 0)
             /\ frames' = Append(next, Frame(NestedBase(f), f.sector + p.first))
    <3>1. Entered(d, frames, n, f, frames')
      BY <1>4, <2>3
    <3> QED BY <1>3, <1>4, <3>1, WalkInto
  <2> QED BY <1>3, <2>1, <2>2, <2>3 DEF MbrMoves
<1>7. Disk(disk_index)' = d
  BY <1>5 DEF MbrPartition, Disk
<1> QED BY <1>6, <1>7 DEF FramesSane

\* The walks of the partition tables stay where the tables lead.
LEMMA WalkStep ==
    ASSUME WellFormedMachines, MediaTypeOK, WalkInv, DiskStep
    PROVE  WalkInv'
<1>1. MediaTypeOK' /\ machine' = machine
  BY DiskStepTypes
<1>2. CASE BeginDisk \/ GptDone \/ DetectCd \/ DetectRaw \/ NextDisk
  <2>1. pc' \notin {"gpt", "mbr"}
    BY <1>2 DEF BeginDisk, GptDone, DetectCd, DetectRaw, NextDisk
  <2> QED BY <2>1 DEF WalkInv, GptSane, FramesSane
<1>3. CASE GptInitialize
  <2>1. pc' # "mbr" /\ gpt' = [part_idx |-> 0, off |-> 0]
        /\ Disk(disk_index)' = Disk(disk_index) /\ pc = "gpt_signature"
    BY <1>3 DEF GptInitialize, Disk
  <2>2. DiskType(Disk(disk_index))
    BY <2>1, AtDisk DEF OnDisk
  <2>3. Len(Disk(disk_index).gpt) \in Nat
    BY <2>2 DEF DiskType
  <2> QED BY <2>1, <2>3 DEF WalkInv, GptSane, FramesSane
<1>4. CASE GptPartition
  <2>1. /\ pc = "gpt" /\ pc' = "gpt" /\ disk_index' = disk_index
        /\ Disk(disk_index)' = Disk(disk_index)
        /\ gpt.part_idx < Len(Disk(disk_index).gpt)
    BY <1>4 DEF GptPartition, Disk
  <2>2. /\ gpt \in [part_idx : Nat, off : Nat]
        /\ gpt.off <= gpt.part_idx /\ gpt.part_idx <= Len(Disk(disk_index).gpt)
        /\ disk_index \notin lost => gpt.off = gpt.part_idx
    BY <2>1 DEF WalkInv, GptSane
  <2>3. DiskType(Disk(disk_index)) /\ faults \in Nat
    BY <2>1, AtDisk DEF OnDisk, MediaTypeOK
  <2>4. Len(Disk(disk_index).gpt) \in Nat
    BY <2>3 DEF DiskType
  <2>5. lost \subseteq lost' /\
        \/ gpt' = [part_idx |-> gpt.part_idx + 1, off |-> gpt.off] /\ disk_index \in lost'
        \/ gpt' = [part_idx |-> gpt.part_idx + 1, off |-> gpt.off + 1]
    <3>1. CASE gpt' = [gpt EXCEPT !.part_idx = @ + 1] /\ Fails(1)
      <4>1. gpt' = [part_idx |-> gpt.part_idx + 1, off |-> gpt.off]
        BY <2>2, <3>1
      <4> QED BY <2>3, <3>1, <4>1, FailsEffect, Zenon
    <3>2. CASE /\ gpt' = NextEntry(gpt, Disk(disk_index).gpt[gpt.off + 1])
               /\ \/ \E fs, lba, fse : Detect(fs, lba, fse)
                  \/ Fails(0)
      <4>1. \/ Fails(0) \/ Fails(1)
        BY <3>2, DetectEffect DEF MediaTypeOK
      <4> QED BY <2>3, <3>2, <4>1, FailsEffect DEF NextEntry
    <3> QED BY <1>4, <3>1, <3>2 DEF GptPartition
  <2>6. GptSane'
    BY <2>1, <2>2, <2>4, <2>5 DEF GptSane
  <2> QED BY <2>1, <2>6 DEF WalkInv, FramesSane
<1>5. CASE MbrInitialize
  <2>1. pc' # "gpt" /\ Disk(disk_index)' = Disk(disk_index)
    BY <1>5 DEF MbrInitialize, Disk
  <2>2. pc' = "mbr" => 0 \in DOMAIN Disk(disk_index).mbr /\ frames' = <<Frame(0, 0)>>
    BY <1>5 DEF MbrInitialize
  <2>3. PICK t : t = <<Frame(0, 0)>>
    BY Zenon
  <2>4. Len(t) = 1 /\ t[1].base = 0 /\ t[1].sector = 0 /\ t[1].i = 0
    BY <2>3 DEF Frame
  <2>5. ASSUME NEW d, 0 \in DOMAIN d.mbr PROVE SaneWalk(d, t)
    BY <2>4, <2>5 DEF SaneWalk
  <2> QED BY <2>1, <2>2, <2>3, <2>5 DEF WalkInv, GptSane, FramesSane
<1>6. CASE MbrPartition
  <2>1. FramesSane'
    BY <1>6, FramesStay DEF WalkInv
  <2> QED BY <1>6, <2>1 DEF MbrPartition, WalkInv, GptSane
<1>7. CASE MbrReturn
  <2>1. CASE frames = <<>>
    BY <1>7, <2>1 DEF MbrReturn, WalkInv, GptSane, FramesSane
  <2>2. CASE frames # <<>>
    <3>1. /\ pc = "mbr" /\ pc' = "mbr" /\ frames' = Front(frames)
          /\ Disk(disk_index)' = Disk(disk_index)
      BY <1>7, <2>2 DEF MbrReturn, Disk
    <3>2. PICK d, n : d = Disk(disk_index) /\ n = Len(frames)
      BY Zenon
    <3>3. DiskType(d) /\ WellFormed(d) /\ SaneWalk(d, frames) /\ frames \in Seq(FrameType)
      BY <3>1, <3>2, AtDisk DEF WalkInv, FramesSane, MediaTypeOK, OnDisk
    <3>4. n \in {1, 2, 3} /\ frames[1] \in FrameType
      BY <2>2, <3>2, <3>3, WalkAt
    <3>5. Len(Front(frames)) = n - 1 /\ \A k \in 1..n-1 : Front(frames)[k] = frames[k]
      BY <2>2, <3>2, <3>3, <3>4, FrameSteps
    <3>6. SaneWalk(d, Front(frames))
      BY <3>2, <3>3, <3>4, <3>5, WalkBack, Zenon
    <3> QED BY <3>1, <3>2, <3>6 DEF WalkInv, GptSane, FramesSane
  <2> QED BY <2>1, <2>2
<1> QED BY <1>2, <1>3, <1>4, <1>5, <1>6, <1>7 DEF DiskStep

\* Detection does not write to the disks.
LEMMA PresentSame ==
    ASSUME UNCHANGED machine
    PROVE  Present' = Present
<1>1. OnPartitions' = OnPartitions
  BY DEF OnPartitions, Disk
<1>2. OnWholeDisks' = OnWholeDisks
  BY DEF OnWholeDisks, Disk
<1>3. OnNetwork' = OnNetwork
  BY DEF OnNetwork
<1> QED BY <1>1, <1>2, <1>3 DEF Present

-----------------------------------------------------------------------------
(* The entries are real                                                    *)

\* What EntriesAreReal asks of one entry.
Real(e) ==
    \E l \in Present :
      /\ l.disk = e.disk
      /\ IF e.entry_type = "GPT" /\ e.disk \in lost
         THEN l.at.guid = e.partition_guid /\ l.at.lba = e.lba
         ELSE l = Location(e)

LEMMA EntryLocation ==
    ASSUME NEW type, NEW index, NEW dguid, NEW pguid, NEW lba,
           NEW e, e = fst_entry(type, index, dguid, pguid, lba)
    PROVE  /\ e.entry_type = type /\ e.disk = disk_index /\ e.partition_guid = pguid
           /\ e.partition_index = index /\ e.lba = lba
           /\ Location(e) = [disk |-> disk_index,
                             at |-> [entry_type |-> type, index |-> index, lba |-> lba,
                                     guid |-> pguid]]
BY DEF fst_entry, Location

\* The entries of gpt_do_initialize: entry k of the array of disk d.
AtGptEntry(d, k) == d = Disk(disk_index) /\ k = gpt.off + 1
GptFse(d, k) == fst_entry("GPT", gpt.part_idx, d.guid, d.gpt[k].guid, d.gpt[k].start)

LEMMA NextOffset ==
    ASSUME NEW o \in Nat, NEW j \in Nat, NEW m \in Nat, o <= j, j < m, NEW k, k = o + 1
    PROVE  k \in 1..m /\ k - 1 = o /\ m # 0
OBVIOUS

LEMMA GptEntry ==
    ASSUME WellFormedMachines, MediaTypeOK, GptSane, GptPartition,
           NEW d, NEW k, AtGptEntry(d, k), d.gpt[k].used, d.gpt[k].start \in DOMAIN d.fat
    PROVE  /\ [disk |-> disk_index, at |-> GptAt(d, k)] \in Present
           /\ k \in DOMAIN d.gpt /\ d.gpt # <<>>
           /\ disk_index \notin lost =>
                Location(GptFse(d, k)) = [disk |-> disk_index, at |-> GptAt(d, k)]
           /\ Real(GptFse(d, k))
<1>1. pc = "gpt" /\ gpt.part_idx < Len(d.gpt)
  BY DEF GptPartition, AtGptEntry
<1>2. /\ gpt.off \in Nat /\ gpt.part_idx \in Nat /\ gpt.off <= gpt.part_idx
      /\ disk_index \notin lost => gpt.off = gpt.part_idx
  BY <1>1 DEF GptSane
<1>3. /\ disk_index \in DOMAIN machine.disks /\ d = Disk(disk_index)
      /\ d.gpt \in Seq([used : BOOLEAN, start : Nat, guid : Nat])
  BY <1>1, AtDisk DEF DiskType, OnDisk, AtGptEntry
<1>4. k \in DOMAIN d.gpt /\ d.gpt # <<>> /\ k - 1 = gpt.off
  <2>1. k = gpt.off + 1
    BY DEF AtGptEntry
  <2>2. PICK g, m : g = d.gpt /\ m = Len(g)
    BY Zenon
  <2>3. m \in Nat /\ DOMAIN g = 1..m /\ g \in Seq([used : BOOLEAN, start : Nat, guid : Nat])
    BY <1>3, <2>2
  <2>4. PICK o, j : o = gpt.off /\ j = gpt.part_idx
    BY Zenon
  <2>5. o \in Nat /\ j \in Nat /\ o <= j /\ j < m
    BY <1>1, <1>2, <2>2, <2>4, Zenon
  <2>6. k = o + 1
    BY <2>1, <2>4, Zenon
  <2>7. k \in 1..m /\ k - 1 = o /\ m # 0
    BY <2>3, <2>5, <2>6, NextOffset, Zenon
  <2> QED BY <2>2, <2>3, <2>4, <2>7
<1>5. PICK q : q = GptAt(d, k)
  BY Zenon
<1>6. q \in Partitions(d)
  BY <1>4, <1>5, GptPartitions
<1>7. /\ q.lba = d.gpt[k].start /\ q.guid = d.gpt[k].guid
      /\ q = [entry_type |-> "GPT", index |-> gpt.off, lba |-> d.gpt[k].start,
              guid |-> d.gpt[k].guid]
  BY <1>4, <1>5 DEF GptAt
<1>8. PICK l, e : l = [disk |-> disk_index, at |-> q] /\ e = GptFse(d, k)
  BY Zenon
<1>9. l \in Present
  BY <1>3, <1>6, <1>7, <1>8, PresentIff
<1>10. disk_index \notin lost => Location(e) = l
  BY <1>2, <1>7, <1>8, EntryLocation DEF GptFse
<1>11. Real(e)
  <2>1. l.disk = disk_index /\ l.at.guid = d.gpt[k].guid /\ l.at.lba = d.gpt[k].start
    BY <1>7, <1>8
  <2>2. /\ e.entry_type = "GPT" /\ e.disk = disk_index /\ e.partition_guid = d.gpt[k].guid
        /\ e.lba = d.gpt[k].start
    BY <1>8, EntryLocation DEF GptFse
  <2> QED BY <1>9, <1>10, <2>1, <2>2 DEF Real
<1> QED BY <1>4, <1>5, <1>8, <1>9, <1>10, <1>11

\* The entries of mbr_do_initialize.
DataEntry(d, n, f, p) ==
    p.type = "data" /\ (n = 1 \/ f.i # 1) /\ f.sector + p.first \in DOMAIN d.fat
MbrFse(f, p) == fst_entry("MBR", f.base + f.i, NoGuid, NoGuid, f.sector + p.first)

LEMMA MbrEntry ==
    ASSUME WellFormedMachines, MediaTypeOK, FramesSane, MbrPartition,
           NEW d, NEW n, NEW f, NEW p, AtEntry(d, n, f, p), DataEntry(d, n, f, p)
    PROVE  /\ MbrOnly(d)
           /\ Location(MbrFse(f, p))
                = [disk |-> disk_index, at |-> MbrAt(f.base + f.i, f.sector + p.first)]
           /\ Location(MbrFse(f, p)) \in Present
           /\ Real(MbrFse(f, p))
<1>1. /\ pc = "mbr" /\ frames # <<>> /\ f \in FrameType
      /\ f.i < (IF n = 1 THEN 4 ELSE 2)
      /\ p \in [type : {"empty", "data", "ebr"}, first : Nat]
  <2>1. PICK next : next = [frames EXCEPT ![n] = Advanced(f)]
    BY Zenon
  <2> QED BY <2>1, MbrMove
<1>2. /\ DiskType(d) /\ WellFormed(d) /\ SaneWalk(d, frames) /\ frames \in Seq(FrameType)
      /\ disk_index \in DOMAIN machine.disks
  BY <1>1, AtDisk, Zenon DEF FramesSane, MediaTypeOK, OnDisk, AtEntry
<1>3. /\ n \in {1, 2, 3} /\ f.sector \in DOMAIN d.mbr
      /\ n = 1 => f.base = 0 /\ f.sector = 0
      /\ n # 1 => MbrOnly(d)
      /\ n = 2 => f.base = 4 /\ FirstRecord(d, f.sector)
      /\ n = 3 => f.base = 5 /\ SecondRecord(d, f.sector)
  <2>1. n = Len(frames) /\ f = frames[n]
    BY DEF AtEntry
  <2>2. /\ Len(frames) \in {1, 2, 3} /\ frames[Len(frames)].sector \in DOMAIN d.mbr
        /\ Len(frames) = 1 => frames[1].base = 0 /\ frames[1].sector = 0
        /\ Len(frames) # 1 => MbrOnly(d) /\ FirstRecord(d, frames[2].sector)
        /\ Len(frames) = 2 => frames[2].base = 4
        /\ Len(frames) = 3 => frames[3].base = 5 /\ SecondRecord(d, frames[3].sector)
    BY <1>1, <1>2, WalkAt
  <2> QED BY <2>1, <2>2
<1>4. f.i \in 0..3 /\ f.i \in Nat /\ p.first \in Nat /\ f.sector \in Nat
  BY <1>1, <1>3 DEF FrameType
<1> USE DEF DataEntry
<1>0. p = d.mbr[f.sector][f.i + 1] /\ d = Disk(disk_index)
  BY DEF AtEntry
<1>5. MbrOnly(d)
  <2> SUFFICES ASSUME n = 1 PROVE MbrOnly(d)
    BY <1>3
  <2>0. f.sector = 0
    BY <1>3
  <2>1. f.i + 1 \in 1..4 /\ d.mbr[0][f.i + 1] = p /\ f.sector + p.first = p.first
    BY <1>0, <1>4, <2>0
  <2>2. 0 \in DOMAIN d.mbr
    BY <1>2 DEF SaneWalk
  <2>3. d.gpt = <<>>
    BY <1>2, <2>1, <2>2, Zenon DEF WellFormed
  <2> QED BY <1>2, <2>2, <2>3 DEF MbrOnly
<1>6. PICK q : q = MbrAt(f.base + f.i, f.sector + p.first)
  OBVIOUS
<1>7. q \in Partitions(d)
  <2>1. CASE n = 1
    <3>1. PICK k \in 1..4 : k = f.i + 1
      BY <1>4
    <3>2. k - 1 = f.base + f.i /\ d.mbr[0][k] = p /\ f.sector + p.first = p.first
      <4>1. f.sector = 0 /\ f.base = 0
        BY <1>3, <2>1
      <4> QED BY <1>0, <1>4, <3>1, <4>1
    <3>3. d.mbr[0][k].type = "data" /\ q = MbrAt(k - 1, d.mbr[0][k].first)
      BY <1>6, <3>2, SMTT(30)
    <3> QED BY <1>5, <3>3, MbrPartitions
  <2>2. CASE n # 1
    <3>1. f.i = 0 /\ f.i + 1 = 1 /\ p = d.mbr[f.sector][1]
      <4>1. f.i = 0
        BY <1>1, <1>4, <2>2
      <4> QED BY <1>0, <4>1
    <3>2. f.base + f.i = IF n = 2 THEN 4 ELSE 5
      BY <1>3, <2>2, <3>1
    <3> QED BY <1>3, <1>5, <1>6, <2>2, <3>1, <3>2, MbrPartitions
  <2> QED BY <2>1, <2>2
<1>8. q.lba = f.sector + p.first
  BY <1>6 DEF MbrAt
<1>9. PICK l, e : l = [disk |-> disk_index, at |-> q] /\ e = MbrFse(f, p)
  BY Zenon
<1>10. l \in Present
  <2>1. q.lba \in DOMAIN Disk(disk_index).fat /\ q \in Partitions(Disk(disk_index))
    BY <1>0, <1>7, <1>8
  <2> QED BY <1>2, <1>9, <2>1, PresentIff, ZenonT(30)
<1>11. Location(e) = l /\ e.entry_type = "MBR" /\ e.disk = disk_index /\ l.disk = disk_index
  <2>1. PICK i, o : i = f.base + f.i /\ o = f.sector + p.first
    OBVIOUS
  <2>2. e = fst_entry("MBR", i, NoGuid, NoGuid, o)
    BY <1>9, <2>1 DEF MbrFse
  <2>3. q = [entry_type |-> "MBR", index |-> i, lba |-> o, guid |-> NoGuid]
    BY <1>6, <2>1 DEF MbrAt
  <2> QED BY <1>9, <2>2, <2>3, EntryLocation
<1> QED BY <1>5, <1>6, <1>9, <1>10, <1>11 DEF Real

\* The entries of detect_cd and detect_raw.
LEMMA WholeDiskEntry ==
    ASSUME WellFormedMachines, MediaTypeOK, pc \in {"cd", "raw"},
           0 \in DOMAIN Disk(disk_index).fat \cup DOMAIN Disk(disk_index).iso
    PROVE  /\ Location(RawEntry) = [disk |-> disk_index, at |-> RawAt]
           /\ Location(RawEntry) \in Present
           /\ Real(RawEntry)
<1>1. disk_index \in DOMAIN machine.disks
  BY AtDisk DEF OnDisk
<1>2. PICK l : l = [disk |-> disk_index, at |-> RawAt]
  BY Zenon
<1>3. l \in Present
  BY <1>1, <1>2, PresentIff
<1>4. /\ Location(RawEntry) = l /\ l.disk = disk_index
      /\ RawEntry.entry_type = "RAW" /\ RawEntry.disk = disk_index
  BY <1>2, EntryLocation DEF RawEntry, RawAt
<1> QED BY <1>2, <1>3, <1>4 DEF Real

\* A step of detection adds nothing to the table but a file system that is there.
LEMMA NewEntryIsReal ==
    ASSUME WellFormedMachines, MediaTypeOK, WalkInv, DiskStep
    PROVE  lost \subseteq lost' /\ (UNCHANGED entry_buf \/ \E e : Added(e) /\ Real(e))
<1>1. BufferType(entry_buf) /\ faults \in Nat /\ GptSane /\ FramesSane
  BY DEF MediaTypeOK, WalkInv
<1>2. CASE BeginDisk \/ GptInitialize \/ GptDone \/ MbrInitialize \/ MbrReturn \/ NextDisk
  <2>1. UNCHANGED entry_buf /\ (Fails(0) \/ Fails(1) \/ UNCHANGED lost)
    BY <1>2 DEF BeginDisk, GptInitialize, GptDone, MbrInitialize, MbrReturn, NextDisk
  <2> QED BY <1>1, <2>1, FailsEffect
<1>3. CASE GptPartition
  <2>1. PICK d, k : d = Disk(disk_index) /\ k = gpt.off + 1 /\ AtGptEntry(d, k)
    BY DEF AtGptEntry
  <2>2. \/ UNCHANGED entry_buf /\ (Fails(0) \/ Fails(1))
        \/ d.gpt[k].used /\ Detect(d.fat, d.gpt[k].start, GptFse(d, k))
    BY <1>3, <2>1 DEF GptPartition, GptFse
  <2>3. \/ UNCHANGED entry_buf /\ (Fails(0) \/ Fails(1))
        \/ /\ d.gpt[k].used /\ d.gpt[k].start \in DOMAIN d.fat
           /\ Added(GptFse(d, k)) /\ Fails(0)
    BY <1>1, <2>2, DetectEffect
  <2>4. ASSUME d.gpt[k].used, d.gpt[k].start \in DOMAIN d.fat PROVE Real(GptFse(d, k))
    BY <1>1, <1>3, <2>1, <2>4, GptEntry, Zenon
  <2> QED BY <1>1, <2>3, <2>4, FailsEffect
<1>4. CASE MbrPartition
  <2>1. PICK d, n, f, p : AtEntry(d, n, f, p)
    BY Zenon DEF AtEntry
  <2>2. PICK next : next = [frames EXCEPT ![n] = Advanced(f)]
    BY Zenon
  <2>3. MbrMoves(d, n, f, p, next)
    BY <1>1, <1>4, <2>1, <2>2, MbrMove, Zenon
  <2>4. \/ UNCHANGED entry_buf /\ (Fails(0) \/ Fails(1))
        \/ /\ p.type = "data" /\ (n = 1 \/ f.i # 1)
           /\ Detect(d.fat, f.sector + p.first, MbrFse(f, p))
    BY <2>3 DEF MbrMoves, MbrFse
  <2>5. \/ UNCHANGED entry_buf /\ (Fails(0) \/ Fails(1))
        \/ DataEntry(d, n, f, p) /\ Added(MbrFse(f, p)) /\ Fails(0)
    <3>1. PICK o : o = f.sector + p.first
      OBVIOUS
    <3> QED BY <1>1, <2>4, <3>1, DetectEffect DEF DataEntry
  <2>6. ASSUME DataEntry(d, n, f, p) PROVE Real(MbrFse(f, p))
    BY <1>1, <1>4, <2>1, <2>6, MbrEntry
  <2> QED BY <1>1, <2>5, <2>6, FailsEffect
<1>5. CASE DetectCd
  <2>1. pc = "cd"
    BY <1>5 DEF DetectCd
  <2>2. \/ UNCHANGED entry_buf /\ (Fails(0) \/ Fails(1))
        \/ /\ 0 \in DOMAIN Disk(disk_index).iso
           /\ \E r \in AddEntry(RawEntry) : entry_buf' = r.buf /\ Fails(r.failed)
    BY <1>5 DEF DetectCd
  <2>3. CASE UNCHANGED entry_buf /\ (Fails(0) \/ Fails(1))
    BY <1>1, <2>3, FailsEffect
  <2>4. CASE /\ 0 \in DOMAIN Disk(disk_index).iso
             /\ \E r \in AddEntry(RawEntry) : entry_buf' = r.buf /\ Fails(r.failed)
    <3>1. PICK r \in AddEntry(RawEntry) : entry_buf' = r.buf /\ Fails(r.failed)
      BY <2>4
    <3>2. /\ r.failed \in {0, 1} /\ BufferType(r.buf)
          /\ r.failed = 1 => r.buf = entry_buf
          /\ r.failed = 0 => r.buf.slots = Append(entry_buf.slots, RawEntry)
      BY <1>1, EntryAdded
    <3>3. Real(RawEntry)
      BY <2>1, <2>4, WholeDiskEntry
    <3>4. lost \subseteq lost'
      BY <1>1, <3>1, <3>2, FailsEffect
    <3> QED BY <3>1, <3>2, <3>3, <3>4 DEF Added
  <2> QED BY <2>2, <2>3, <2>4
<1>6. CASE DetectRaw
  <2>1. pc = "raw" /\ Detect(Disk(disk_index).fat, 0, RawEntry)
    BY <1>6 DEF DetectRaw
  <2>2. \/ UNCHANGED entry_buf /\ (Fails(0) \/ Fails(1))
        \/ 0 \in DOMAIN Disk(disk_index).fat /\ Added(RawEntry) /\ Fails(0)
    BY <1>1, <2>1, DetectEffect
  <2>3. ASSUME 0 \in DOMAIN Disk(disk_index).fat PROVE Real(RawEntry)
    BY <2>1, <2>3, WholeDiskEntry
  <2> QED BY <1>1, <2>2, <2>3, FailsEffect
<1> QED BY <1>2, <1>3, <1>4, <1>5, <1>6 DEF DiskStep

\* The network file system is there as well.
LEMMA PxeEntry ==
    ASSUME 0 \in DOMAIN machine.pxe, NEW e, e = [NoEntry EXCEPT !.entry_type = "PXE"]
    PROVE  /\ Location(e) = [disk |-> 0, at |-> PxeAt]
           /\ Location(e) \in Present /\ Real(e)
<1>1. /\ e.entry_type = "PXE" /\ e.disk = 0
      /\ Location(e) = [disk |-> 0, at |-> PxeAt]
  BY DEF NoEntry, Location, PxeAt
<1>2. PICK l : l = [disk |-> 0, at |-> PxeAt]
  BY Zenon
<1>3. l \in Present
  BY <1>2, PresentIff
<1> QED BY <1>1, <1>2, <1>3 DEF Real

\* What is in the table stays real, whatever fails later.
LEMMA EntriesStayReal ==
    ASSUME EntriesAreReal, BufferType(entry_buf), UNCHANGED machine, lost \subseteq lost',
           UNCHANGED entry_buf \/ \E e : Added(e) /\ Real(e)
    PROVE  EntriesAreReal'
<1>1. Present' = Present
  BY PresentSame
<1>2. ASSUME NEW e \in Range(entry_buf'.slots) PROVE Real(e)
  <2>1. CASE UNCHANGED entry_buf
    BY <1>2, <2>1 DEF EntriesAreReal, Real
  <2>2. CASE \E x : Added(x) /\ Real(x)
    <3>1. PICK x : Added(x) /\ Real(x)
      BY <2>2
    <3>2. e \in Range(entry_buf.slots) \cup {x}
      BY <1>2, <3>1, SlotAppended DEF Added, BufferType
    <3> QED BY <3>1, <3>2 DEF EntriesAreReal, Real
  <2> QED BY <2>1, <2>2
<1>3. ASSUME NEW e, Real(e)
      PROVE  \E l \in Present :
               /\ l.disk = e.disk
               /\ IF e.entry_type = "GPT" /\ e.disk \in lost'
                  THEN l.at.guid = e.partition_guid /\ l.at.lba = e.lba
                  ELSE l = Location(e)
  <2>1. PICK l \in Present :
          /\ l.disk = e.disk
          /\ IF e.entry_type = "GPT" /\ e.disk \in lost
             THEN l.at.guid = e.partition_guid /\ l.at.lba = e.lba
             ELSE l = Location(e)
    BY <1>3 DEF Real
  <2>2. l = Location(e) => l.at.guid = e.partition_guid /\ l.at.lba = e.lba
    BY DEF Location
  <2> QED BY <2>1, <2>2
<1> QED BY <1>1, <1>2, <1>3 DEF EntriesAreReal, Location

RealInv == PointerInv /\ WalkInv /\ EntriesAreReal

\* Failed reads and allocations only leave entries out: on disks whose tables
\* mean to the loader what they mean to the formats, every entry of the table is
\* a file system of the disk it names, and only the indexes of a GPT disk on
\* which a read failed may be wrong.
THEOREM MediaEntriesAreReal ==
    ASSUME WellFormedMachines
    PROVE  Spec => []EntriesAreReal
<1>1. Init => RealInv
  <2> SUFFICES ASSUME Init PROVE RealInv
    OBVIOUS
  <2>1. PointerInv
    BY PointerInitInv
  <2>2. Range(entry_buf.slots) = {}
    BY DEF Init, Range
  <2> QED BY <2>1, <2>2 DEF Init, RealInv, WalkInv, GptSane, FramesSane, EntriesAreReal
<1>2. RealInv /\ [Next]_vars => RealInv'
  <2> SUFFICES ASSUME RealInv, [Next]_vars PROVE RealInv'
    OBVIOUS
  <2>1. /\ PointerInv' /\ MediaTypeOK /\ BufferType(entry_buf) /\ EntriesAreReal
        /\ WalkInv /\ faults \in Nat
    BY PointerNextInv DEF RealInv, PointerInv, MediaTypeOK
  <2>2. CASE DiskStep
    <3>1. WalkInv' /\ machine' = machine
      BY <2>1, <2>2, WalkStep, DiskStepTypes
    <3> QED BY <2>1, <2>2, <3>1, NewEntryIsReal, EntriesStayReal DEF RealInv
  <2>3. CASE DetectPxe
    <3>1. pc' = "resolve" /\ machine' = machine
      BY <2>3 DEF DetectPxe
    <3>2. PICK e : e = [NoEntry EXCEPT !.entry_type = "PXE"]
      BY Zenon
    <3>3. \/ 0 \in DOMAIN machine.pxe /\ Fails(0) /\ Added(e)
          \/ (Fails(0) \/ Fails(1)) /\ UNCHANGED entry_buf
      BY <2>3, <3>2, DetectPxeTypes DEF RealInv
    <3>4. lost \subseteq lost'
      BY <2>1, <3>3, FailsEffect
    <3>5. UNCHANGED entry_buf \/ (Added(e) /\ Real(e))
      BY <3>2, <3>3, PxeEntry
    <3>6. EntriesAreReal'
      BY <2>1, <3>1, <3>4, <3>5, EntriesStayReal
    <3> QED BY <2>1, <3>1, <3>6 DEF RealInv, WalkInv, GptSane, FramesSane
  <2>4. CASE SearchStep
    <3>1. UNCHANGED mediaVars /\ pc' \notin Detecting /\ lost \subseteq lost'
      BY <2>4, SearchStepTypes DEF RealInv
    <3>2. EntriesAreReal'
      BY <2>1, <3>1, EntriesStayReal DEF mediaVars
    <3> QED BY <2>1, <3>1, <3>2 DEF RealInv, WalkInv, GptSane, FramesSane, Detecting, OnDisk
  <2>5. CASE UNCHANGED vars
    <3>1. EntriesAreReal'
      BY <2>1, <2>5, EntriesStayReal DEF vars
    <3>2. Disk(disk_index)' = Disk(disk_index)
      BY <2>5 DEF vars, Disk
    <3> QED BY <2>1, <2>5, <3>1, <3>2 DEF vars, RealInv, WalkInv, GptSane, FramesSane
  <2> QED BY <2>2, <2>3, <2>4, <2>5, NextSplit
<1>3. RealInv => EntriesAreReal
  BY DEF RealInv
<1> QED BY <1>1, <1>2, <1>3, PTL DEF Spec
=============================================================================

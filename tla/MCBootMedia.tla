---------------------------- MODULE MCBootMedia ----------------------------
(***************************************************************************)
(* Machines for BootMedia: up to two disks of every layout, with           *)
(* configurations in different places, booted in every way.                *)
(***************************************************************************)
EXTENDS BootMedia, TLC

Empty == [type |-> "empty", first |-> 0]
Data(first) == [type |-> "data", first |-> first]
Ebr(first) == [type |-> "ebr", first |-> first]
Part(start, guid) == [used |-> TRUE, start |-> start, guid |-> guid]
Unused == [used |-> FALSE, start |-> 0, guid |-> NoGuid]
NoFs == [x \in {} |-> {}]
NoTables == [x \in {} |-> <<>>]

Blank == [kind |-> "HD", guid |-> NoGuid, gpt |-> <<>>, mbr |-> NoTables,
          fat |-> NoFs, iso |-> NoFs]

\* A GPT disk: its protective MBR, two file systems, an unused entry between
\* them and a partition with an unknown file system.
GptDisk(g, configs) ==
    [Blank EXCEPT !.guid = g,
                  !.mbr = 0 :> <<Data(1), Empty, Empty, Empty>>,
                  !.gpt = <<Part(10, g + 1), Unused, Part(20, g + 2), Part(30, g + 3)>>,
                  !.fat = 10 :> configs[1] @@ 20 :> configs[2]]

\* An MBR disk with a file system in a primary and in two logical partitions.
\* The first extended boot record is at 40, the second at 50.
MbrDisk(configs) ==
    [Blank EXCEPT !.mbr = 0 :> <<Empty, Data(10), Ebr(40), Empty>>
                          @@ 40 :> <<Data(2), Ebr(10), Empty, Empty>>
                          @@ 50 :> <<Data(2), Empty, Empty, Empty>>,
                  !.fat = 10 :> configs[1] @@ 42 :> configs[2] @@ 52 :> {}]

\* The same with three logical partitions: the third extended boot record is at
\* 60, which is 20 blocks into the extended partition.
ThreeLogicals ==
    [Blank EXCEPT !.mbr = 0 :> <<Empty, Data(10), Ebr(40), Empty>>
                          @@ 40 :> <<Data(2), Ebr(10), Empty, Empty>>
                          @@ 50 :> <<Data(2), Ebr(20), Empty, Empty>>
                          @@ 60 :> <<Data(2), Empty, Empty, Empty>>,
                  !.fat = 10 :> {} @@ 42 :> {} @@ 52 :> {} @@ 62 :> {1}]

\* Boot records that the loader refuses: a chain in the first entry, a
\* partition in the second.
OddMbr ==
    [Blank EXCEPT !.mbr = 0 :> <<Ebr(40), Data(10), Empty, Empty>>
                          @@ 40 :> <<Ebr(10), Data(2), Empty, Empty>>,
                  !.fat = 10 :> {2}]
OddEbr ==
    [Blank EXCEPT !.mbr = 0 :> <<Ebr(40), Empty, Empty, Empty>>
                          @@ 40 :> <<Data(2), Data(4), Empty, Empty>>,
                  !.fat = 42 :> {2}]

\* An unpartitioned disk, whose boot sector has the signature of an MBR, and a
\* disc that is also bootable as a disk.
RawDisk(configs) == [Blank EXCEPT !.mbr = 0 :> <<Empty, Empty, Empty, Empty>>,
                                  !.fat = 0 :> configs[1]]
Disc(configs) == [Blank EXCEPT !.kind = "CD", !.iso = 0 :> configs[1],
                               !.mbr = 0 :> <<Empty, Data(8), Empty, Empty>>,
                               !.fat = 8 :> configs[2]]

\* Where the configurations are: nowhere, or on one or both file systems.
Nowhere == <<{}, {}>>
Second == <<{}, {1, 3}>>
Both == <<{2, 3}, {1}>>

FirstDisks == {GptDisk(100, Nowhere), GptDisk(100, Second), MbrDisk(Both), RawDisk(Nowhere),
               Disc(Both), OddMbr, OddEbr}
SecondDisks == {GptDisk(200, Both), MbrDisk(Second), RawDisk(Both), Disc(Second), Blank}

NoPartition == [type |-> "none", disk |-> 2, partition_id |-> "none", partition |-> 0]
Boots ==
    {NoPartition, [NoPartition EXCEPT !.type = "PXE"], [NoPartition EXCEPT !.type = "disk"]}
    \cup {[type |-> "disk", disk |-> d, partition_id |-> "index", partition |-> m] :
            d \in 1..2, m \in {0, 4}}
    \cup {[type |-> "disk", disk |-> 2, partition_id |-> "lba", partition |-> 20]}

Networks == {NoFs, 0 :> {1}}

SmallMachines ==
    {[disks |-> <<d1, d2>>, pxe |-> x, boot |-> b] :
       d1 \in FirstDisks, d2 \in SecondDisks, x \in Networks, b \in Boots}

\* The tables of all of these are read as they are meant.
ASSUME SmallMachinesAssumption ==
    \A m \in SmallMachines : \A i \in DOMAIN m.disks : WellFormed(m.disks[i])

LogicalMachines ==
    {[disks |-> <<ThreeLogicals>>, pxe |-> NoFs,
      boot |-> NoPartition]}

Prefix(d, n, p, m) == [disk |-> d, n |-> n, part |-> p, m |-> m]
SmallSelectors ==
    {Prefix("", 0, "", 0), Prefix("PXE", 0, "", 0), Prefix("PXE", 0, "PART", 0),
     Prefix("", 0, "PART", 0), Prefix("", 0, "PARTUUID", 202), Prefix("DISKUUID", 100, "", 0),
     Prefix("DISKUUID", 100, "PART", 2), Prefix("DISKUUID", 200, "PARTUUID", 201)}
    \cup {Prefix(k, n, "", 0) : k \in {"HD", "CD"}, n \in 0..1}
    \cup {Prefix(k, n, "PART", m) : k \in {"HD", "CD"}, n \in 0..1, m \in {0, 4}}
=============================================================================

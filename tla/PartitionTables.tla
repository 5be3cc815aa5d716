--------------------------- MODULE PartitionTables ---------------------------
(***************************************************************************)
(* Partition tables: what the sectors of a disk may say, the activations   *)
(* of mbr_do_initialize that walk a chain of them, and the partitions a    *)
(* disk has by the rules of the formats.                                   *)
(***************************************************************************)
EXTENDS Integers, Sequences, FiniteSets, FiniteSetsExt

NoGuid == 0

Last(s) == s[Len(s)]
Front(s) == SubSeq(s, 1, Len(s) - 1)

\* What the sectors of a disk may say.
DiskType(d) ==
    /\ d.kind \in {"HD", "CD"} /\ d.guid \in Nat
    /\ d.gpt \in Seq([used : BOOLEAN, start : Nat, guid : Nat])
    /\ DOMAIN d.mbr \subseteq Nat /\ IsFiniteSet(DOMAIN d.mbr)
    /\ \A s \in DOMAIN d.mbr :
         d.mbr[s] \in [1..4 -> [type : {"empty", "data", "ebr"}, first : Nat]]

-----------------------------------------------------------------------------
(* mbr_do_initialize                                                       *)

\* A call of mbr_do_initialize whose read of the table succeeds.
Frame(base_index, sector) == [base |-> base_index, sector |-> sector, i |-> 0]

is_ebr(f) == f.base # 0
max_partitions(f) == IF is_ebr(f) THEN 2 ELSE 4

\* MUTANT: an entry of the first table is passed over without advancing.
Advanced_NotInMbr(f) == IF is_ebr(f) THEN [f EXCEPT !.i = @ + 1] ELSE f

\* The caller's loop goes on with the next entry.
Advanced(f) == [f EXCEPT !.i = @ + 1]

\* MUTANT: the logical partitions are numbered in steps of four.
NestedBase_ByFour(f) == f.base + 4

\* The index of the first partition of a nested table.
NestedBase(f) == f.base + (IF is_ebr(f) THEN 1 ELSE 4)

-----------------------------------------------------------------------------
(* The formats                                                             *)

\* The chains of extended boot records of a disk, as sequences of sectors: the
\* first record is an extended partition of the first table, and every next one
\* is given by the second entry of the one before, relative to that partition.
ExtendedBootRecords(d) ==
    {c \in UNION {[1..n -> DOMAIN d.mbr] : n \in 1..Cardinality(DOMAIN d.mbr)} :
       /\ \E k \in 1..4 : d.mbr[0][k] = [type |-> "ebr", first |-> c[1]]
       /\ \A k \in 1..Len(c)-1 : /\ d.mbr[c[k]][2].type = "ebr"
                                 /\ c[k + 1] = c[1] + d.mbr[c[k]][2].first}

\* The partitions of a disk: an index, a first block and a GUID.
Partitions(d) ==
    IF d.gpt # <<>>
    THEN {[entry_type |-> "GPT", index |-> k - 1, lba |-> d.gpt[k].start,
           guid |-> d.gpt[k].guid] : k \in {k \in DOMAIN d.gpt : d.gpt[k].used}}
    ELSE IF 0 \notin DOMAIN d.mbr THEN {}
    ELSE LET Mbr(i, l) == [entry_type |-> "MBR", index |-> i, lba |-> l, guid |-> NoGuid]
         IN {Mbr(k - 1, d.mbr[0][k].first) : k \in {k \in 1..4 : d.mbr[0][k].type = "data"}}
            \cup {Mbr(3 + Len(c), Last(c) + d.mbr[Last(c)][1].first) :
                    c \in {c \in ExtendedBootRecords(d) : d.mbr[Last(c)][1].type = "data"}}

\* The disks whose tables the loader and the formats read alike: the MBR of a GPT
\* disk only protects it, and a chain of extended boot records is at most two
\* long and goes on from no record that says so twice.
WellFormed(d) ==
    0 \in DOMAIN d.mbr =>
      /\ d.gpt # <<>> =>
           \A k \in 1..4 : /\ d.mbr[0][k].type # "ebr"
                           /\ d.mbr[0][k].type = "data" => d.mbr[0][k].first \notin DOMAIN d.fat
      /\ d.gpt = <<>> =>
           /\ \A k, l \in 1..4 : d.mbr[0][k].type = "ebr" /\ d.mbr[0][l].type = "ebr" => k = l
           /\ \A k \in 1..4 : d.mbr[0][k].type = "ebr" =>
                LET first == d.mbr[0][k].first
                    second == first + d.mbr[first][2].first
                IN /\ first \in DOMAIN d.mbr
                   /\ d.mbr[first][2].type = "ebr" =>
                        /\ d.mbr[first][1].type # "ebr"
                        /\ second \in DOMAIN d.mbr /\ d.mbr[second][2].type # "ebr"
=============================================================================

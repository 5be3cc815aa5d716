------------------------- MODULE PartitionTableProofs -------------------------
(***************************************************************************)
(* Lemmas about partition tables: which partitions the formats give a disk *)
(* with an MBR, where the activations of mbr_do_initialize can be, and     *)
(* that every step of the walk passes the partition it is at and no other. *)
(***************************************************************************)
EXTENDS PartitionTables, FiniteSetTheorems, SequenceTheorems, TLAPS

FrameType == [base : Nat, sector : Nat, i : 0..4]

\* The activations s of mbr_do_initialize are at the sectors of the first table, of
\* the extended partition and of the second extended boot record.
SaneWalk(d, s) ==
    /\ 0 \in DOMAIN d.mbr /\ Len(s) <= 3
    /\ \A k \in 1..Len(s) : s[k].i <= (IF k = 1 THEN 4 ELSE 2)
    /\ Len(s) >= 1 => s[1].base = 0 /\ s[1].sector = 0
    /\ Len(s) >= 2 => /\ d.gpt = <<>> /\ s[2].base = 4 /\ s[1].i >= 1
                      /\ d.mbr[0][s[1].i] = [type |-> "ebr", first |-> s[2].sector]
    /\ Len(s) >= 3 => /\ s[3].base = 5 /\ s[2].i = 2
                      /\ d.mbr[s[2].sector][2].type = "ebr"
                      /\ s[3].sector = s[2].sector + d.mbr[s[2].sector][2].first

\* Which of the partitions of an MBR disk the walk has passed.
MbrSeen(d, s, index) ==
    \/ Len(s) = 0
    \/ index <= 3 /\ Len(s) # 0 /\ index < s[1].i
    \/ index > 3 /\ Len(s) = 1 /\ \E k \in 1..s[1].i : d.mbr[0][k].type = "ebr"
    \/ index = 4 /\ Len(s) = 2 /\ s[2].i >= 1
    \/ index = 5 /\ Len(s) = 2 /\ s[2].i = 2
    \/ index = 4 /\ Len(s) = 3
    \/ index = 5 /\ Len(s) = 3 /\ s[3].i >= 1

MbrAt(i, l) == [entry_type |-> "MBR", index |-> i, lba |-> l, guid |-> NoGuid]
GptAt(d, k) == [entry_type |-> "GPT", index |-> k - 1, lba |-> d.gpt[k].start,
                guid |-> d.gpt[k].guid]

\* The sectors of the first and the second extended boot record.
FirstRecord(d, s) == \E k \in 1..4 : d.mbr[0][k] = [type |-> "ebr", first |-> s]
SecondRecord(d, t) ==
    \E s \in DOMAIN d.mbr : /\ FirstRecord(d, s) /\ d.mbr[s][2].type = "ebr"
                            /\ t = s + d.mbr[s][2].first

\* A disk that is partitioned with an MBR.
MbrOnly(d) == DiskType(d) /\ WellFormed(d) /\ d.gpt = <<>> /\ 0 \in DOMAIN d.mbr

\* What its well-formedness says of the extended boot records.
LEMMA RecordFacts ==
    ASSUME NEW d, MbrOnly(d)
    PROVE  /\ \A s : FirstRecord(d, s) =>
                /\ s \in DOMAIN d.mbr /\ s \in Nat
                /\ d.mbr[s] \in [1..4 -> [type : {"empty", "data", "ebr"}, first : Nat]]
                /\ d.mbr[s][2].type = "ebr" =>
                     /\ d.mbr[s][1].type # "ebr"
                     /\ SecondRecord(d, s + d.mbr[s][2].first)
           /\ \A t : SecondRecord(d, t) =>
                /\ t \in DOMAIN d.mbr /\ t \in Nat
                /\ d.mbr[t] \in [1..4 -> [type : {"empty", "data", "ebr"}, first : Nat]]
                /\ d.mbr[t][2].type # "ebr"
           /\ \A s, t : FirstRecord(d, s) /\ FirstRecord(d, t) => s = t
           /\ \A s, t : SecondRecord(d, s) /\ SecondRecord(d, t) => s = t
<1> DEFINE E == [type : {"empty", "data", "ebr"}, first : Nat]
<1>1. /\ DOMAIN d.mbr \subseteq Nat
      /\ \A s \in DOMAIN d.mbr : d.mbr[s] \in [1..4 -> E]
  BY DEF MbrOnly, DiskType
<1>2. /\ \A k, l \in 1..4 : d.mbr[0][k].type = "ebr" /\ d.mbr[0][l].type = "ebr" => k = l
      /\ \A k \in 1..4 : d.mbr[0][k].type = "ebr" =>
           /\ d.mbr[0][k].first \in DOMAIN d.mbr
           /\ d.mbr[d.mbr[0][k].first][2].type = "ebr" =>
                /\ d.mbr[d.mbr[0][k].first][1].type # "ebr"
                /\ d.mbr[0][k].first + d.mbr[d.mbr[0][k].first][2].first \in DOMAIN d.mbr
                /\ d.mbr[d.mbr[0][k].first + d.mbr[d.mbr[0][k].first][2].first][2].type # "ebr"
  BY Zenon DEF MbrOnly, WellFormed
<1> HIDE DEF E
<1>3. ASSUME NEW s, FirstRecord(d, s)
      PROVE  \E k \in 1..4 : d.mbr[0][k].type = "ebr" /\ d.mbr[0][k].first = s
  BY <1>3 DEF FirstRecord
<1>4. ASSUME NEW s, FirstRecord(d, s)
      PROVE  /\ s \in DOMAIN d.mbr /\ s \in Nat /\ d.mbr[s] \in [1..4 -> E]
             /\ d.mbr[s][2].type = "ebr" =>
                  /\ d.mbr[s][1].type # "ebr"
                  /\ SecondRecord(d, s + d.mbr[s][2].first)
                  /\ s + d.mbr[s][2].first \in DOMAIN d.mbr
                  /\ d.mbr[s + d.mbr[s][2].first][2].type # "ebr"
  <2>1. PICK k \in 1..4 : d.mbr[0][k].type = "ebr" /\ d.mbr[0][k].first = s
    BY <1>3, <1>4
  <2>2. s \in DOMAIN d.mbr
    BY <1>2, <2>1, Zenon
  <2> QED BY <1>1, <1>2, <1>4, <2>1, <2>2, Zenon DEF SecondRecord
<1>5. ASSUME NEW t, SecondRecord(d, t)
      PROVE  /\ t \in DOMAIN d.mbr /\ t \in Nat /\ d.mbr[t] \in [1..4 -> E]
             /\ d.mbr[t][2].type # "ebr"
  <2>1. PICK s \in DOMAIN d.mbr : /\ FirstRecord(d, s) /\ d.mbr[s][2].type = "ebr"
                                 /\ t = s + d.mbr[s][2].first
    BY <1>5 DEF SecondRecord
  <2> QED BY <1>1, <1>4, <2>1
<1>6. ASSUME NEW s, NEW t, FirstRecord(d, s), FirstRecord(d, t)
      PROVE  s = t
  <2>1. PICK k \in 1..4 : d.mbr[0][k].type = "ebr" /\ d.mbr[0][k].first = s
    BY <1>3, <1>6
  <2>2. PICK l \in 1..4 : d.mbr[0][l].type = "ebr" /\ d.mbr[0][l].first = t
    BY <1>3, <1>6
  <2>3. k = l
    BY <1>2, <2>1, <2>2, Zenon
  <2> QED BY <2>1, <2>2, <2>3
<1>7. ASSUME NEW s, NEW t, SecondRecord(d, s), SecondRecord(d, t)
      PROVE  s = t
  <2>1. PICK x \in DOMAIN d.mbr : FirstRecord(d, x) /\ s = x + d.mbr[x][2].first
    BY <1>7 DEF SecondRecord
  <2>2. PICK y \in DOMAIN d.mbr : FirstRecord(d, y) /\ t = y + d.mbr[y][2].first
    BY <1>7 DEF SecondRecord
  <2>3. x = y
    BY <1>6, <2>1, <2>2
  <2> QED BY <2>1, <2>2, <2>3
<1> QED BY <1>4, <1>5, <1>6, <1>7 DEF E

\* The partitions the format gives a disk with such an MBR: those of the first
\* table, and the first entries of the two extended boot records.
LEMMA MbrPartitions ==
    ASSUME NEW d, MbrOnly(d), NEW q
    PROVE  q \in Partitions(d) <=>
             \/ \E k \in 1..4 : d.mbr[0][k].type = "data" /\ q = MbrAt(k - 1, d.mbr[0][k].first)
             \/ \E s \in DOMAIN d.mbr : /\ FirstRecord(d, s) /\ d.mbr[s][1].type = "data"
                                        /\ q = MbrAt(4, s + d.mbr[s][1].first)
             \/ \E s \in DOMAIN d.mbr : /\ SecondRecord(d, s) /\ d.mbr[s][1].type = "data"
                                        /\ q = MbrAt(5, s + d.mbr[s][1].first)
<1> DEFINE M == DOMAIN d.mbr
           C == ExtendedBootRecords(d)
           N == Cardinality(M)
           Chain(c) == /\ FirstRecord(d, c[1])
                       /\ \A k \in 1..Len(c)-1 : /\ d.mbr[c[k]][2].type = "ebr"
                                                 /\ c[k + 1] = c[1] + d.mbr[c[k]][2].first
<1>1. /\ d.gpt = <<>> /\ 0 \in M /\ M \subseteq Nat /\ IsFiniteSet(M)
  BY DEF MbrOnly, DiskType
<1>2. N \in Nat
  BY <1>1, FS_CardinalityType
<1>3. q \in Partitions(d) <=>
        \/ \E k \in 1..4 : d.mbr[0][k].type = "data" /\ q = MbrAt(k - 1, d.mbr[0][k].first)
        \/ \E c \in C : /\ d.mbr[Last(c)][1].type = "data"
                       /\ q = MbrAt(3 + Len(c), Last(c) + d.mbr[Last(c)][1].first)
  BY <1>1 DEF Partitions, MbrAt
<1>4. C = {c \in UNION {[1..n -> M] : n \in 1..N} : Chain(c)}
  BY DEF ExtendedBootRecords, FirstRecord
<1> HIDE DEF C, N
<1>5. ASSUME NEW n \in 1..N, NEW c \in [1..n -> M]
      PROVE  Len(c) = n /\ Last(c) = c[n] /\ c[n] \in M /\ c[1] \in M
  <2>1. n \in Nat /\ n \in 1..n /\ 1 \in 1..n
    BY <1>2
  <2>2. c \in Seq(M) /\ Len(c) = n
    BY <2>1
  <2> QED BY <2>1, <2>2 DEF Last
<1>6. ASSUME NEW c \in C
      PROVE  \/ Len(c) = 1 /\ FirstRecord(d, Last(c)) /\ Last(c) \in M
             \/ Len(c) = 2 /\ SecondRecord(d, Last(c)) /\ Last(c) \in M
  <2>1. PICK n \in 1..N : c \in [1..n -> M]
    BY <1>4, Zenon
  <2>2. Len(c) = n /\ Last(c) = c[n] /\ c[n] \in M /\ c[1] \in M
    BY <1>5, <2>1
  <2>3. Chain(c)
    BY <1>4
  <2>4. CASE n = 1
    BY <2>2, <2>3, <2>4
  <2>5. CASE n # 1
    <3>1. 1 \in 1..Len(c)-1
      BY <1>2, <2>2, <2>5
    <3>2. /\ FirstRecord(d, c[1]) /\ d.mbr[c[1]][2].type = "ebr"
          /\ c[2] = c[1] + d.mbr[c[1]][2].first
      BY <2>3, <3>1
    <3>3. SecondRecord(d, c[2])
      BY <2>2, <3>2 DEF SecondRecord
    <3>4. n = 2
      <4>1. SUFFICES ASSUME n # 2 PROVE FALSE
        OBVIOUS
      <4>2. 2 \in 1..Len(c)-1
        BY <1>2, <2>2, <2>5, <4>1
      <4>3. d.mbr[c[2]][2].type = "ebr"
        BY <2>3, <4>2
      <4> QED BY <3>3, <4>3, RecordFacts
    <3> QED BY <2>2, <3>3, <3>4
  <2> QED BY <2>4, <2>5
<1>7. ASSUME NEW s \in M, FirstRecord(d, s)
      PROVE  \E c \in C : Len(c) = 1 /\ Last(c) = s
  <2> DEFINE c == [k \in 1..1 |-> s]
  <2>1. 1 \in 1..N
    <3>1. M # {} BY <1>1
    <3>2. N # 0
      BY <1>1, <3>1, FS_EmptySet DEF N
    <3> QED BY <1>2, <3>2
  <2>2. c \in [1..1 -> M] /\ c[1] = s
    OBVIOUS
  <2> HIDE DEF c
  <2>3. Len(c) = 1 /\ Last(c) = s
    BY <1>5, <2>1, <2>2, Zenon
  <2>4. 1..Len(c)-1 = {}
    BY <2>3
  <2>5. Chain(c)
    BY <1>7, <2>2, <2>4, Zenon
  <2>6. c \in C
    BY <1>4, <2>1, <2>2, <2>5
  <2> QED BY <2>3, <2>6
<1>8. ASSUME NEW t \in M, SecondRecord(d, t)
      PROVE  \E c \in C : Len(c) = 2 /\ Last(c) = t
  <2>1. PICK s \in M : /\ FirstRecord(d, s) /\ d.mbr[s][2].type = "ebr"
                       /\ t = s + d.mbr[s][2].first
    BY <1>8 DEF SecondRecord
  <2>2. s # t
    BY <1>8, <2>1, RecordFacts
  <2>3. 2 \in 1..N
    <3>1. IsFiniteSet({s}) /\ Cardinality({s}) = 1
      BY FS_Singleton, Zenon
    <3>2. Cardinality({s} \cup {t}) = 2
      <4> DEFINE S == {s}
      <4>1. IsFiniteSet(S) /\ Cardinality(S) = 1 /\ t \notin S
        BY <2>2, <3>1
      <4> HIDE DEF S
      <4>2. Cardinality(S \cup {t}) = 1 + 1
        BY <4>1, FS_AddElement
      <4> QED BY <4>2 DEF S
    <3> DEFINE S2 == {s} \cup {t}
    <3>3. S2 \in SUBSET M
      OBVIOUS
    <3> HIDE DEF S2
    <3>4. Cardinality(S2) <= Cardinality(M)
      BY <1>1, <3>3, FS_Subset
    <3>5. 2 <= N
      BY <3>2, <3>4 DEF S2, N
    <3> QED BY <1>2, <3>5
  <2> DEFINE c == [k \in 1..2 |-> IF k = 1 THEN s ELSE t]
  <2>4. c \in [1..2 -> M] /\ c[1] = s /\ c[2] = t
    OBVIOUS
  <2> HIDE DEF c
  <2>5. Len(c) = 2 /\ Last(c) = t
    BY <1>5, <2>3, <2>4, Zenon
  <2>6. Chain(c)
    <3>1. ASSUME NEW k \in 1..Len(c)-1
          PROVE  d.mbr[c[k]][2].type = "ebr" /\ c[k + 1] = c[1] + d.mbr[c[k]][2].first
      <4>1. k = 1 /\ k + 1 = 2
        BY <2>5
      <4> QED BY <2>1, <2>4, <4>1
    <3> QED BY <2>1, <2>4, <3>1
  <2>7. c \in C
    BY <1>4, <2>3, <2>4, <2>6
  <2> QED BY <2>5, <2>7
<1> DEFINE Logical(n, s) == d.mbr[s][1].type = "data" /\ q = MbrAt(3 + n, s + d.mbr[s][1].first)
<1>9. (\E c \in C : Logical(Len(c), Last(c))) <=>
        \/ \E s \in M : FirstRecord(d, s) /\ Logical(1, s)
        \/ \E s \in M : SecondRecord(d, s) /\ Logical(2, s)
  <2> HIDE DEF Logical, M
  <2>1. ASSUME NEW c \in C, Logical(Len(c), Last(c))
        PROVE  \/ \E s \in M : FirstRecord(d, s) /\ Logical(1, s)
               \/ \E s \in M : SecondRecord(d, s) /\ Logical(2, s)
    <3>1. CASE Len(c) = 1 /\ FirstRecord(d, Last(c)) /\ Last(c) \in M
      BY <2>1, <3>1
    <3>2. CASE Len(c) = 2 /\ SecondRecord(d, Last(c)) /\ Last(c) \in M
      BY <2>1, <3>2
    <3> QED BY <1>6, <3>1, <3>2
  <2>2. ASSUME NEW s \in M, FirstRecord(d, s), Logical(1, s)
        PROVE  \E c \in C : Logical(Len(c), Last(c))
    <3>1. PICK c \in C : Len(c) = 1 /\ Last(c) = s
      BY <1>7, <2>2
    <3> QED BY <2>2, <3>1, Zenon
  <2>3. ASSUME NEW s \in M, SecondRecord(d, s), Logical(2, s)
        PROVE  \E c \in C : Logical(Len(c), Last(c))
    <3>1. PICK c \in C : Len(c) = 2 /\ Last(c) = s
      BY <1>8, <2>3
    <3> QED BY <2>3, <3>1, Zenon
  <2> QED BY <2>1, <2>2, <2>3
<1>10. 3 + 1 = 4 /\ 3 + 2 = 5
  OBVIOUS
<1> QED BY <1>3, <1>9, <1>10

\* The partitions of a GPT disk.
LEMMA GptPartitions ==
    ASSUME NEW d, d.gpt # <<>>, NEW q
    PROVE  q \in Partitions(d) <=>
             \E k \in DOMAIN d.gpt : d.gpt[k].used /\ q = GptAt(d, k)
BY DEF Partitions, GptAt

\* What the walk of a partition table is at, by the number of activations.
LEMMA WalkAt ==
    ASSUME NEW d, DiskType(d), WellFormed(d),
           NEW s \in Seq(FrameType), s # <<>>, SaneWalk(d, s)
    PROVE  /\ Len(s) \in {1, 2, 3} /\ \A k \in 1..Len(s) : s[k] \in FrameType
           /\ Last(s) = s[Len(s)]
           /\ s[Len(s)].sector \in DOMAIN d.mbr
           /\ is_ebr(s[Len(s)]) <=> Len(s) # 1
           /\ Len(s) = 1 => s[1].base = 0 /\ s[1].sector = 0
           /\ Len(s) # 1 => MbrOnly(d) /\ FirstRecord(d, s[2].sector)
           /\ Len(s) = 2 => s[2].base = 4
           /\ Len(s) = 3 => s[3].base = 5 /\ SecondRecord(d, s[3].sector)
<1> DEFINE n == Len(s)
<1>1. n \in Nat \ {0} /\ \A k \in 1..n : s[k] \in FrameType
  BY EmptySeq, ElementOfSeq
<1>2. Last(s) = s[n]
  BY DEF Last
<1>3. n \in {1, 2, 3}
  <2>1. n <= 3
    BY DEF SaneWalk
  <2> HIDE DEF n
  <2> QED BY <1>1, <2>1
<1>4. CASE n = 1
  BY <1>1, <1>2, <1>4 DEF SaneWalk, is_ebr
<1>5. ASSUME n >= 2
      PROVE  MbrOnly(d) /\ FirstRecord(d, s[2].sector) /\ s[2].sector \in DOMAIN d.mbr
  <2>1. MbrOnly(d)
    BY <1>5 DEF SaneWalk, MbrOnly
  <2>2. s[1].i \in 1..4
    BY <1>1, <1>5 DEF FrameType, SaneWalk
  <2>3. FirstRecord(d, s[2].sector)
    BY <1>5, <2>2 DEF FirstRecord, SaneWalk
  <2> QED BY <2>1, <2>3, RecordFacts
<1>6. CASE n = 2
  BY <1>1, <1>2, <1>5, <1>6 DEF SaneWalk, is_ebr
<1>7. CASE n = 3
  <2>1. SecondRecord(d, s[3].sector)
    BY <1>5, <1>7 DEF SecondRecord, SaneWalk
  <2>2. s[3].sector \in DOMAIN d.mbr
    BY <1>5, <1>7, <2>1, RecordFacts
  <2> QED BY <1>1, <1>2, <1>5, <1>7, <2>1, <2>2 DEF SaneWalk, is_ebr
<1> QED BY <1>3, <1>4, <1>6, <1>7

\* Returning from an activation.
LEMMA WalkBack ==
    ASSUME NEW d, NEW s, NEW t, NEW n \in {1, 2, 3}, SaneWalk(d, s), Len(s) = n,
           Len(t) = n - 1, \A k \in 1..n-1 : t[k] = s[k]
    PROVE  SaneWalk(d, t)
<1>1. CASE n = 1
  BY <1>1 DEF SaneWalk
<1>2. CASE n = 2
  BY <1>2 DEF SaneWalk
<1>3. CASE n = 3
  BY <1>3 DEF SaneWalk
<1> QED BY <1>1, <1>2, <1>3

\* Going on with the next entry.
LEMMA WalkOn ==
    ASSUME NEW d, NEW s, NEW t, NEW n \in {1, 2, 3}, SaneWalk(d, s), Len(s) = n,
           NEW i \in Nat, i < (IF n = 1 THEN 4 ELSE 2),
           Len(t) = n, \A k \in 1..n-1 : t[k] = s[k],
           t[n].base = s[n].base, t[n].sector = s[n].sector, t[n].i = i + 1
    PROVE  SaneWalk(d, t)
<1>1. CASE n = 1
  BY <1>1 DEF SaneWalk
<1>2. CASE n = 2
  BY <1>2 DEF SaneWalk
<1>3. CASE n = 3
  BY <1>3 DEF SaneWalk
<1> QED BY <1>1, <1>2, <1>3

\* Calling mbr_do_initialize for an extended boot record: s is the stack before
\* the call, with n activations and f the innermost, and t the one after it.
Entered(d, s, n, f, t) ==
    /\ n = Len(s) /\ f = s[n]
    /\ f.i < (IF n = 1 THEN 4 ELSE 2) /\ (n = 1 \/ f.i # 0)
    /\ d.mbr[f.sector][f.i + 1].type = "ebr"
    /\ Len(t) = n + 1 /\ \A k \in 1..n-1 : t[k] = s[k]
    /\ t[n].base = f.base /\ t[n].sector = f.sector /\ t[n].i = f.i + 1
    /\ t[n + 1] = Frame(NestedBase(f), f.sector + d.mbr[f.sector][f.i + 1].first)

LEMMA WalkInto ==
    ASSUME NEW d, DiskType(d), WellFormed(d),
           NEW s \in Seq(FrameType), s # <<>>, SaneWalk(d, s),
           NEW n, NEW f, NEW t, Entered(d, s, n, f, t)
    PROVE  SaneWalk(d, t)
<1> USE DEF Entered
<1>1. /\ n \in {1, 2, 3} /\ f \in FrameType /\ f.i \in Nat
      /\ n = 1 => f.base = 0 /\ f.sector = 0
      /\ n = 2 => f.base = 4
      /\ n = 3 => MbrOnly(d) /\ SecondRecord(d, f.sector)
  <2>1. /\ Len(s) \in {1, 2, 3} /\ \A k \in 1..Len(s) : s[k] \in FrameType
        /\ Len(s) = 1 => s[1].base = 0 /\ s[1].sector = 0
        /\ Len(s) # 1 => MbrOnly(d)
        /\ Len(s) = 2 => s[2].base = 4
        /\ Len(s) = 3 => SecondRecord(d, s[3].sector)
    BY WalkAt
  <2>2. n \in {1, 2, 3} /\ n \in 1..Len(s)
    BY <2>1
  <2>3. f \in FrameType
    BY <2>1, <2>2
  <2>4. f.i \in Nat
    BY <2>3 DEF FrameType
  <2>5. /\ n = 1 => f.base = 0 /\ f.sector = 0
        /\ n = 2 => f.base = 4
        /\ n = 3 => MbrOnly(d) /\ SecondRecord(d, f.sector)
    BY <2>1
  <2> QED BY <2>2, <2>3, <2>4, <2>5
<1>2. /\ t[n + 1].base = NestedBase(f) /\ t[n + 1].i = 0
      /\ t[n + 1].sector = f.sector + d.mbr[f.sector][f.i + 1].first
  BY DEF Frame
<1>3. CASE n = 1
  <2>1. /\ f.i + 1 \in 1..4 /\ d.mbr[0][f.i + 1].type = "ebr" /\ 0 \in DOMAIN d.mbr
        /\ d.mbr[0][f.i + 1] \in [type : {"empty", "data", "ebr"}, first : Nat]
    <3>1. f.i + 1 \in 1..4 /\ d.mbr[0][f.i + 1].type = "ebr"
      BY <1>1, <1>3
    <3>2. 0 \in DOMAIN d.mbr
      BY DEF SaneWalk
    <3>3. d.mbr[0] \in [1..4 -> [type : {"empty", "data", "ebr"}, first : Nat]]
      BY <3>2 DEF DiskType
    <3> QED BY <3>1, <3>2, <3>3, SMTT(30)
  <2>2. d.gpt = <<>>
    BY <2>1, Zenon DEF WellFormed
  <2>3. t[2].base = 4 /\ t[2].sector = d.mbr[0][f.i + 1].first /\ t[2].i = 0
    <3>1. NestedBase(f) = 4
      BY <1>1, <1>3 DEF NestedBase, is_ebr
    <3>2. f.sector + d.mbr[f.sector][f.i + 1].first = d.mbr[0][f.i + 1].first
      BY <1>1, <1>3, <2>1
    <3>3. n + 1 = 2
      BY <1>3
    <3> QED BY <1>2, <3>1, <3>2, <3>3, Zenon
  <2>4. d.mbr[0][f.i + 1] = [type |-> "ebr", first |-> t[2].sector]
    BY <2>1, <2>3
  <2> QED BY <1>1, <1>3, <2>1, <2>2, <2>3, <2>4 DEF SaneWalk
<1>4. CASE n = 2
  <2>1. f.i = 1 /\ f.i + 1 = 2
    BY <1>1, <1>4, SMTT(30)
  <2>2. t[3].base = 5 /\ t[3].i = 0 /\ t[3].sector = f.sector + d.mbr[f.sector][2].first
    <3>1. NestedBase(f) = 5
      BY <1>1, <1>4 DEF NestedBase, is_ebr
    <3>2. n + 1 = 3
      BY <1>4
    <3> QED BY <1>2, <2>1, <3>1, <3>2
  <2>3. t[1] = s[1] /\ t[2].base = 4 /\ t[2].sector = f.sector /\ t[2].i = 2 /\ Len(t) = 3
    BY <1>1, <1>4, <2>1
  <2>4. d.mbr[f.sector][2].type = "ebr" /\ f = s[2] /\ Len(s) = 2
    BY <1>4, <2>1
  <2> QED BY <2>2, <2>3, <2>4 DEF SaneWalk
<1>5. CASE n = 3
  <2>1. f.i + 1 = 2
    BY <1>1, <1>5
  <2> QED BY <1>1, <1>5, <2>1, RecordFacts
<1> QED BY <1>1, <1>3, <1>4, <1>5

\* The index of a partition of an MBR disk says which entry it comes from.
LEMMA MbrIndex ==
    ASSUME NEW d, MbrOnly(d), NEW q \in Partitions(d)
    PROVE  /\ q.entry_type = "MBR" /\ q.index \in 0..5
           /\ q.index <= 3 => /\ d.mbr[0][q.index + 1].type = "data"
                              /\ q = MbrAt(q.index, d.mbr[0][q.index + 1].first)
           /\ q.index = 4 => \E s : /\ FirstRecord(d, s) /\ d.mbr[s][1].type = "data"
                                    /\ q = MbrAt(4, s + d.mbr[s][1].first)
           /\ q.index = 5 => \E s : /\ SecondRecord(d, s) /\ d.mbr[s][1].type = "data"
                                    /\ q = MbrAt(5, s + d.mbr[s][1].first)
           /\ q.index > 3 => \E k \in 1..4 : d.mbr[0][k].type = "ebr"
<1>0. ASSUME NEW s, FirstRecord(d, s) PROVE \E k \in 1..4 : d.mbr[0][k].type = "ebr"
  <2>1. PICK k \in 1..4 : d.mbr[0][k] = [type |-> "ebr", first |-> s]
    BY <1>0 DEF FirstRecord
  <2>2. d.mbr[0][k].type = "ebr"
    BY <2>1
  <2> QED BY <2>2
<1>1. CASE \E k \in 1..4 : d.mbr[0][k].type = "data" /\ q = MbrAt(k - 1, d.mbr[0][k].first)
  <2>1. PICK k \in 1..4 : d.mbr[0][k].type = "data" /\ q = MbrAt(k - 1, d.mbr[0][k].first)
    BY <1>1
  <2>2. q.entry_type = "MBR" /\ q.index = k - 1
    BY <2>1 DEF MbrAt
  <2>3. PICK i \in 0..3 : i = q.index /\ i + 1 = k /\ i = k - 1
    BY <2>2
  <2>4. d.mbr[0][i + 1].type = "data" /\ q = MbrAt(i, d.mbr[0][i + 1].first)
    BY <2>1, <2>3
  <2>5. i <= 3 /\ i # 4 /\ i # 5 /\ ~(i > 3) /\ i \in 0..5
    OBVIOUS
  <2>6. q.index = i /\ q.entry_type = "MBR"
    BY <2>2, <2>3
  <2> QED BY <2>4, <2>5, <2>6
<1>2. CASE \E s \in DOMAIN d.mbr : /\ FirstRecord(d, s) /\ d.mbr[s][1].type = "data"
                                   /\ q = MbrAt(4, s + d.mbr[s][1].first)
  <2>1. PICK s \in DOMAIN d.mbr : /\ FirstRecord(d, s) /\ d.mbr[s][1].type = "data"
                                  /\ q = MbrAt(4, s + d.mbr[s][1].first)
    BY <1>2
  <2>2. q.entry_type = "MBR" /\ q.index = 4
    BY <2>1 DEF MbrAt
  <2>3. \E k \in 1..4 : d.mbr[0][k].type = "ebr"
    BY <1>0, <2>1
  <2>4. \E r : /\ FirstRecord(d, r) /\ d.mbr[r][1].type = "data"
              /\ q = MbrAt(4, r + d.mbr[r][1].first)
    BY <2>1
  <2>5. q.index \in 0..5 /\ ~(q.index <= 3) /\ q.index # 5
    BY <2>2
  <2> QED BY <2>2, <2>3, <2>4, <2>5
<1>3. CASE \E s \in DOMAIN d.mbr : /\ SecondRecord(d, s) /\ d.mbr[s][1].type = "data"
                                   /\ q = MbrAt(5, s + d.mbr[s][1].first)
  <2>1. PICK s \in DOMAIN d.mbr : /\ SecondRecord(d, s) /\ d.mbr[s][1].type = "data"
                                  /\ q = MbrAt(5, s + d.mbr[s][1].first)
    BY <1>3
  <2>2. q.entry_type = "MBR" /\ q.index = 5
    BY <2>1 DEF MbrAt
  <2>3. \E k \in 1..4 : d.mbr[0][k].type = "ebr"
    BY <1>0, <2>1, Zenon DEF SecondRecord
  <2>4. \E r : /\ SecondRecord(d, r) /\ d.mbr[r][1].type = "data"
              /\ q = MbrAt(5, r + d.mbr[r][1].first)
    BY <2>1
  <2>5. q.index \in 0..5 /\ ~(q.index <= 3) /\ q.index # 4
    BY <2>2
  <2> QED BY <2>2, <2>3, <2>4, <2>5
<1> QED BY <1>1, <1>2, <1>3, MbrPartitions

\* A walk of n activations, f the innermost and p the entry it is at.
WalkOf(d, s, n, f, p) ==
    /\ MbrOnly(d) /\ s \in Seq(FrameType) /\ SaneWalk(d, s)
    /\ n = Len(s) /\ n # 0 /\ f = s[n] /\ p = d.mbr[f.sector][f.i + 1]

\* The same, with what is known of it, and without the sequence.
LEMMA WalkFacts ==
    ASSUME NEW d, NEW s, NEW n, NEW f, NEW p, WalkOf(d, s, n, f, p)
    PROVE  /\ n \in {1, 2, 3} /\ Len(s) = n /\ f = s[n]
           /\ f.i \in Nat /\ f.i <= (IF n = 1 THEN 4 ELSE 2)
           /\ p = d.mbr[f.sector][f.i + 1]
           /\ n = 1 => f.base = 0 /\ f.sector = 0
           /\ n = 2 => /\ f.base = 4 /\ FirstRecord(d, f.sector)
                       /\ s[1].i \in 1..4 /\ d.mbr[0][s[1].i].type = "ebr"
           /\ n = 3 => /\ f.base = 5 /\ SecondRecord(d, f.sector)
                       /\ s[1].i \in 1..4 /\ d.mbr[0][s[1].i].type = "ebr"
                       /\ s[2].i = 2
<1>1. /\ MbrOnly(d) /\ s \in Seq(FrameType) /\ SaneWalk(d, s) /\ s # <<>>
      /\ n = Len(s) /\ f = s[n] /\ p = d.mbr[f.sector][f.i + 1]
  BY DEF WalkOf
<1>2. DiskType(d) /\ WellFormed(d)
  BY <1>1 DEF MbrOnly
<1>3. /\ Len(s) \in {1, 2, 3} /\ \A k \in 1..Len(s) : s[k] \in FrameType
      /\ Len(s) = 1 => s[1].base = 0 /\ s[1].sector = 0
      /\ Len(s) # 1 => FirstRecord(d, s[2].sector)
      /\ Len(s) = 2 => s[2].base = 4
      /\ Len(s) = 3 => s[3].base = 5 /\ SecondRecord(d, s[3].sector)
  BY <1>1, <1>2, WalkAt
<1>4. /\ \A k \in 1..Len(s) : s[k].i <= (IF k = 1 THEN 4 ELSE 2)
      /\ Len(s) >= 2 => s[1].i >= 1 /\ d.mbr[0][s[1].i] = [type |-> "ebr", first |-> s[2].sector]
      /\ Len(s) >= 3 => s[2].i = 2
  BY <1>1 DEF SaneWalk
<1>5. f \in FrameType /\ f.i <= (IF n = 1 THEN 4 ELSE 2)
  <2>1. n \in 1..Len(s)
    BY <1>1, <1>3
  <2> QED BY <1>1, <1>3, <1>4, <2>1
<1>6. n >= 2 => s[1].i \in 1..4 /\ d.mbr[0][s[1].i].type = "ebr"
  <2> SUFFICES ASSUME n >= 2 PROVE s[1].i \in 1..4 /\ d.mbr[0][s[1].i].type = "ebr"
    OBVIOUS
  <2>1. s[1] \in FrameType /\ s[1].i <= 4 /\ s[1].i >= 1
    BY <1>1, <1>3, <1>4
  <2>2. d.mbr[0][s[1].i].type = "ebr"
    BY <1>1, <1>4
  <2> QED BY <2>1, <2>2 DEF FrameType
<1>7. f.i \in Nat
  BY <1>5 DEF FrameType
<1>8. CASE n = 1
  BY <1>1, <1>3, <1>5, <1>7, <1>8
<1>9. CASE n = 2
  BY <1>1, <1>3, <1>5, <1>6, <1>7, <1>9
<1>10. CASE n = 3
  BY <1>1, <1>3, <1>4, <1>5, <1>6, <1>7, <1>10
<1> QED BY <1>1, <1>3, <1>8, <1>9, <1>10, Zenon

\* The entry the walk is at is the one with the index it gives it.
LEMMA EntryAt ==
    ASSUME NEW d, NEW s, NEW n, NEW f, NEW p, WalkOf(d, s, n, f, p),
           f.i < (IF n = 1 THEN 4 ELSE 2), n = 1 \/ f.i = 0,
           NEW q \in Partitions(d), q.index = f.base + f.i
    PROVE  p.type = "data" /\ q = MbrAt(f.base + f.i, f.sector + p.first)
<1>1. MbrOnly(d)
  BY DEF WalkOf
<1>2. /\ n \in {1, 2, 3} /\ f.i \in Nat /\ p = d.mbr[f.sector][f.i + 1]
      /\ n = 1 => f.base = 0 /\ f.sector = 0
      /\ n = 2 => f.base = 4 /\ FirstRecord(d, f.sector)
      /\ n = 3 => f.base = 5 /\ SecondRecord(d, f.sector)
  BY WalkFacts
<1>3. CASE n = 1
  <2>1. f.base + f.i = f.i /\ f.i <= 3 /\ f.i + 1 \in 1..4 /\ q.index = f.i
    BY <1>2, <1>3
  <2>2. p = d.mbr[0][f.i + 1] /\ f.sector = 0
    BY <1>2, <1>3
  <2>3. p.type = "data" /\ q = MbrAt(f.i, p.first)
    BY <1>1, <2>1, <2>2, MbrIndex
  <2>4. p.first \in Nat
    BY <1>1, <2>1, <2>2 DEF MbrOnly, DiskType
  <2>5. f.sector + p.first = p.first
    BY <2>2, <2>4
  <2> QED BY <2>1, <2>3, <2>5
<1>4. CASE n = 2
  <2>1. f.i = 0 /\ f.base + f.i = 4 /\ p = d.mbr[f.sector][1] /\ FirstRecord(d, f.sector)
    BY <1>2, <1>4
  <2>2. PICK r : FirstRecord(d, r) /\ d.mbr[r][1].type = "data" /\ q = MbrAt(4, r + d.mbr[r][1].first)
    BY <1>1, <2>1, MbrIndex
  <2>3. r = f.sector
    BY <1>1, <2>1, <2>2, RecordFacts
  <2> QED BY <2>1, <2>2, <2>3
<1>5. CASE n = 3
  <2>1. f.i = 0 /\ f.base + f.i = 5 /\ p = d.mbr[f.sector][1] /\ SecondRecord(d, f.sector)
    BY <1>2, <1>5
  <2>2. PICK r : SecondRecord(d, r) /\ d.mbr[r][1].type = "data" /\ q = MbrAt(5, r + d.mbr[r][1].first)
    BY <1>1, <2>1, MbrIndex
  <2>3. r = f.sector
    BY <1>1, <2>1, <2>2, RecordFacts
  <2> QED BY <2>1, <2>2, <2>3
<1> QED BY <1>2, <1>3, <1>4, <1>5

\* There is no second extended boot record when the first one does not lead on.
LEMMA NoSecondRecord ==
    ASSUME NEW d, MbrOnly(d), NEW x, FirstRecord(d, x), d.mbr[x][2].type # "ebr",
           NEW q \in Partitions(d)
    PROVE  q.index # 5
<1> SUFFICES ASSUME q.index = 5 PROVE FALSE
  OBVIOUS
<1>1. PICK r : SecondRecord(d, r)
  BY MbrIndex
<1>2. PICK y : FirstRecord(d, y) /\ d.mbr[y][2].type = "ebr"
  BY <1>1 DEF SecondRecord
<1>3. x = y
  BY <1>2, RecordFacts
<1> QED BY <1>2, <1>3

\* Going on with the next entry passes the partition of the entry.
LEMMA SeenOn ==
    ASSUME NEW d, NEW s, NEW n, NEW f, NEW p, WalkOf(d, s, n, f, p),
           f.i < (IF n = 1 THEN 4 ELSE 2), p.type # "ebr",
           NEW t, Len(t) = n, \A k \in 1..n-1 : t[k] = s[k], t[n].i = f.i + 1,
           NEW q \in Partitions(d)
    PROVE  /\ MbrSeen(d, t, q.index) <=>
                \/ MbrSeen(d, s, q.index)
                \/ q.index = f.base + f.i /\ (n = 1 \/ f.i = 0)
           /\ n = 1 \/ f.i = 0 => ~MbrSeen(d, s, f.base + f.i)
<1>1. MbrOnly(d)
  BY DEF WalkOf
<1>2. /\ n \in {1, 2, 3} /\ f.i \in Nat /\ p = d.mbr[f.sector][f.i + 1]
      /\ Len(s) = n /\ f = s[n]
      /\ n = 1 => f.base = 0 /\ f.sector = 0
      /\ n = 2 => /\ f.base = 4 /\ FirstRecord(d, f.sector)
                  /\ s[1].i \in 1..4
      /\ n = 3 => /\ f.base = 5 /\ s[1].i \in 1..4 /\ s[2].i = 2
  BY WalkFacts
<1>3. PICK i : i = q.index
  OBVIOUS
<1>4. i \in 0..5
  BY <1>1, <1>3, MbrIndex
<1>5. CASE n = 1
  <2>1. Len(s) = 1 /\ Len(t) = 1 /\ s[1].i = f.i /\ t[1].i = f.i + 1 /\ f.i < 4 /\ f.base + f.i = f.i
    BY <1>2, <1>5
  <2>2. (\E k \in 1..f.i+1 : d.mbr[0][k].type = "ebr") <=> (\E k \in 1..f.i : d.mbr[0][k].type = "ebr")
    <3>1. 1..f.i+1 = (1..f.i) \cup {f.i + 1}
      BY <1>2
    <3>2. d.mbr[0][f.i + 1].type # "ebr"
      BY <1>2, <1>5
    <3> QED BY <3>1, <3>2
  <2> DEFINE Ebr(m) == \E k \in 1..m : d.mbr[0][k].type = "ebr"
  <2>5. ASSUME NEW u, Len(u) = 1, NEW m, u[1].i = m, NEW x \in 0..5
        PROVE  MbrSeen(d, u, x) <=> (x <= 3 /\ x < m) \/ (x > 3 /\ Ebr(m))
    BY <2>5 DEF MbrSeen
  <2>6. PICK m \in 0..3 : m = f.i
    BY <1>2, <2>1
  <2>7. /\ MbrSeen(d, s, i) <=> (i <= 3 /\ i < m) \/ (i > 3 /\ Ebr(m))
        /\ MbrSeen(d, s, m) <=> (m <= 3 /\ m < m) \/ (m > 3 /\ Ebr(m))
        /\ MbrSeen(d, t, i) <=> (i <= 3 /\ i < m + 1) \/ (i > 3 /\ Ebr(m + 1))
    <3>1. m \in 0..5
      OBVIOUS
    <3> HIDE DEF Ebr
    <3> QED BY <1>4, <2>1, <2>5, <2>6, <3>1
  <2>8. Ebr(m + 1) <=> Ebr(m)
    BY <2>2, <2>6
  <2> HIDE DEF Ebr
  <2>3. MbrSeen(d, t, i) <=> MbrSeen(d, s, i) \/ i = f.i
    BY <1>4, <2>6, <2>7, <2>8
  <2>4. ~MbrSeen(d, s, f.i)
    BY <2>6, <2>7
  <2> QED BY <1>3, <1>5, <2>1, <2>3, <2>4
<1>6. CASE n = 2
  <2>1. /\ Len(s) = 2 /\ Len(t) = 2 /\ t[1] = s[1] /\ s[2].i = f.i /\ t[2].i = f.i + 1
        /\ f.i \in {0, 1} /\ f.base = 4
    BY <1>2, <1>6
  <2>2. CASE f.i = 0
    <3>1. /\ MbrSeen(d, t, i) <=> MbrSeen(d, s, i) \/ i = 4
          /\ ~MbrSeen(d, s, 4)
      BY <1>2, <1>4, <1>6, <2>1, <2>2 DEF MbrSeen
    <3>2. f.base + f.i = 4
      BY <2>1, <2>2
    <3> QED BY <1>3, <2>2, <3>1, <3>2
  <2>3. CASE f.i = 1
    <3>1. d.mbr[f.sector][2].type # "ebr" /\ FirstRecord(d, f.sector)
      BY <1>2, <1>6, <2>3
    <3>2. i # 5
      BY <1>1, <1>3, <3>1, NoSecondRecord
    <3>3. MbrSeen(d, t, i) <=> MbrSeen(d, s, i)
      BY <1>2, <1>4, <1>6, <2>1, <2>3, <3>2 DEF MbrSeen
    <3> QED BY <1>3, <1>6, <2>3, <3>3
  <2> QED BY <2>1, <2>2, <2>3
<1>7. CASE n = 3
  <2>1. /\ Len(s) = 3 /\ Len(t) = 3 /\ t[1] = s[1] /\ t[2] = s[2] /\ s[3].i = f.i
        /\ t[3].i = f.i + 1 /\ f.i \in {0, 1} /\ f.base = 5
    BY <1>2, <1>7
  <2>2. CASE f.i = 0
    <3>1. /\ MbrSeen(d, t, i) <=> MbrSeen(d, s, i) \/ i = 5
          /\ ~MbrSeen(d, s, 5)
      BY <1>2, <1>4, <1>7, <2>1, <2>2 DEF MbrSeen
    <3>2. f.base + f.i = 5
      BY <2>1, <2>2
    <3> QED BY <1>3, <2>2, <3>1, <3>2
  <2>3. CASE f.i = 1
    <3>1. MbrSeen(d, t, i) <=> MbrSeen(d, s, i)
      BY <1>2, <1>4, <1>7, <2>1, <2>3 DEF MbrSeen
    <3> QED BY <1>3, <1>7, <2>3, <3>1
  <2> QED BY <2>1, <2>2, <2>3
<1> QED BY <1>2, <1>5, <1>6, <1>7

\* Calling mbr_do_initialize passes nothing.
LEMMA SeenInto ==
    ASSUME NEW d, NEW s, NEW n, NEW f, NEW p, WalkOf(d, s, n, f, p),
           NEW t, Entered(d, s, n, f, t), NEW q \in Partitions(d)
    PROVE  MbrSeen(d, t, q.index) <=> MbrSeen(d, s, q.index)
<1>1. MbrOnly(d)
  BY DEF WalkOf
<1>2. /\ n \in {1, 2, 3} /\ f.i \in Nat /\ p = d.mbr[f.sector][f.i + 1]
      /\ Len(s) = n /\ f = s[n]
      /\ n = 1 => f.base = 0 /\ f.sector = 0
      /\ n = 2 => s[1].i \in 1..4
      /\ n = 3 => SecondRecord(d, f.sector)
  BY WalkFacts
<1>3. /\ f.i < (IF n = 1 THEN 4 ELSE 2) /\ (n = 1 \/ f.i # 0)
      /\ d.mbr[f.sector][f.i + 1].type = "ebr"
      /\ Len(t) = n + 1 /\ \A k \in 1..n-1 : t[k] = s[k]
      /\ t[n].i = f.i + 1 /\ t[n + 1].i = 0
  BY DEF Entered, Frame
<1>4. PICK i : i = q.index
  OBVIOUS
<1>5. i \in 0..5
  BY <1>1, <1>4, MbrIndex
<1>6. CASE n = 1
  <2>1. PICK m \in 0..3 : m = f.i
    BY <1>2, <1>3, <1>6
  <2>2. Len(s) = 1 /\ s[1].i = m /\ Len(t) = 2 /\ t[1].i = m + 1 /\ t[2].i = 0
    BY <1>2, <1>3, <1>6, <2>1
  <2>3. d.mbr[0][m + 1].type = "ebr" /\ m + 1 \in 1..4
    BY <1>2, <1>3, <1>6, <2>1
  <2>4. i # m
    <3> SUFFICES ASSUME i = m PROVE FALSE
      OBVIOUS
    <3>1. q.index = m /\ m <= 3
      BY <1>4
    <3>2. d.mbr[0][m + 1].type = "data"
      BY <1>1, <3>1, MbrIndex
    <3> QED BY <2>3, <3>2
  <2>5. ~ \E k \in 1..m : d.mbr[0][k].type = "ebr"
    <3> SUFFICES ASSUME NEW k \in 1..m, d.mbr[0][k].type = "ebr" PROVE FALSE
      OBVIOUS
    <3>1. k \in 1..4 /\ k # m + 1
      OBVIOUS
    <3>2. \A x, y \in 1..4 : d.mbr[0][x].type = "ebr" /\ d.mbr[0][y].type = "ebr" => x = y
      BY <1>1, Zenon DEF MbrOnly, WellFormed
    <3> QED BY <2>3, <3>1, <3>2
  <2>6. /\ MbrSeen(d, s, i) <=> (i <= 3 /\ i < m)
        /\ MbrSeen(d, t, i) <=> (i <= 3 /\ i < m + 1)
    BY <1>5, <2>2, <2>5 DEF MbrSeen
  <2>7. MbrSeen(d, t, i) <=> MbrSeen(d, s, i)
    BY <1>5, <2>4, <2>6
  <2> QED BY <1>4, <2>7
<1>7. CASE n = 2
  <2>1. /\ Len(s) = 2 /\ s[2].i = 1 /\ Len(t) = 3 /\ t[1] = s[1] /\ t[2].i = 2 /\ t[3].i = 0
    BY <1>2, <1>3, <1>7
  <2>2. MbrSeen(d, t, i) <=> MbrSeen(d, s, i)
    BY <1>5, <2>1 DEF MbrSeen
  <2> QED BY <1>4, <2>2
<1>8. CASE n = 3
  <2>1. d.mbr[f.sector][2].type = "ebr" /\ SecondRecord(d, f.sector)
    <3>1. f.i + 1 = 2
      BY <1>2, <1>3, <1>8
    <3> QED BY <1>2, <1>3, <1>8, <3>1
  <2> QED BY <1>1, <2>1, RecordFacts
<1> QED BY <1>2, <1>6, <1>7, <1>8

\* Nor does returning, at the end of a table or at an entry out of place.
LEMMA SeenBack ==
    ASSUME NEW d, NEW s, NEW n, NEW f, NEW p, WalkOf(d, s, n, f, p),
           \/ f.i = (IF n = 1 THEN 4 ELSE 2)
           \/ n # 1 /\ p.type = "ebr" /\ f.i = 0
           \/ n # 1 /\ p.type = "data" /\ f.i = 1,
           NEW t, Len(t) = n - 1, \A k \in 1..n-1 : t[k] = s[k],
           NEW q \in Partitions(d)
    PROVE  MbrSeen(d, t, q.index) <=> MbrSeen(d, s, q.index)
<1>1. MbrOnly(d)
  BY DEF WalkOf
<1>2. /\ n \in {1, 2, 3} /\ f.i \in Nat /\ p = d.mbr[f.sector][f.i + 1]
      /\ Len(s) = n /\ f = s[n]
      /\ n = 2 => /\ s[1].i \in 1..4 /\ d.mbr[0][s[1].i].type = "ebr"
                  /\ FirstRecord(d, f.sector)
      /\ n = 3 => /\ s[1].i \in 1..4 /\ s[2].i = 2 /\ SecondRecord(d, f.sector)
  BY WalkFacts
<1>3. PICK i : i = q.index
  OBVIOUS
<1>4. i \in 0..5
  BY <1>1, <1>3, MbrIndex
<1>5. CASE n = 1
  <2>1. Len(s) = 1 /\ s[1].i = 4 /\ Len(t) = 0
    BY <1>2, <1>5
  <2>2. i > 3 => \E k \in 1..4 : d.mbr[0][k].type = "ebr"
    BY <1>1, <1>3, MbrIndex
  <2>3. MbrSeen(d, t, i) /\ MbrSeen(d, s, i)
    <3>1. MbrSeen(d, t, i)
      BY <2>1, Zenon DEF MbrSeen
    <3>2. CASE i <= 3
      BY <1>4, <2>1, <3>1, <3>2 DEF MbrSeen
    <3>3. CASE i > 3
      BY <1>4, <2>1, <2>2, <3>1, <3>3 DEF MbrSeen
    <3> QED BY <1>4, <3>2, <3>3
  <2> QED BY <1>3, <2>3
<1>6. CASE n = 2
  <2>1. Len(s) = 2 /\ Len(t) = 1 /\ t[1] = s[1] /\ s[2] = f
    BY <1>2, <1>6
  <2>2. \E k \in 1..s[1].i : d.mbr[0][k].type = "ebr"
    BY <1>2, <1>6
  <2>3. MbrSeen(d, t, i) <=> i > 3 \/ i < s[1].i
    BY <1>2, <1>4, <1>6, <2>1, <2>2 DEF MbrSeen
  <2>4. i = 4 => f.i >= 1
    <3> SUFFICES ASSUME i = 4, ~(f.i >= 1) PROVE FALSE
      BY SMTT(30)
    <3>1. f.i = 0 /\ p.type = "ebr" /\ p = d.mbr[f.sector][1] /\ FirstRecord(d, f.sector)
      BY <1>2, <1>6
    <3>2. PICK r : FirstRecord(d, r) /\ d.mbr[r][1].type = "data"
      BY <1>1, <1>3, MbrIndex
    <3>3. r = f.sector
      BY <1>1, <3>1, <3>2, RecordFacts
    <3> QED BY <3>1, <3>2, <3>3
  <2>5. i = 5 => f.i = 2
    <3> SUFFICES ASSUME i = 5, f.i # 2 PROVE FALSE
      OBVIOUS
    <3>1. FirstRecord(d, f.sector)
      BY <1>2, <1>6
    <3>2. d.mbr[f.sector][2].type # "ebr"
      <4>1. CASE f.i = 0
        <5>1. d.mbr[f.sector][1].type = "ebr"
          BY <1>2, <1>6, <4>1
        <5> QED BY <1>1, <3>1, <5>1, RecordFacts
      <4>2. CASE f.i = 1
        BY <1>2, <1>6, <4>2
      <4> QED BY <1>2, <1>6, <4>1, <4>2
    <3> QED BY <1>1, <1>3, <3>1, <3>2, NoSecondRecord
  <2>6. MbrSeen(d, s, i) <=> i > 3 \/ i < s[1].i
    BY <1>2, <1>4, <1>6, <2>1, <2>4, <2>5 DEF MbrSeen
  <2> QED BY <1>3, <2>3, <2>6
<1>7. CASE n = 3
  <2>1. Len(s) = 3 /\ Len(t) = 2 /\ t[1] = s[1] /\ t[2].i = 2 /\ s[3] = f
    BY <1>2, <1>7
  <2>2. i = 5 => f.i >= 1
    <3> SUFFICES ASSUME i = 5, ~(f.i >= 1) PROVE FALSE
      OBVIOUS
    <3>1. f.i = 0 /\ p.type = "ebr" /\ p = d.mbr[f.sector][1] /\ SecondRecord(d, f.sector)
      BY <1>2, <1>7
    <3>2. PICK r : SecondRecord(d, r) /\ d.mbr[r][1].type = "data"
      BY <1>1, <1>3, MbrIndex
    <3>3. r = f.sector
      BY <1>1, <3>1, <3>2, RecordFacts
    <3> QED BY <3>1, <3>2, <3>3
  <2>3. MbrSeen(d, t, i) <=> MbrSeen(d, s, i)
    BY <1>2, <1>4, <1>7, <2>1, <2>2 DEF MbrSeen
  <2> QED BY <1>3, <2>3
<1> QED BY <1>2, <1>5, <1>6, <1>7, Zenon
=============================================================================

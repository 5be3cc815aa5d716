------------------------ MODULE AttributeArrayProofs ------------------------
(***************************************************************************)
(* The boot context has room for the memory map, for every page and entry  *)
(* size, every size of the other attributes and every map.                 *)
(***************************************************************************)
EXTENDS AttributeArray, TLAPS

\* What the division of the C code's size_t values computes.
LEMMA Division ==
    ASSUME NEW a \in Nat, NEW b \in Nat \ {0}
    PROVE  /\ a \div b \in Nat
           /\ (a \div b) * b <= a
           /\ a < (a \div b) * b + b
  OBVIOUS

\* The pages of an array hold its bytes, and what rounding up adds holds the
\* entries Spare counts.
LEMMA PagesSuffice ==
    ASSUME NEW bytes \in Nat
    PROVE  /\ PagesFor(bytes) \in Nat
           /\ Spare(bytes) \in Nat
           /\ bytes + Spare(bytes) * ENTRY_SIZE <= PagesFor(bytes) * PAGE_SIZE
<1> DEFINE up == bytes + PAGE_SIZE - 1
           pages == up \div PAGE_SIZE
           rest == pages * PAGE_SIZE - bytes
<1>1. up \in Nat /\ PAGE_SIZE \in Nat \ {0} /\ ENTRY_SIZE \in Nat \ {0}
  BY ArrayAssumption
<1>2. /\ pages \in Nat
      /\ up < pages * PAGE_SIZE + PAGE_SIZE
  <2> HIDE DEF up
  <2> QED BY <1>1, Division
<1>3. pages * PAGE_SIZE \in Nat
  BY <1>1, <1>2
<1>4. bytes <= pages * PAGE_SIZE
  <2> DEFINE product == pages * PAGE_SIZE
  <2>1. product \in Nat /\ up < product + PAGE_SIZE
    BY <1>2, <1>3
  <2> HIDE DEF product, pages
  <2>2. bytes <= product
    BY <2>1, <1>1
  <2> QED BY <2>2 DEF product
<1>5. rest \in Nat
  BY <1>3, <1>4
<1>6. /\ rest \div ENTRY_SIZE \in Nat
      /\ (rest \div ENTRY_SIZE) * ENTRY_SIZE <= rest
  <2> HIDE DEF rest
  <2> QED BY <1>1, <1>5, Division
<1>7. PagesFor(bytes) = pages /\ Spare(bytes) = rest \div ENTRY_SIZE
  BY DEF PagesFor, Spare
<1>8. bytes + (rest \div ENTRY_SIZE) * ENTRY_SIZE <= pages * PAGE_SIZE
  <2> DEFINE product == pages * PAGE_SIZE
             used == (rest \div ENTRY_SIZE) * ENTRY_SIZE
  <2>1. product \in Nat /\ used \in Nat /\ used <= product - bytes
    BY <1>1, <1>3, <1>6
  <2> HIDE DEF product, used
  <2>2. bytes + used <= product
    BY <2>1
  <2> QED BY <2>2 DEF product, used
<1> HIDE DEF pages, rest
<1> QED
  BY <1>2, <1>6, <1>7, <1>8

\* The entries of one page do not take more than a page.
LEMMA EntriesOfAPage ==
    /\ EntriesPerPage \in Nat
    /\ EntriesPerPage * ENTRY_SIZE <= PAGE_SIZE
  BY ArrayAssumption, Division DEF EntriesPerPage

Room == fixed_bytes + mm_entry_count * ENTRY_SIZE <= pages_needed * PAGE_SIZE

\* The inductive invariant: before an allocation two entries are free; the
\* allocation may use them up and Growth more; and the pages always hold the
\* entries that were counted.
Inv ==
    /\ TypeOK
    /\ pc = "allocate" => map_count + Leeway <= mm_entry_count
    /\ pc = "check" => map_count + Leeway <= mm_entry_count + Growth
    /\ pc \in {"allocate", "check", "write", "done"} => Room
    /\ pc = "write" => mm_entry_count = map_count
    /\ NeverOutgrown
    /\ WholeMapHanded

LEMMA InitInv == Init => Inv
  BY ArrayAssumption DEF Init, Inv, TypeOK, NeverOutgrown, WholeMapHanded

LEMMA NextInv == Inv /\ [Next]_vars => Inv'
<1> SUFFICES ASSUME Inv, [Next]_vars PROVE Inv'
  OBVIOUS
<1>0. /\ map_count \in Nat /\ mm_entry_count \in Nat /\ pages_needed \in Nat
  BY ArrayAssumption DEF Inv, TypeOK
<1>t. TypeOK
  BY DEF Inv
<1>c. /\ PAGE_SIZE \in Nat /\ ENTRY_SIZE \in Nat /\ fixed_bytes \in Nat
      /\ Growth \in Nat /\ MaxEntries \in Nat
  BY <1>t, ArrayAssumption DEF TypeOK
<1>m. CASE Measure
  BY <1>0, <1>t, <1>c, <1>m, ArrayAssumption DEF Measure, Inv, TypeOK, NeverOutgrown, WholeMapHanded
<1>1. CASE Probe
  <2> DEFINE wanted == map_count + Leeway
             bytes == fixed_bytes + wanted * ENTRY_SIZE
  <2>1. wanted \in Nat /\ bytes \in Nat
    BY <1>0, <1>c DEF Leeway
  <2>2. /\ PagesFor(bytes) \in Nat
        /\ Spare(bytes) \in Nat
        /\ bytes + Spare(bytes) * ENTRY_SIZE <= PagesFor(bytes) * PAGE_SIZE
    <3> HIDE DEF bytes
    <3> QED BY <2>1, PagesSuffice
  <2>3. /\ mm_entry_count' = wanted + Spare(bytes)
        /\ pages_needed' = PagesFor(bytes)
        /\ pc' = "allocate" /\ map_count' = map_count /\ handed' = handed
        /\ fixed_bytes' = fixed_bytes
    BY <1>1 DEF Probe
  <2>4. Room'
    <3>1. mm_entry_count' * ENTRY_SIZE = wanted * ENTRY_SIZE + Spare(bytes) * ENTRY_SIZE
      <4> HIDE DEF wanted, bytes
      <4> QED BY <1>c, <2>1, <2>2, <2>3
    <3> DEFINE w == wanted * ENTRY_SIZE
               s == Spare(bytes) * ENTRY_SIZE
               p == PagesFor(bytes) * PAGE_SIZE
    <3>2. w \in Nat /\ s \in Nat /\ p \in Nat
      BY <1>c, <2>1, <2>2
    <3>3. fixed_bytes + w + s <= p
      BY <2>2
    <3> HIDE DEF w, s, p
    <3>4. fixed_bytes + (w + s) <= p
      BY <1>c, <3>2, <3>3
    <3> QED BY <3>1, <3>4, <2>3 DEF w, s, p, Room
  <2>5. mm_entry_count' \in Nat /\ map_count' + Leeway <= mm_entry_count'
    <3> HIDE DEF bytes
    <3> QED BY <1>0, <2>1, <2>2, <2>3 DEF Leeway
  <2> QED
    BY <1>0, <1>t, <2>2, <2>3, <2>4, <2>5 DEF Inv, TypeOK, NeverOutgrown, WholeMapHanded
<1>2. CASE Allocate
  <2>1. /\ map_count' \in 1..MaxEntries /\ map_count' <= map_count + Growth
        /\ pc = "allocate" /\ pc' = "check"
        /\ mm_entry_count' = mm_entry_count /\ pages_needed' = pages_needed
        /\ handed' = handed /\ map_count' \in Nat /\ fixed_bytes' = fixed_bytes
    BY <1>2, <1>c DEF Allocate, Perturbed
  <2>2. map_count + Leeway <= mm_entry_count
    BY <2>1 DEF Inv
  <2>3. map_count' + Leeway <= mm_entry_count' + Growth
    <3> DEFINE new == map_count'
    <3>1. new \in Nat /\ new <= map_count + Growth
      BY <2>1
    <3> HIDE DEF new
    <3>2. new + Leeway <= mm_entry_count + Growth
      BY <1>0, <1>c, <2>2, <3>1 DEF Leeway
    <3> QED BY <2>1, <3>2 DEF new
  <2>4. Room'
    BY <2>1 DEF Inv, Room
  <2> QED
    BY <1>0, <1>t, <2>1, <2>3, <2>4 DEF Inv, TypeOK, NeverOutgrown, WholeMapHanded
<1>3. CASE Retry
  <2>1. /\ map_count' \in 1..MaxEntries /\ map_count' <= map_count + Growth
        /\ pc = "check"
        /\ mm_entry_count' = mm_entry_count + EntriesPerPage
        /\ pages_needed' = pages_needed + 1 /\ handed' = handed
        /\ pc' = IF mm_entry_count + EntriesPerPage <= map_count
                 THEN "bug" ELSE "allocate"
        /\ map_count' \in Nat /\ fixed_bytes' = fixed_bytes
    BY <1>3, <1>c DEF Retry, Perturbed, GrownRoom
  <2>2. map_count + Leeway <= mm_entry_count + Growth
    BY <2>1 DEF Inv
  <2>r. Room
    BY <2>1 DEF Inv
  <2>3. pc' = "allocate" /\ map_count' + Leeway <= mm_entry_count'
    <3> DEFINE new == map_count'
    <3>1. new \in Nat /\ new <= map_count + Growth
      BY <2>1
    <3>2. EntriesPerPage \in Nat
      BY EntriesOfAPage
    <3> HIDE DEF new
    <3>3. /\ new + Leeway <= mm_entry_count + EntriesPerPage
          /\ ~(mm_entry_count + EntriesPerPage <= map_count)
      BY <1>0, <1>c, <2>2, <3>1, <3>2, GrowthAssumption DEF Leeway
    <3> QED BY <2>1, <3>3 DEF new
  <2>4. Room'
    <3> DEFINE m == mm_entry_count * ENTRY_SIZE
               e == EntriesPerPage * ENTRY_SIZE
               p == pages_needed * PAGE_SIZE
    <3>1. m \in Nat /\ e \in Nat /\ p \in Nat
      BY <1>0, <1>c, EntriesOfAPage
    <3>2. mm_entry_count' * ENTRY_SIZE = m + e /\ pages_needed' * PAGE_SIZE = p + PAGE_SIZE
      BY <1>0, <1>c, <2>1, EntriesOfAPage
    <3>3. fixed_bytes + m <= p /\ e <= PAGE_SIZE
      BY <2>r, EntriesOfAPage DEF Room
    <3> HIDE DEF m, e, p
    <3>4. fixed_bytes + (m + e) <= p + PAGE_SIZE
      BY <1>c, <3>1, <3>3
    <3> QED BY <2>1, <3>2, <3>4 DEF Room
  <2> QED
    BY <1>0, <1>t, <2>1, <2>3, <2>4, EntriesOfAPage DEF Inv, TypeOK, NeverOutgrown, WholeMapHanded
<1>4. CASE Accept
  <2>1. /\ pc = "check" /\ pc' = "write" /\ map_count <= mm_entry_count
        /\ mm_entry_count' = map_count
        /\ UNCHANGED <<fixed_bytes, map_count, pages_needed, handed>>
    BY <1>0, <1>4 DEF Accept, Outgrown, FinalCapacity
  <2>2. Room
    BY <2>1 DEF Inv
  <2>3. Room'
    <3> DEFINE m == map_count * ENTRY_SIZE
               n == mm_entry_count * ENTRY_SIZE
               p == pages_needed * PAGE_SIZE
    <3>1. m \in Nat /\ n \in Nat /\ p \in Nat /\ m <= n
      BY <1>0, <1>c, <2>1
    <3>2. fixed_bytes + n <= p
      BY <2>2 DEF Room
    <3> HIDE DEF m, n, p
    <3>3. fixed_bytes + m <= p
      BY <1>c, <3>1, <3>2
    <3> QED BY <2>1, <3>3 DEF m, p, Room
  <2> QED
    BY <1>0, <1>t, <2>1, <2>3 DEF Inv, TypeOK, NeverOutgrown, WholeMapHanded
<1>5. CASE WriteMemoryMap
  BY <1>0, <1>t, <1>5 DEF WriteMemoryMap, Inv, TypeOK, Room, NeverOutgrown, WholeMapHanded
<1>6. CASE UNCHANGED vars
  BY <1>6 DEF vars, Inv, TypeOK, Room, NeverOutgrown, WholeMapHanded
<1> QED
  BY <1>m, <1>1, <1>2, <1>3, <1>4, <1>5, <1>6 DEF Next, Done

\* Every behaviour of the sizing loop keeps the inductive invariant.
THEOREM AlwaysInv == Spec => []Inv
  BY InitInv, NextInv, PTL DEF Spec

\* The variables of build_attribute_array keep their types.
THEOREM Types == Spec => []TypeOK
<1>1. Inv => TypeOK
  BY DEF Inv
<1> QED BY <1>1, AlwaysInv, PTL

\* For every page, entry and map size: the attribute array never overruns its pages,
\* the loop's BUG_ON is unreachable when one call of the allocator changes the map by
\* at most half of the entries of a page, and when the array is done the services
\* are released and the kernel has been given every entry.
THEOREM AlwaysSound == Spec => []ArrayIsSound
<1>1. Inv => NeverOutgrown /\ WholeMapHanded
  BY DEF Inv
<1>2. Inv => ArrayHasRoom
  BY DEF Inv, ArrayHasRoom, Room
<1>3. Inv => ArrayIsSound
  BY <1>1, <1>2 DEF ArrayIsSound
<1> QED BY <1>3, AlwaysInv, PTL
=============================================================================

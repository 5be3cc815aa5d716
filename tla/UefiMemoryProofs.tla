-------------------------- MODULE UefiMemoryProofs --------------------------
(***************************************************************************)
(* Proofs about the UEFI memory services: the loop that fetches the map    *)
(* makes progress, and the page of slack of the raw capture is enough for  *)
(* as many calls of the firmware's allocator as it has room for, whatever  *)
(* the machine and the order of the calls.                                 *)
(***************************************************************************)
EXTENDS UefiMemory, FiniteSetTheorems, TLAPS

EfiTypes == {"conv", "boot", "data", "rsv", "nvs"}

\* What clients ask for, and so what protocol_allocations and live hold.
Alloc == [addr : Page, size : Sizes, type : ClientTypes]

PhaseNames ==
    {"idle", "acquire", "fixup", "foreach", "handoff", "release", "exit",
     "offline", "outgrown", "overrun", "panic", "oops", "bug", "die"}

FwTypeOK ==
    /\ efi_type \in [Page -> PageKinds]
    /\ map_buf \in [at : Page, pages : Nat]
    /\ capture = [at |-> capture.at, pages |-> capture.pages, raw |-> capture.raw]
    /\ capture.at \in Page /\ capture.pages \in Nat
    /\ protocol_allocations \in Seq(Alloc)
    /\ live \subseteq Alloc
    /\ caller \in [fn : {"none", "foreach", "handoff", "release", "exit"},
                   capacity : ReleaseSizes \cup {0}, final : BOOLEAN, grown : Nat]
    /\ disturbed \in Nat
    /\ phase \in PhaseNames

\* The part of mm_fixup's state the caller depends on: it never returns an
\* empty map.
FixupSane ==
    /\ DOMAIN fx = {"lo", "count", "cap", "flags", "i", "j"}
    /\ fx.lo = 0 /\ fx.j \in Nat
    /\ phase \in {"release", "exit"} => entry_count \in Nat \ {0}

\* Which call a fetched map is for.
CallerKnown ==
    /\ phase \in {"foreach", "handoff", "release", "exit"} => phase = caller.fn
    /\ caller.fn = "handoff" => capture.pages = 0
    /\ caller.fn \in {"foreach", "handoff"} => ~caller.final
    /\ caller.fn = "release" => (caller.final <=> caller.capacity # 0)
    /\ caller.fn = "exit" => caller.final
    /\ phase \in {"acquire", "fixup"} => caller.fn # "none"

\* From the final fetch on the capture is the firmware's map.
CaptureFresh ==
    /\ phase \in {"fixup", "release", "exit"} /\ caller.final /\ capture.pages # 0
         => capture.raw = Descriptors(efi_type)
    /\ phase = "offline" /\ capture.pages # 0 => capture.raw = Descriptors(efi_type)

\* Every call of the firmware's allocator since the reservation took at most
\* two descriptors of the slack.
SlackLeft ==
    /\ capture.pages # 0 /\ disturbed <= SlackCalls =>
         RawUnits(efi_type) + PageUnits
           <= capture.pages * PageUnits + disturbed * (2 * DescUnits)
    /\ phase = "outgrown" => disturbed > SlackCalls

UefiInv == FwTypeOK /\ FixupSane /\ CallerKnown /\ CaptureFresh /\ SlackLeft /\ AcquireProgresses

-----------------------------------------------------------------------------
(* The operators the model is built from                                   *)

\* Rounding up to whole pages, as PAGE_ROUND_UP does, never loses a byte.
LEMMA PagesForCovers ==
    ASSUME NEW units \in Nat
    PROVE  PagesFor(units) \in Nat /\ PagesFor(units) * PageUnits >= units
<1>1. PageUnits \in Nat /\ PageUnits >= 1
  BY UefiAssumption
<1> DEFINE up == units + PageUnits - 1
           n == up \div PageUnits
<1>2. up \in Nat
  BY <1>1
<1>3. n \in Nat /\ up < n * PageUnits + PageUnits
  <2> HIDE DEF up
  <2> QED BY <1>1, <1>2, SMT
<1>4. n * PageUnits \in Nat
  <2> HIDE DEF n
  <2> QED BY <1>1, <1>3, SMT
<1> DEFINE all == n * PageUnits
<1>5. all >= units
  <2> HIDE DEF all
  <2>1. up < all + PageUnits BY <1>3 DEF all
  <2>2. all \in Nat BY <1>4 DEF all
  <2> QED BY <2>1, <2>2, <1>1
<1> QED BY <1>3, <1>5 DEF PagesFor

\* The borders of a map are pages, so there are finitely many of them.
LEMMA BordersFinite ==
    ASSUME NEW types
    PROVE  IsFiniteSet(Borders(types)) /\ Cardinality(Borders(types)) \in Nat
<1>1. IsFiniteSet(Page)
  BY FS_Interval, UefiAssumption DEF Page
<1>2. Borders(types) \in SUBSET Page
  BY DEF Borders
<1>3. IsFiniteSet(Borders(types))
  BY <1>1, <1>2, FS_Subset
<1> QED BY <1>3, FS_CardinalityType

LEMMA RawUnitsType ==
    ASSUME NEW types
    PROVE  RawUnits(types) \in Nat
<1>1. Cardinality(Borders(types)) \in Nat BY BordersFinite
<1>2. DescUnits \in Nat BY UefiAssumption
<1> QED BY <1>1, <1>2 DEF RawUnits

\* A call of the firmware's allocator gives a run of pages a new type: new
\* descriptors begin at most at the first page of the run and behind it.
LEMMA RetypedGrowth ==
    ASSUME NEW types \in [Page -> PageKinds], NEW p \in Page, NEW n \in Nat,
           NEW t \in EfiTypes
    PROVE  /\ Retyped(types, p, n, t) \in [Page -> PageKinds]
           /\ RawUnits(Retyped(types, p, n, t)) <= RawUnits(types) + 2 * DescUnits
<1> DEFINE new == Retyped(types, p, n, t)
           old == Borders(types)
<1>1. /\ \A q \in Page : new[q] = IF q \in p..p+n-1 THEN [types[q] EXCEPT !.type = t] ELSE types[q]
      /\ new = [q \in Page |-> new[q]]
  BY DEF Retyped
<1>2. \A q \in Page : types[q] \in PageKinds
  OBVIOUS
<1>3. \A q \in Page : [types[q] EXCEPT !.type = t] \in PageKinds
  BY <1>2 DEF PageKinds, EfiTypes
<1>4. new \in [Page -> PageKinds]
  BY <1>1, <1>2, <1>3
<1>5. p \in Nat /\ \A q \in Page : q \in Nat /\ (q # 0 => q - 1 \in Page)
  BY UefiAssumption DEF Page
<1>6. Borders(new) \subseteq (old \cup {p}) \cup {p + n}
  <2> SUFFICES ASSUME NEW q \in Page, q # 0, q # p, q # p + n, new[q - 1] # new[q]
               PROVE  types[q - 1] # types[q]
    BY DEF Borders
  <2>1. q \in Nat /\ q - 1 \in Page /\ p \in Nat
    BY <1>5
  <2>2. q \in p..p+n-1 <=> q - 1 \in p..p+n-1
    BY <2>1
  <2>3. CASE q \in p..p+n-1
    <3>1. /\ new[q] = [types[q] EXCEPT !.type = t]
          /\ new[q - 1] = [types[q - 1] EXCEPT !.type = t]
      BY <1>1, <2>1, <2>2, <2>3
    <3> QED BY <3>1
  <2>4. CASE q \notin p..p+n-1
    BY <1>1, <2>1, <2>2, <2>4
  <2> QED BY <2>3, <2>4
<1>7. IsFiniteSet(old) /\ Cardinality(old) \in Nat /\ Cardinality(Borders(new)) \in Nat
  BY BordersFinite
<1>8. /\ IsFiniteSet(old \cup {p})
      /\ Cardinality(old \cup {p}) \in Nat
      /\ Cardinality(old \cup {p}) <= Cardinality(old) + 1
  <2>1. IsFiniteSet(old) /\ Cardinality(old) \in Nat BY <1>7
  <2> HIDE DEF old
  <2>2. /\ IsFiniteSet(old \cup {p})
        /\ Cardinality(old \cup {p}) = IF p \in old THEN Cardinality(old) ELSE Cardinality(old) + 1
    BY <2>1, FS_AddElement
  <2> QED BY <2>1, <2>2
<1>9. /\ IsFiniteSet((old \cup {p}) \cup {p + n})
      /\ Cardinality((old \cup {p}) \cup {p + n}) \in Nat
      /\ Cardinality((old \cup {p}) \cup {p + n}) <= Cardinality(old \cup {p}) + 1
  <2> DEFINE mid == old \cup {p}
  <2> HIDE DEF mid
  <2>1. IsFiniteSet(mid) /\ Cardinality(mid) \in Nat BY <1>8 DEF mid
  <2>2. /\ IsFiniteSet(mid \cup {p + n})
        /\ Cardinality(mid \cup {p + n}) \in Nat
        /\ Cardinality(mid \cup {p + n}) <= Cardinality(mid) + 1
    BY <2>1, FS_AddElement
  <2> QED BY <2>2 DEF mid
<1>10. Cardinality(Borders(new)) <= Cardinality((old \cup {p}) \cup {p + n})
  <2> DEFINE all == (old \cup {p}) \cup {p + n}
             some == Borders(new)
  <2>1. some \in SUBSET all /\ IsFiniteSet(all)
    BY <1>6, <1>9
  <2> HIDE DEF all, some
  <2>2. Cardinality(some) <= Cardinality(all)
    BY <2>1, FS_Subset
  <2> QED BY <2>2 DEF all, some
<1> DEFINE a == Cardinality(Borders(new))
           b == Cardinality(old)
<1>11. a \in Nat /\ b \in Nat /\ a <= b + 2
  <2> HIDE DEF old, new
  <2> QED BY <1>7, <1>8, <1>9, <1>10
<1>12. a * DescUnits <= b * DescUnits + 2 * DescUnits
  <2> HIDE DEF a, b
  <2>1. DescUnits \in Nat BY UefiAssumption
  <2>2. PICK k \in Nat : a + k = b + 2 BY <1>11
  <2>3. (a + k) * DescUnits = (b + 2) * DescUnits BY <2>2
  <2>4. a * DescUnits + k * DescUnits = b * DescUnits + 2 * DescUnits
    BY <2>1, <2>2, <2>3, <1>11, SMT
  <2>5. a * DescUnits \in Nat /\ k * DescUnits \in Nat /\ b * DescUnits \in Nat
    BY <2>1, <2>2, <1>11
  <2> QED BY <2>4, <2>5
<1> QED BY <1>4, <1>12 DEF RawUnits

\* page_buf_ensure_capacity leaves the buffer as it was, or frees it and
\* allocates a larger one: at most two calls, one if there was no buffer.
LEMMA EnsureCapacityGrowth ==
    ASSUME efi_type \in [Page -> PageKinds], NEW buf, buf.at \in Page, buf.pages \in Nat,
           NEW units \in Nat, NEW r \in EnsureCapacity(buf, units)
    PROVE  /\ r.efi \in [Page -> PageKinds]
           /\ r.at \in Page /\ r.pages \in Nat
           /\ r.pages * PageUnits >= units \/ ~r.ok
           /\ ~r.ok => r.pages = buf.pages
           /\ r.ok => r.pages = buf.pages \/ r.pages > buf.pages
           /\ RawUnits(r.efi) <= RawUnits(efi_type) + 2 * (2 * DescUnits)
           /\ buf.pages = 0 => RawUnits(r.efi) <= RawUnits(efi_type) + 2 * DescUnits
<1> DEFINE n == PagesFor(units)
           freed == Retyped(efi_type, buf.at, buf.pages, "conv")
           room == Available(freed, n, Pages)
<1>1. n \in Nat /\ n * PageUnits >= units
  BY PagesForCovers
<1>2. freed \in [Page -> PageKinds] /\ RawUnits(freed) <= RawUnits(efi_type) + 2 * DescUnits
  BY RetypedGrowth DEF EfiTypes
<1>3. buf.pages = 0 => freed = efi_type
  <2> SUFFICES ASSUME buf.pages = 0 PROVE freed = efi_type
    OBVIOUS
  <2>1. buf.at \in Nat BY UefiAssumption DEF Page
  <2>2. \A q : q \notin buf.at .. buf.at + buf.pages - 1 BY <2>1
  <2> QED BY <2>2 DEF Retyped
<1>4. /\ RawUnits(efi_type) \in Nat /\ RawUnits(freed) \in Nat /\ RawUnits(r.efi) \in Nat
      /\ DescUnits \in Nat /\ PageUnits \in Nat
  BY RawUnitsType, UefiAssumption
<1>5. \/ /\ n <= buf.pages
         /\ r = [ok |-> TRUE, at |-> buf.at, pages |-> buf.pages, efi |-> efi_type]
      \/ r = [ok |-> FALSE, at |-> buf.at, pages |-> buf.pages, efi |-> efi_type]
      \/ /\ n > buf.pages
         /\ \E p \in room : r = [ok |-> TRUE, at |-> p, pages |-> n,
                                 efi |-> Retyped(freed, p, n, "data")]
  <2> HIDE DEF n, freed, room
  <2> QED BY <1>1 DEF EnsureCapacity, n, freed, room
<1> HIDE DEF n, freed, room
<1>6. CASE /\ n <= buf.pages
           /\ r = [ok |-> TRUE, at |-> buf.at, pages |-> buf.pages, efi |-> efi_type]
  <2>1. buf.pages * PageUnits >= n * PageUnits
    <3>1. PICK k \in Nat : buf.pages = n + k BY <1>1, <1>6
    <3>2. buf.pages * PageUnits = n * PageUnits + k * PageUnits BY <3>1, <1>1, <1>4, SMT
    <3>3. n * PageUnits \in Nat /\ k * PageUnits \in Nat BY <3>1, <1>1, <1>4
    <3> QED BY <3>2, <3>3
  <2>2. buf.pages * PageUnits \in Nat /\ n * PageUnits \in Nat BY <1>1, <1>4
  <2>3. buf.pages * PageUnits >= units BY <2>1, <2>2, <1>1
  <2> QED BY <2>3, <1>4, <1>6
<1>7. CASE r = [ok |-> FALSE, at |-> buf.at, pages |-> buf.pages, efi |-> efi_type]
  BY <1>4, <1>7
<1>8. CASE /\ n > buf.pages
           /\ \E p \in room : r = [ok |-> TRUE, at |-> p, pages |-> n,
                                   efi |-> Retyped(freed, p, n, "data")]
  <2>1. PICK p \in Page : r = [ok |-> TRUE, at |-> p, pages |-> n,
                               efi |-> Retyped(freed, p, n, "data")]
    BY <1>8, Zenon DEF room, Available
  <2>2. /\ r.efi \in [Page -> PageKinds]
        /\ RawUnits(r.efi) <= RawUnits(freed) + 2 * DescUnits
    BY <2>1, <1>1, <1>2, RetypedGrowth DEF EfiTypes
  <2>3. r.ok /\ r.at \in Page /\ r.pages = n
    BY <2>1
  <2> QED BY <2>2, <2>3, <1>1, <1>2, <1>3, <1>4, <1>8
<1> QED BY <1>5, <1>6, <1>7, <1>8

\* What 'k' calls of the firmware's allocator leave of the slack.
LEMMA DisturbKeeps ==
    ASSUME FwTypeOK, SlackLeft, NEW k \in Nat, Disturb(k),
           capture'.pages = capture.pages,
           RawUnits(efi_type') <= RawUnits(efi_type) + k * (2 * DescUnits)
    PROVE  /\ disturbed' \in Nat
           /\ capture'.pages # 0 /\ disturbed' <= SlackCalls =>
                RawUnits(efi_type') + PageUnits
                  <= capture'.pages * PageUnits + disturbed' * (2 * DescUnits)
<1> DEFINE u == 2 * DescUnits
           S == SlackCalls
           d == disturbed
           room == capture.pages * PageUnits
<1>1. u \in Nat \ {0} /\ PageUnits \in Nat /\ d \in Nat /\ room \in Nat
  BY UefiAssumption DEF FwTypeOK
<1>2. S \in Nat
  <2>1. S = PageUnits \div u BY DEF SlackCalls
  <2> HIDE DEF u, S
  <2> QED BY <1>1, <2>1, SMT
<1>3. disturbed' = IF capture.pages = 0 THEN 0 ELSE IF S + 1 <= d + k THEN S + 1 ELSE d + k
  BY DEF Disturb, Lesser
<1>4. RawUnits(efi_type) \in Nat /\ RawUnits(efi_type') \in Nat
  BY RawUnitsType
<1>5. capture.pages # 0 /\ d <= S => RawUnits(efi_type) + PageUnits <= room + d * u
  BY DEF SlackLeft
<1>6. RawUnits(efi_type') <= RawUnits(efi_type) + k * u
  OBVIOUS
<1>7. d * u \in Nat /\ k * u \in Nat /\ (d + k) * u = d * u + k * u
  <2> HIDE DEF u, d
  <2> QED BY <1>1, SMT
<1>8. disturbed' \in Nat
  <2> HIDE DEF S, d
  <2> QED BY <1>1, <1>2, <1>3
<1>9. ASSUME capture.pages # 0, disturbed' <= S
      PROVE  RawUnits(efi_type') + PageUnits <= room + disturbed' * u
  <2>1. disturbed' = d + k /\ d <= S
    <3> HIDE DEF S, d
    <3> QED BY <1>1, <1>2, <1>3, <1>9
  <2>2. disturbed' * u = d * u + k * u
    BY <1>7, <2>1
  <2> HIDE DEF u, S, room, d
  <2> QED BY <1>1, <1>4, <1>5, <1>6, <1>7, <1>9, <2>1, <2>2
<1> QED BY <1>8, <1>9

-----------------------------------------------------------------------------
(* Every step preserves the invariant                                      *)

LEMMA UefiInitInv == UefiInit => UefiInv
<1> SUFFICES ASSUME UefiInit PROVE UefiInv
  OBVIOUS
<1>1. 0 \in Page
  BY UefiAssumption DEF Page
<1>2. FwTypeOK
  BY <1>1, UefiAssumption DEF FwTypeOK, UefiInit, NoBuf, NoCapture, Nobody, PhaseNames, Page
<1>3. FixupSane
  BY DEF FixupSane, UefiInit, NoFixup
<1>4. CallerKnown /\ CaptureFresh /\ SlackLeft /\ AcquireProgresses
  BY DEF CallerKnown, CaptureFresh, SlackLeft, AcquireProgresses, UefiInit, NoCapture, Nobody
<1> QED BY <1>2, <1>3, <1>4 DEF UefiInv

\* account_allocation makes at most one call of its own.
LEMMA AccountGrowth ==
    ASSUME FwTypeOK, NEW types \in [Page -> PageKinds], NEW me \in Alloc, Account(types, me)
    PROVE  /\ efi_type' \in [Page -> PageKinds]
           /\ RawUnits(efi_type') <= RawUnits(types) + 2 * DescUnits
           /\ protocol_allocations' \in Seq(Alloc)
           /\ phase' \in {phase, "oops"}
<1>1. RawUnits(types) \in Nat /\ DescUnits \in Nat
  BY RawUnitsType, UefiAssumption
<1>2. protocol_allocations \in Seq(Alloc) /\ Append(protocol_allocations, me) \in Seq(Alloc)
  BY DEF FwTypeOK
<1>3. /\ \/ efi_type' = types
         \/ \E p \in Page : efi_type' = Retyped(types, p, 1, "data")
      /\ protocol_allocations' \in {protocol_allocations, Append(protocol_allocations, me)}
      /\ phase' \in {phase, "oops"}
  BY DEF Account, Available
<1>4. CASE efi_type' = types
  BY <1>1, <1>2, <1>3, <1>4
<1>5. CASE \E p \in Page : efi_type' = Retyped(types, p, 1, "data")
  <2>1. PICK p \in Page : efi_type' = Retyped(types, p, 1, "data")
    BY <1>5
  <2>2. /\ Retyped(types, p, 1, "data") \in [Page -> PageKinds]
        /\ RawUnits(Retyped(types, p, 1, "data")) <= RawUnits(types) + 2 * DescUnits
    BY RetypedGrowth DEF EfiTypes
  <2> QED BY <2>1, <2>2, <1>2, <1>3
<1> QED BY <1>3, <1>4, <1>5

LEMMA AllocatePagesInv ==
    ASSUME UefiInv, NEW places \in SUBSET Page, NEW n \in Sizes, NEW type \in ClientTypes,
           AllocatePages(places, n, type)
    PROVE  UefiInv'
<1>1. PICK p \in places :
        /\ Account(Retyped(efi_type, p, n, "data"), Mme(p, n, type))
        /\ live' = live \cup {Mme(p, n, type)}
        /\ Disturb(2)
  BY DEF AllocatePages
<1> DEFINE types == Retyped(efi_type, p, n, "data")
           me == Mme(p, n, type)
<1>2. p \in Page /\ n \in Nat /\ me \in Alloc
  BY UefiAssumption DEF Alloc, Mme
<1>3. FwTypeOK /\ SlackLeft /\ efi_type \in [Page -> PageKinds]
  BY DEF UefiInv, FwTypeOK
<1>4. /\ types \in [Page -> PageKinds]
      /\ RawUnits(types) <= RawUnits(efi_type) + 2 * DescUnits
  BY <1>2, <1>3, RetypedGrowth DEF EfiTypes
<1>5. /\ efi_type' \in [Page -> PageKinds]
      /\ RawUnits(efi_type') <= RawUnits(types) + 2 * DescUnits
      /\ protocol_allocations' \in Seq(Alloc)
      /\ phase' \in {phase, "oops"}
  <2> HIDE DEF types, me
  <2> QED BY <1>1, <1>2, <1>3, <1>4, AccountGrowth DEF types, me
<1>6. RawUnits(efi_type') <= RawUnits(efi_type) + 2 * (2 * DescUnits)
  <2>1. /\ RawUnits(efi_type) \in Nat /\ RawUnits(types) \in Nat /\ RawUnits(efi_type') \in Nat
        /\ DescUnits \in Nat
    BY RawUnitsType, UefiAssumption
  <2> HIDE DEF types
  <2> QED BY <1>4, <1>5, <2>1
<1>7. /\ phase = "idle"
      /\ UNCHANGED <<entry_count, fx, map_buf, capture, caller>>
  BY DEF AllocatePages, Idle
<1>8. /\ disturbed' \in Nat
      /\ capture'.pages # 0 /\ disturbed' <= SlackCalls =>
           RawUnits(efi_type') + PageUnits
             <= capture'.pages * PageUnits + disturbed' * (2 * DescUnits)
  BY <1>1, <1>3, <1>6, <1>7, DisturbKeeps
<1>9. live' \subseteq Alloc
  BY <1>1, <1>2, <1>3 DEF FwTypeOK
<1>10. phase' \in {"idle", "oops"}
  BY <1>5, <1>7
<1>11. FwTypeOK'
  BY <1>3, <1>5, <1>7, <1>8, <1>9, <1>10 DEF FwTypeOK, PhaseNames
<1>12. SlackLeft'
  BY <1>8, <1>10 DEF SlackLeft
<1>13. FixupSane' /\ CallerKnown' /\ CaptureFresh' /\ AcquireProgresses'
  BY <1>7, <1>10 DEF UefiInv, FixupSane, CallerKnown, CaptureFresh, AcquireProgresses
<1> QED BY <1>11, <1>12, <1>13 DEF UefiInv

LEMMA FreePagesInv ==
    ASSUME UefiInv, NEW a \in live, ms_free_pages(a)
    PROVE  UefiInv'
<1>1. FwTypeOK /\ SlackLeft /\ efi_type \in [Page -> PageKinds]
  BY DEF UefiInv, FwTypeOK
<1>2. a.addr \in Page /\ a.size \in Nat
  BY <1>1, UefiAssumption DEF FwTypeOK, Alloc
<1>3. /\ phase = "idle" /\ efi_type' = Retyped(efi_type, a.addr, a.size, "conv")
      /\ live' = live \ {a} /\ Disturb(1)
      /\ UNCHANGED <<phase, entry_count, fx, map_buf, capture, protocol_allocations, caller>>
  BY DEF ms_free_pages, Idle, mapVars
<1>4. /\ efi_type' \in [Page -> PageKinds]
      /\ RawUnits(efi_type') <= RawUnits(efi_type) + 2 * DescUnits
  BY <1>1, <1>2, <1>3, RetypedGrowth DEF EfiTypes
<1>5. RawUnits(efi_type') <= RawUnits(efi_type) + 1 * (2 * DescUnits)
  BY <1>4, UefiAssumption
<1>6. /\ disturbed' \in Nat
      /\ capture'.pages # 0 /\ disturbed' <= SlackCalls =>
           RawUnits(efi_type') + PageUnits
             <= capture'.pages * PageUnits + disturbed' * (2 * DescUnits)
  BY <1>1, <1>3, <1>5, DisturbKeeps
<1>7. FwTypeOK'
  BY <1>1, <1>3, <1>4, <1>6 DEF FwTypeOK
<1>8. SlackLeft'
  BY <1>3, <1>6 DEF SlackLeft
<1>9. FixupSane' /\ CallerKnown' /\ CaptureFresh' /\ AcquireProgresses'
  BY <1>3 DEF UefiInv, FixupSane, CallerKnown, CaptureFresh, AcquireProgresses
<1> QED BY <1>7, <1>8, <1>9 DEF UefiInv

LEMMA FetchInv ==
    ASSUME UefiInv, NEW fn \in {"foreach", "handoff", "release"},
           NEW capacity \in ReleaseSizes \cup {0}, NEW final \in BOOLEAN,
           fn = "handoff" => capture.pages = 0,
           IF fn = "release" THEN final <=> capacity # 0 ELSE ~final,
           Fetch(fn, capacity, final)
    PROVE  UefiInv'
<1>1. /\ phase' = "acquire"
      /\ caller' = [fn |-> fn, capacity |-> capacity, final |-> final, grown |-> 0]
      /\ UNCHANGED <<entry_count, fx, efi_type, map_buf, capture, protocol_allocations,
                     live, disturbed>>
  BY DEF Fetch, fwVars
<1>2. FwTypeOK'
  BY <1>1 DEF UefiInv, FwTypeOK, PhaseNames
<1>3. AcquireProgresses'
  BY <1>1 DEF UefiInv, FwTypeOK, AcquireProgresses
<1>4. CallerKnown'
  BY <1>1 DEF CallerKnown
<1>5. FixupSane' /\ CaptureFresh' /\ SlackLeft'
  BY <1>1 DEF UefiInv, FixupSane, CaptureFresh, SlackLeft
<1> QED BY <1>2, <1>3, <1>4, <1>5 DEF UefiInv

\* A buffer that is too small for the descriptors alone is too small for them
\* and the loader's allocations, so the new one is larger by a page.
LEMMA GrowBufferInv ==
    ASSUME UefiInv, GrowBuffer
    PROVE  UefiInv'
<1> DEFINE units == RawUnits(efi_type) + Len(protocol_allocations)
<1>1. FwTypeOK /\ SlackLeft /\ efi_type \in [Page -> PageKinds]
  BY DEF UefiInv, FwTypeOK
<1>2. units \in Nat /\ RawUnits(efi_type) \in Nat /\ units >= RawUnits(efi_type)
  <2>1. Len(protocol_allocations) \in Nat BY <1>1 DEF FwTypeOK
  <2>2. RawUnits(efi_type) \in Nat BY RawUnitsType
  <2> QED BY <2>1, <2>2
<1> HIDE DEF units
<1>3. PICK r \in EnsureCapacity(map_buf, units) :
        /\ efi_type' = r.efi
        /\ map_buf' = [at |-> r.at, pages |-> r.pages]
        /\ phase' = IF r.ok THEN phase ELSE "panic"
  BY DEF GrowBuffer, units
<1>4. map_buf.at \in Page /\ map_buf.pages \in Nat /\ PageUnits \in Nat
  BY <1>1, UefiAssumption DEF FwTypeOK
<1>5. /\ r.efi \in [Page -> PageKinds]
      /\ r.at \in Page /\ r.pages \in Nat
      /\ r.pages * PageUnits >= units \/ ~r.ok
      /\ r.ok => r.pages = map_buf.pages \/ r.pages > map_buf.pages
      /\ RawUnits(r.efi) <= RawUnits(efi_type) + 2 * (2 * DescUnits)
  BY <1>1, <1>2, <1>3, <1>4, EnsureCapacityGrowth
<1>6. /\ phase = "acquire" /\ RawUnits(efi_type) > map_buf.pages * PageUnits
      /\ Disturb(2)
      /\ caller' = [caller EXCEPT !.grown = @ + 1]
      /\ UNCHANGED <<entry_count, fx, capture, protocol_allocations, live>>
  BY DEF GrowBuffer
<1>7. r.ok => r.pages >= map_buf.pages + 1
  <2> SUFFICES ASSUME r.ok, r.pages = map_buf.pages PROVE FALSE
    BY <1>4, <1>5
  <2> DEFINE m == map_buf.pages * PageUnits
  <2>1. m \in Nat /\ m >= units /\ RawUnits(efi_type) > m
    BY <1>4, <1>5, <1>6
  <2> HIDE DEF m
  <2> QED BY <2>1, <1>2
<1>8. caller.grown <= map_buf.pages /\ caller.grown \in Nat
  BY <1>1, <1>6 DEF UefiInv, AcquireProgresses, FwTypeOK
<1>9. /\ caller' \in [fn : {"none", "foreach", "handoff", "release", "exit"},
                      capacity : ReleaseSizes \cup {0}, final : BOOLEAN, grown : Nat]
      /\ caller'.fn = caller.fn /\ caller'.capacity = caller.capacity
      /\ caller'.final = caller.final /\ caller'.grown = caller.grown + 1
  BY <1>1, <1>6 DEF FwTypeOK
<1>10. AcquireProgresses'
  BY <1>3, <1>5, <1>7, <1>8, <1>9, <1>4 DEF AcquireProgresses
<1>11. /\ disturbed' \in Nat
       /\ capture'.pages # 0 /\ disturbed' <= SlackCalls =>
            RawUnits(efi_type') + PageUnits
              <= capture'.pages * PageUnits + disturbed' * (2 * DescUnits)
  BY <1>1, <1>3, <1>5, <1>6, DisturbKeeps
<1>12. phase' \in {"acquire", "panic"}
  BY <1>3, <1>6
<1>13. FwTypeOK'
  BY <1>1, <1>3, <1>5, <1>6, <1>9, <1>11, <1>12 DEF FwTypeOK, PhaseNames
<1>14. SlackLeft'
  BY <1>11, <1>12 DEF SlackLeft
<1>15. CallerKnown'
  BY <1>6, <1>9, <1>12 DEF UefiInv, CallerKnown
<1>16. FixupSane' /\ CaptureFresh'
  BY <1>6, <1>12 DEF UefiInv, FixupSane, CaptureFresh
<1> QED BY <1>10, <1>13, <1>14, <1>15, <1>16 DEF UefiInv

\* The final fetch takes the capture; its BUG_ON needs the slack to be used up.
LEMMA FillBufferInv ==
    ASSUME UefiInv, FillBuffer
    PROVE  UefiInv'
<1> DEFINE outgrown == /\ caller.final /\ capture.pages # 0
                       /\ RawUnits(efi_type) > capture.pages * PageUnits
<1>1. FwTypeOK /\ SlackLeft
  BY DEF UefiInv
<1>2. /\ phase = "acquire" /\ capture' = Captured
      /\ \/ phase' = "outgrown" /\ outgrown /\ UNCHANGED fx
         \/ phase' = "overrun" /\ UNCHANGED fx
         \/ /\ phase' = "fixup"
            /\ \E n, cap, flags :
                 /\ "IF_DIRTY" \notin flags /\ "NO_PRESERVE_LOADER_RECLAIM" \notin flags
                 /\ fx' = [lo |-> 0, count |-> n, cap |-> cap, flags |-> flags,
                           i |-> 0 + 1, j |-> 0]
      /\ UNCHANGED <<efi_type, map_buf, protocol_allocations, caller, live, disturbed>>
  BY DEF FillBuffer, BeginFixup
<1>3. /\ capture' = [at |-> capture'.at, pages |-> capture'.pages, raw |-> capture'.raw]
      /\ capture'.at = capture.at /\ capture'.pages = capture.pages
      /\ caller.final /\ capture.pages # 0 => capture'.raw = Descriptors(efi_type)
  BY <1>1, <1>2 DEF Captured, FwTypeOK
<1>4. phase' \in {"outgrown", "overrun", "fixup"}
  BY <1>2
<1>5. FwTypeOK'
  BY <1>1, <1>2, <1>3, <1>4 DEF FwTypeOK, PhaseNames
<1>6. FixupSane'
  <2>1. \/ fx' = fx
        \/ \E n, cap, flags : fx' = [lo |-> 0, count |-> n, cap |-> cap, flags |-> flags,
                                     i |-> 0 + 1, j |-> 0]
    BY <1>2
  <2>2. /\ DOMAIN fx' = {"lo", "count", "cap", "flags", "i", "j"}
        /\ fx'.lo = 0 /\ fx'.j \in Nat
    BY <2>1 DEF UefiInv, FixupSane
  <2> QED BY <2>2, <1>4 DEF FixupSane
<1>7. CallerKnown'
  BY <1>2, <1>3, <1>4 DEF UefiInv, CallerKnown
<1>8. CaptureFresh'
  BY <1>2, <1>3, <1>4 DEF CaptureFresh
<1>9. AcquireProgresses'
  BY <1>4 DEF AcquireProgresses
<1>10. SlackLeft'
  <2>1. ASSUME phase' = "outgrown" PROVE disturbed > SlackCalls
    <3> DEFINE u == 2 * DescUnits
               room == capture.pages * PageUnits
    <3>1. RawUnits(efi_type) > room /\ capture.pages # 0
      BY <1>2, <2>1
    <3>2. u \in Nat \ {0} /\ PageUnits \in Nat /\ room \in Nat /\ disturbed \in Nat
      BY <1>1, UefiAssumption DEF FwTypeOK
    <3>3. RawUnits(efi_type) \in Nat BY RawUnitsType
    <3>4. SlackCalls \in Nat /\ SlackCalls * u <= PageUnits
      <4>1. SlackCalls = PageUnits \div u BY DEF SlackCalls
      <4> HIDE DEF u
      <4> QED BY <3>2, <4>1, SMT
    <3>5. ASSUME disturbed <= SlackCalls PROVE FALSE
      <4>1. RawUnits(efi_type) + PageUnits <= room + disturbed * u
        BY <3>1, <3>5, <1>1 DEF SlackLeft
      <4> HIDE DEF u, room
      <4>2. disturbed * u <= SlackCalls * u
        <5>1. PICK k \in Nat : SlackCalls = disturbed + k BY <3>2, <3>4, <3>5
        <5>2. SlackCalls * u = disturbed * u + k * u BY <3>2, <5>1, SMT
        <5>3. disturbed * u \in Nat /\ k * u \in Nat BY <3>2, <5>1
        <5> QED BY <5>2, <5>3
      <4>3. disturbed * u \in Nat /\ SlackCalls * u \in Nat BY <3>2, <3>4
      <4> QED BY <3>1, <3>2, <3>3, <3>4, <4>1, <4>2, <4>3
    <3> QED BY <3>2, <3>4, <3>5
  <2> QED BY <1>1, <1>2, <1>3, <2>1 DEF SlackLeft
<1> QED BY <1>5, <1>6, <1>7, <1>8, <1>9, <1>10 DEF UefiInv

\* mm_fixup goes back one entry only when it is past the first.
LEMMA FixupStepInv ==
    ASSUME UefiInv, FixupStep
    PROVE  UefiInv'
<1>1. FwTypeOK /\ FixupSane
  BY DEF UefiInv
<1>2. /\ phase = "fixup" /\ phase' \in {"fixup", "die", "bug", "oops"}
      /\ UNCHANGED <<entry_count, efi_type, map_buf, capture, protocol_allocations,
                     caller, live, disturbed>>
  BY Zenon DEF FixupStep, FixupOverlap, FixupAdvance, AfterOverlap, fwVars
<1>3. \/ fx' = fx
      \/ \E i, c : fx.j # fx.lo /\ fx' = [fx EXCEPT !.i = i, !.j = @ - 1, !.count = c]
      \/ \E i, c : fx' = [fx EXCEPT !.i = i, !.count = c]
      \/ fx' = [fx EXCEPT !.i = @ + 1]
      \/ fx' = [fx EXCEPT !.i = @ + 1, !.j = @ + 1]
  <2>1. CASE FixupOverlap
    <3>1. \/ fx' = fx
          \/ \E lhs, r : AfterOverlap(lhs, r)
      BY <2>1 DEF FixupOverlap
    <3>2. ASSUME NEW lhs, NEW r, AfterOverlap(lhs, r)
          PROVE  \/ \E i, c : fx.j # fx.lo /\ fx' = [fx EXCEPT !.i = i, !.j = @ - 1, !.count = c]
                 \/ \E i, c : fx' = [fx EXCEPT !.i = i, !.count = c]
      BY <3>2, Zenon DEF AfterOverlap
    <3> QED BY <3>1, <3>2, Zenon
  <2>2. CASE FixupAdvance
    BY <2>2, Zenon DEF FixupAdvance
  <2> QED BY <2>1, <2>2, Zenon DEF FixupStep
<1>4. /\ DOMAIN fx' = {"lo", "count", "cap", "flags", "i", "j"}
      /\ fx'.lo = 0 /\ fx'.j \in Nat
  <2>1. /\ DOMAIN fx = {"lo", "count", "cap", "flags", "i", "j"}
        /\ fx.lo = 0 /\ fx.j \in Nat
    BY <1>1 DEF FixupSane
  <2>2. CASE fx' = fx
    BY <2>1, <2>2
  <2>3. CASE \E i, c : fx.j # fx.lo /\ fx' = [fx EXCEPT !.i = i, !.j = @ - 1, !.count = c]
    <3>1. PICK i, c : fx.j # fx.lo /\ fx' = [fx EXCEPT !.i = i, !.j = @ - 1, !.count = c]
      BY <2>3, Zenon
    <3>2. fx'.lo = 0 /\ fx'.j = fx.j - 1 /\ DOMAIN fx' = DOMAIN fx
      BY <2>1, <3>1
    <3> QED BY <2>1, <3>1, <3>2
  <2>4. CASE \E i, c : fx' = [fx EXCEPT !.i = i, !.count = c]
    <3>1. PICK i, c : fx' = [fx EXCEPT !.i = i, !.count = c]
      BY <2>4, Zenon
    <3> QED BY <2>1, <3>1
  <2>5. CASE fx' = [fx EXCEPT !.i = @ + 1]
    BY <2>1, <2>5
  <2>6. CASE fx' = [fx EXCEPT !.i = @ + 1, !.j = @ + 1]
    BY <2>1, <2>6
  <2> QED BY <1>3, <2>2, <2>3, <2>4, <2>5, <2>6, Zenon
<1>5. FixupSane'
  BY <1>2, <1>4 DEF FixupSane
<1>6. FwTypeOK'
  BY <1>1, <1>2 DEF FwTypeOK, PhaseNames
<1>7. CallerKnown' /\ CaptureFresh' /\ SlackLeft' /\ AcquireProgresses'
  BY <1>2 DEF UefiInv, CallerKnown, CaptureFresh, SlackLeft, AcquireProgresses
<1> QED BY <1>5, <1>6, <1>7 DEF UefiInv

LEMMA EndFixupInv ==
    ASSUME UefiInv, EndFixup
    PROVE  UefiInv'
<1>1. FwTypeOK /\ FixupSane /\ CallerKnown
  BY DEF UefiInv
<1>2. /\ phase = "fixup" /\ phase' = caller.fn /\ fx' = NoFixup /\ entry_count' = fx.j + 1
      /\ UNCHANGED <<efi_type, map_buf, capture, protocol_allocations,
                     caller, live, disturbed>>
  BY DEF EndFixup, FixupDone, fwVars
<1>3. phase' \in {"foreach", "handoff", "release", "exit"}
  BY <1>1, <1>2 DEF FwTypeOK, CallerKnown
<1>4. FixupSane'
  BY <1>1, <1>2 DEF FixupSane, NoFixup
<1>5. FwTypeOK'
  BY <1>1, <1>2, <1>3 DEF FwTypeOK, PhaseNames
<1>6. CallerKnown' /\ CaptureFresh' /\ SlackLeft' /\ AcquireProgresses'
  BY <1>1, <1>2, <1>3 DEF UefiInv, CallerKnown, CaptureFresh, SlackLeft, AcquireProgresses
<1> QED BY <1>4, <1>5, <1>6 DEF UefiInv

LEMMA ForeachInv ==
    ASSUME UefiInv, mm_foreach_entry
    PROVE  UefiInv'
<1>1. /\ phase' = "idle" /\ caller' = Nobody
      /\ UNCHANGED <<entry_count, fx, efi_type, map_buf, capture, protocol_allocations,
                     live, disturbed>>
  BY DEF mm_foreach_entry, fwVars
<1>2. FwTypeOK'
  BY <1>1 DEF UefiInv, FwTypeOK, Nobody, PhaseNames
<1>3. FixupSane' /\ CallerKnown' /\ CaptureFresh' /\ SlackLeft' /\ AcquireProgresses'
  BY <1>1 DEF UefiInv, FixupSane, CallerKnown, CaptureFresh, SlackLeft,
              AcquireProgresses, Nobody
<1> QED BY <1>2, <1>3 DEF UefiInv

\* The reservation itself is the first call the slack pays for.
LEMMA HandoffInv ==
    ASSUME UefiInv, services_setup_uefi_handoff
    PROVE  UefiInv'
<1> DEFINE units == CaptureRoom(RawUnits(efi_type))
<1>1. FwTypeOK /\ efi_type \in [Page -> PageKinds] /\ phase = "handoff" /\ capture.pages = 0
  BY DEF UefiInv, FwTypeOK, CallerKnown, services_setup_uefi_handoff
<1>2. RawUnits(efi_type) \in Nat /\ PageUnits \in Nat /\ DescUnits \in Nat
  BY RawUnitsType, UefiAssumption
<1>3. units = RawUnits(efi_type) + PageUnits /\ units \in Nat
  BY <1>2 DEF CaptureRoom
<1> HIDE DEF units
<1>4. PICK r \in EnsureCapacity(capture, units) :
        /\ efi_type' = r.efi
        /\ capture' = [at |-> r.at, pages |-> r.pages, raw |-> <<>>]
        /\ phase' = IF r.ok THEN "idle" ELSE "panic"
  BY DEF services_setup_uefi_handoff, units
<1>5. /\ caller' = Nobody /\ disturbed' = 1
      /\ UNCHANGED <<entry_count, fx, map_buf, protocol_allocations, live>>
  BY DEF services_setup_uefi_handoff
<1>6. capture.at \in Page /\ capture.pages \in Nat
  BY <1>1 DEF FwTypeOK
<1>7. /\ r.efi \in [Page -> PageKinds]
      /\ r.at \in Page /\ r.pages \in Nat
      /\ r.pages * PageUnits >= units \/ ~r.ok
      /\ ~r.ok => r.pages = capture.pages
      /\ RawUnits(r.efi) <= RawUnits(efi_type) + 2 * DescUnits
  BY <1>1, <1>3, <1>4, <1>6, EnsureCapacityGrowth
<1>8. phase' \in {"idle", "panic"}
  BY <1>4
<1>9. FwTypeOK'
  BY <1>1, <1>4, <1>5, <1>7, <1>8 DEF FwTypeOK, Nobody, PhaseNames
<1>10. capture'.pages = r.pages /\ RawUnits(efi_type') \in Nat
  BY <1>4, RawUnitsType
<1>11. capture'.pages # 0 =>
         RawUnits(efi_type') + PageUnits <= capture'.pages * PageUnits + 1 * (2 * DescUnits)
  <2> SUFFICES ASSUME capture'.pages # 0
               PROVE  RawUnits(efi_type') + PageUnits
                        <= capture'.pages * PageUnits + 1 * (2 * DescUnits)
    OBVIOUS
  <2> DEFINE room == capture'.pages * PageUnits
  <2>1. room >= RawUnits(efi_type) + PageUnits
    BY <1>1, <1>3, <1>7, <1>10
  <2>2. room \in Nat
    BY <1>2, <1>7, <1>10
  <2>3. RawUnits(efi_type') <= RawUnits(efi_type) + 2 * DescUnits
    BY <1>4, <1>7
  <2> HIDE DEF room
  <2>4. RawUnits(efi_type') + PageUnits <= room + 1 * (2 * DescUnits)
    BY <1>2, <1>10, <2>1, <2>2, <2>3
  <2> QED BY <2>4 DEF room
<1>12. SlackLeft'
  BY <1>5, <1>8, <1>11 DEF SlackLeft
<1>13. FixupSane' /\ CallerKnown' /\ CaptureFresh' /\ AcquireProgresses'
  BY <1>5, <1>8 DEF UefiInv, FixupSane, CallerKnown, CaptureFresh, AcquireProgresses, Nobody
<1> QED BY <1>9, <1>12, <1>13 DEF UefiInv

\* The map is not empty, so a release that goes on was given room for it and
\* had fetched the map for good.
LEMMA ReleaseInv ==
    ASSUME UefiInv, services_release_resources
    PROVE  UefiInv'
<1>1. FwTypeOK /\ FixupSane /\ CallerKnown /\ CaptureFresh /\ phase = "release"
      /\ entry_count \in Nat \ {0} /\ caller.fn = "release"
  BY DEF UefiInv, FixupSane, CallerKnown, services_release_resources
<1>2. UNCHANGED <<entry_count, efi_type, map_buf, capture, protocol_allocations,
                  live, disturbed>>
  BY DEF services_release_resources, fwVars
<1>3. CASE /\ caller.capacity < entry_count
           /\ phase' = "idle" /\ caller' = Nobody /\ UNCHANGED fx
  <2>1. FwTypeOK'
    BY <1>1, <1>2, <1>3 DEF FwTypeOK, Nobody, PhaseNames
  <2>2. FixupSane' /\ CallerKnown' /\ CaptureFresh' /\ SlackLeft' /\ AcquireProgresses'
    BY <1>1, <1>2, <1>3 DEF UefiInv, FixupSane, CallerKnown, CaptureFresh, SlackLeft,
                            AcquireProgresses, Nobody
  <2> QED BY <2>1, <2>2 DEF UefiInv
<1>4. CASE /\ caller.capacity >= entry_count
           /\ caller' = [caller EXCEPT !.fn = "exit"]
           /\ phase' = "fixup"
           /\ BeginFixup(entries, entry_count, 0, map_buf.pages * PageUnits,
                         {"NO_PRESERVE_LOADER_RECLAIM"})
  <2>1. caller.capacity # 0 /\ caller.final
    BY <1>1, <1>4 DEF CallerKnown
  <2>2. /\ caller' \in [fn : {"none", "foreach", "handoff", "release", "exit"},
                        capacity : ReleaseSizes \cup {0}, final : BOOLEAN, grown : Nat]
        /\ caller'.fn = "exit" /\ caller'.final
    BY <1>1, <1>4, <2>1 DEF FwTypeOK
  <2>3. /\ DOMAIN fx' = {"lo", "count", "cap", "flags", "i", "j"}
        /\ fx'.lo = 0 /\ fx'.j \in {0, entry_count - 1}
    <3>1. \/ fx' = [NoFixup EXCEPT !.lo = 0, !.count = entry_count, !.i = entry_count,
                                  !.j = entry_count - 1]
          \/ \E cap, flags : fx' = [lo |-> 0, count |-> entry_count, cap |-> cap,
                                    flags |-> flags, i |-> 0 + 1, j |-> 0]
      BY <1>4 DEF BeginFixup
    <3>2. CASE fx' = [NoFixup EXCEPT !.lo = 0, !.count = entry_count, !.i = entry_count,
                                     !.j = entry_count - 1]
      <4>1. fx' = [lo |-> 0, count |-> entry_count, cap |-> 0, flags |-> {},
                   i |-> entry_count, j |-> entry_count - 1]
        BY <3>2, Zenon DEF NoFixup
      <4> QED BY <4>1
    <3>3. CASE \E cap, flags : fx' = [lo |-> 0, count |-> entry_count, cap |-> cap,
                                      flags |-> flags, i |-> 0 + 1, j |-> 0]
      BY <3>3
    <3> QED BY <3>1, <3>2, <3>3
  <2>4. FixupSane'
    BY <1>1, <1>4, <2>3 DEF FixupSane
  <2>5. FwTypeOK'
    BY <1>1, <1>2, <1>4, <2>2 DEF FwTypeOK, PhaseNames
  <2>6. CallerKnown' /\ CaptureFresh' /\ SlackLeft' /\ AcquireProgresses'
    BY <1>1, <1>2, <1>4, <2>1, <2>2
       DEF UefiInv, CallerKnown, CaptureFresh, SlackLeft, AcquireProgresses
  <2> QED BY <2>4, <2>5, <2>6 DEF UefiInv
<1> QED BY <1>3, <1>4 DEF services_release_resources

LEMMA ExitInv ==
    ASSUME UefiInv, ExitBootServices
    PROVE  UefiInv'
<1>1. /\ phase = "exit" /\ phase' = "offline" /\ caller' = Nobody
      /\ UNCHANGED <<entry_count, fx, efi_type, map_buf, capture, protocol_allocations,
                     live, disturbed>>
  BY DEF ExitBootServices, fwVars
<1>2. FwTypeOK'
  BY <1>1 DEF UefiInv, FwTypeOK, Nobody, PhaseNames
<1>3. FixupSane' /\ CallerKnown' /\ CaptureFresh' /\ SlackLeft' /\ AcquireProgresses'
  BY <1>1 DEF UefiInv, FixupSane, CallerKnown, CaptureFresh, SlackLeft,
              AcquireProgresses, Nobody
<1> QED BY <1>2, <1>3 DEF UefiInv

LEMMA UefiNextInv == UefiInv /\ [UefiNext]_uefiVars => UefiInv'
<1> SUFFICES ASSUME UefiInv, [UefiNext]_uefiVars PROVE UefiInv'
  OBVIOUS
<1>1. ASSUME NEW n \in Sizes, NEW limit \in Limits, NEW t \in ClientTypes,
             ms_allocate_pages(n, limit, t)
      PROVE  UefiInv'
  <2>1. Available(efi_type, n, limit) \in SUBSET Page BY DEF Available
  <2> QED BY <1>1, <2>1, AllocatePagesInv DEF ms_allocate_pages
<1>2. ASSUME NEW n \in Sizes, NEW p \in Places, NEW t \in ClientTypes,
             ms_allocate_pages_at(p, n, t)
      PROVE  UefiInv'
  <2>1. {p} \cap Available(efi_type, n, Pages) \in SUBSET Page BY DEF Available
  <2> QED BY <1>2, <2>1, AllocatePagesInv DEF ms_allocate_pages_at
<1>3. CASE \E a \in live : ms_free_pages(a)
  BY <1>3, FreePagesInv
<1>4. CASE FetchForForeach
  BY <1>4, FetchInv, Zenon DEF FetchForForeach
<1>5. CASE capture.pages = 0 /\ Fetch("handoff", 0, FALSE)
  BY <1>5, FetchInv, Zenon
<1>6. CASE \E n \in ReleaseSizes : Fetch("release", n, n # 0)
  <2>1. PICK n \in ReleaseSizes : Fetch("release", n, n # 0) BY <1>6
  <2>2. (n # 0) \in BOOLEAN OBVIOUS
  <2> QED BY <2>1, <2>2, FetchInv, Zenon
<1>7. CASE GrowBuffer
  BY <1>7, GrowBufferInv
<1>8. CASE FillBuffer
  BY <1>8, FillBufferInv
<1>9. CASE FixupStep
  BY <1>9, FixupStepInv
<1>10. CASE EndFixup
  BY <1>10, EndFixupInv
<1>11. CASE mm_foreach_entry
  BY <1>11, ForeachInv
<1>12. CASE services_setup_uefi_handoff
  BY <1>12, HandoffInv
<1>13. CASE services_release_resources
  BY <1>13, ReleaseInv
<1>14. CASE ExitBootServices
  BY <1>14, ExitInv
<1>15. CASE UNCHANGED uefiVars
  BY <1>15 DEF uefiVars, mapVars, fwVars, UefiInv, FwTypeOK, FixupSane, CallerKnown,
               CaptureFresh, SlackLeft, AcquireProgresses
<1> QED BY <1>1, <1>2, <1>3, <1>4, <1>5, <1>6, <1>7, <1>8, <1>9, <1>10, <1>11, <1>12,
           <1>13, <1>14, <1>15, Zenon DEF UefiNext

\* The inductive invariant of the UEFI memory services.
THEOREM UefiAlwaysInv == UefiSpec => []UefiInv
<1> QED BY UefiInitInv, UefiNextInv, PTL DEF UefiSpec

\* On every machine, and whatever the firmware's allocator answers: each round of
\* acquire_efi_memory_map's loop that finds its buffer too small leaves it at
\* least one page larger.
THEOREM UefiAcquireProgresses == UefiSpec => []AcquireProgresses
<1>1. UefiInv => AcquireProgresses BY DEF UefiInv
<1> QED BY <1>1, UefiAlwaysInv, PTL

\* The raw map the kernel gets is the firmware's map at ExitBootServices, and
\* capture_raw_efi_memory_map's BUG_ON cannot fire before the firmware's
\* allocator was called PAGE_SIZE / (2 * descriptor size) times since the
\* capture buffer was reserved, counting the reservation.
THEOREM UefiCaptureIsFinal == UefiSpec => []CaptureIsFinal
<1>1. UefiInv => CaptureIsFinal
  BY DEF UefiInv, CaptureFresh, SlackLeft, CaptureIsFinal
<1> QED BY <1>1, UefiAlwaysInv, PTL
=============================================================================

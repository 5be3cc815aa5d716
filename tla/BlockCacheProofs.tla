--------------------------- MODULE BlockCacheProofs --------------------------
(***************************************************************************)
(* What the block cache promises, proved for every set of devices, every   *)
(* block size, window size and sequence of calls; and that it implements   *)
(* the safety part of BlockDevice step by step: a client cannot tell the   *)
(* cache from the device.                                                  *)
(***************************************************************************)
EXTENDS BlockCacheRefinement, FiniteSetTheorems, TLAPS

-----------------------------------------------------------------------------
(* Arithmetic                                                              *)

\* Shifting and masking by the block size split an offset exactly.
LEMMA Division ==
    ASSUME NEW a \in Nat, NEW b \in Nat \ {0}
    PROVE  /\ a \div b \in Nat /\ a % b \in Nat
           /\ (a \div b) * b + (a % b) = a
           /\ a % b < b
  OBVIOUS

LEMMA Products ==
    ASSUME NEW a \in Nat, NEW b \in Nat, NEW s \in Nat
    PROVE  /\ a * s \in Nat
           /\ (a + b) * s = a * s + b * s
           /\ a <= b => a * s <= b * s
           /\ a <= b => (b - a) * s = b * s - a * s
           /\ a < b => a * s + s <= b * s
<1>1. a * s \in Nat /\ (a + b) * s = a * s + b * s
  OBVIOUS
<1>2. ASSUME a <= b
      PROVE  a * s <= b * s /\ (b - a) * s = b * s - a * s
  <2> DEFINE d == b - a
  <2>1. d \in Nat /\ b = a + d
    BY <1>2
  <2> HIDE DEF d
  <2>2. b * s = a * s + d * s /\ d * s \in Nat
    BY <2>1
  <2>3. a * s <= b * s /\ d * s = b * s - a * s
    <3> DEFINE x == a * s
               y == d * s
               z == b * s
    <3>1. x \in Nat /\ y \in Nat /\ z = x + y
      BY <1>1, <2>2
    <3> HIDE DEF x, y, z
    <3>2. x <= z /\ y = z - x
      BY <3>1
    <3> QED BY <3>2 DEF x, y, z
  <2> QED BY <2>3 DEF d
<1>3. ASSUME a < b PROVE a * s + s <= b * s
  <2> DEFINE d == b - a - 1
  <2>1. d \in Nat /\ b = a + 1 + d
    BY <1>3
  <2> HIDE DEF d
  <2>2. b * s = a * s + s + d * s /\ d * s \in Nat
    BY <2>1
  <2> DEFINE x == a * s + s
             y == d * s
             z == b * s
  <2>3. x \in Nat /\ y \in Nat /\ z = x + y
    BY <1>1, <2>2
  <2> HIDE DEF x, y, z
  <2>4. x <= z
    BY <2>3
  <2> QED BY <2>4 DEF x, z
<1> QED BY <1>1, <1>2, <1>3

\* The smaller of two numbers.
LEMMA MinBounds ==
    ASSUME NEW a \in Nat, NEW b \in Nat
    PROVE  /\ MinOf(a, b) \in Nat
           /\ MinOf(a, b) <= a /\ MinOf(a, b) <= b
           /\ MinOf(a, b) = a \/ MinOf(a, b) = b
  BY DEF MinOf

\* byte_offsets_to_block_coords covers the range: the blocks that are counted
\* hold its bytes, and a range counted as one block lies inside that block.
LEMMA BlockCoords ==
    ASSUME NEW c, c.block_size \in Nat \ {0}, NEW off \in Nat, NEW cnt \in Nat \ {0}
    PROVE  /\ BaseBlock(c, off) \in Nat
           /\ ByteOff(c, off) \in Nat
           /\ ByteOff(c, off) < c.block_size
           /\ BaseBlock(c, off) * c.block_size + ByteOff(c, off) = off
           /\ BlockCount(c, off, cnt) \in Nat
           /\ ByteOff(c, off) + cnt <= BlockCount(c, off, cnt) * c.block_size
           /\ BlockCount(c, off, cnt) = 1 => ByteOff(c, off) + cnt <= c.block_size
<1> DEFINE s == c.block_size
           x == off % s
           up == x + cnt + s - 1
           n == up \div s
<1>1. s \in Nat \ {0}
  OBVIOUS
<1>2. /\ off \div s \in Nat /\ x \in Nat /\ x < s
      /\ (off \div s) * s + x = off
  BY <1>1, Division, Zenon
<1>3. up \in Nat
  <2> HIDE DEF x, s
  <2> QED BY <1>1, <1>2
<1>4. n \in Nat /\ up % s \in Nat /\ n * s + (up % s) = up /\ up % s < s
  <2> HIDE DEF up, s
  <2> QED BY <1>1, <1>3, Division
<1>5. x + cnt <= n * s
  <2> DEFINE p == n * s
             r == up % s
  <2>1. p \in Nat /\ r \in Nat /\ p + r = x + cnt + s - 1 /\ r < s
    BY <1>1, <1>4
  <2> HIDE DEF p, r, x, s
  <2>2. x + cnt <= p
    BY <1>1, <1>2, <2>1
  <2> QED BY <2>2 DEF p
<1>6. n = 1 => x + cnt <= s
  BY <1>5, <1>1
<1> HIDE DEF n, up, x
<1>7. BaseBlock(c, off) = off \div s /\ ByteOff(c, off) = x /\ BlockCount(c, off, cnt) = n
  BY DEF BaseBlock, ByteOff, BlockCount, x, up, n
<1> QED
  BY <1>2, <1>4, <1>5, <1>6, <1>7

\* A copy of block_cache_try_complete_req is possible: the window from cbase on
\* holds block 'base' of the request, whose 'btc' bytes to go fit its blocks.
Copies(s, cbase, cap, base, boff, bcount, btc, blocks, bytes) ==
    /\ s \in Nat \ {0} /\ cbase \in Nat /\ cap \in Nat
    /\ base \in Nat /\ boff \in Nat /\ bcount \in Nat /\ btc \in Nat
    /\ base >= cbase /\ base - cbase < cap
    /\ boff + btc <= bcount * s
    /\ boff = 0 \/ boff + btc <= s
    /\ blocks = MinOf(bcount, cap - (base - cbase))
    /\ bytes = MinOf(blocks * s, btc)

\* The bytes copied lie inside the window and are the next ones of the request;
\* a copy that is not the last one leaves the request on a block boundary.
LEMMA CopyRange ==
    ASSUME NEW s, NEW cbase, NEW cap, NEW base, NEW boff, NEW bcount, NEW btc,
           NEW blocks, NEW bytes,
           Copies(s, cbase, cap, base, boff, bcount, btc, blocks, bytes)
    PROVE  /\ \A i \in 0..bytes-1 :
                /\ (base - cbase) * s + boff + i \in 0..cap*s-1
                /\ cbase * s + ((base - cbase) * s + boff + i) = base * s + boff + i
           /\ bytes # btc => /\ boff = 0
                             /\ (base + blocks) * s = base * s + bytes
                             /\ btc - bytes <= (bcount - blocks) * s
<1> USE DEF Copies
<1> DEFINE d == base - cbase
           span == cap - d
<1>1. d \in Nat /\ base = cbase + d /\ span \in Nat /\ span > 0 /\ cap = d + span
  OBVIOUS
<1>2. /\ blocks \in Nat /\ blocks <= bcount /\ blocks <= span
      /\ blocks = bcount \/ blocks = span
  BY <1>1, MinBounds
<1> DEFINE W == blocks * s
           D == d * s
           C == cbase * s
           B == base * s
           Cap == cap * s
           N == bcount * s
           Rest == (bcount - blocks) * s
           Nxt == (base + blocks) * s
<1>3. W \in Nat /\ D \in Nat /\ C \in Nat /\ N \in Nat /\ B \in Nat /\ Cap \in Nat
  BY <1>1, <1>2, Products
<1>4. bytes \in Nat /\ bytes <= W /\ bytes <= btc /\ (bytes = W \/ bytes = btc)
  BY <1>3, MinBounds
<1>5. B = C + D
  BY <1>1, Products
<1>6. D + W <= Cap
  <2>1. Cap = D + span * s
    BY <1>1, Products
  <2>2. W <= span * s /\ span * s \in Nat
    BY <1>1, <1>2, Products
  <2> DEFINE S == span * s
  <2>3. S \in Nat /\ Cap = D + S /\ W <= S
    BY <2>1, <2>2
  <2> HIDE DEF S, W, D, Cap, d, span
  <2> QED BY <1>3, <2>3
<1>7. D + s <= Cap
  BY <1>1, Products
<1>8. Nxt = B + W
  BY <1>2, Products
<1>9. Rest = N - W
  BY <1>2, Products
<1> HIDE DEF W, D, C, B, Cap, N, Rest, Nxt, d, span
<1>10. ASSUME NEW i \in 0..bytes-1
       PROVE  D + boff + i \in 0..Cap-1 /\ C + (D + boff + i) = B + boff + i
  <2>1. boff = 0 \/ boff + i < s
    BY <1>4
  <2>2. D + boff + i < Cap
    BY <2>1, <1>3, <1>4, <1>6, <1>7
  <2> QED BY <2>2, <1>3, <1>5
<1>11. ASSUME bytes # btc
       PROVE  boff = 0 /\ Nxt = B + bytes /\ btc - bytes <= Rest
  <2>1. bytes = W /\ W < btc
    BY <1>11, <1>3, <1>4
  <2>2. boff = 0
    <3>1. SUFFICES ASSUME boff + btc <= s PROVE FALSE
      OBVIOUS
    <3>2. W < s /\ blocks # 0
      <4>1. W < s
        BY <2>1, <3>1, <1>3
      <4>2. bcount # 0
        <5>1. N > 0
          BY <2>1, <1>3 DEF N
        <5> QED BY <5>1 DEF N
      <4> QED BY <4>1, <4>2, <1>1, <1>2
    <3>3. s <= W
      <4>1. 0 * s + s <= blocks * s
        BY <3>2, <1>2, Products
      <4> QED BY <4>1 DEF W
    <3> QED BY <3>2, <3>3, <1>3
  <2>3. btc - bytes <= Rest
    <3>1. btc <= N
      BY <2>2 DEF N
    <3> QED BY <3>1, <2>1, <1>3, <1>9
  <2> QED BY <2>1, <2>2, <2>3, <1>8
<1> QED
  BY <1>10, <1>11 DEF W, D, C, B, Cap, N, Rest, Nxt, d

-----------------------------------------------------------------------------
(* The inductive invariant                                                 *)

WindowBytes(c) == c.cache_block_cap * c.block_size
WindowStart(c) == c.cache_base * c.block_size

\* The structure describes the device it fronts, and the buffer has room for
\* the whole window.
Geometry(c) ==
    /\ c.user_ptr \in Devices
    /\ c.block_size = BlockSizeOf[c.user_ptr]
    /\ WindowBytes(c) <= BufBytes

\* Unless BC_EMPTY is set, the window holds the blocks from cache_base on.
Coherent(c, buf) ==
    ~c.empty =>
      \A p \in 0..WindowBytes(c)-1 : buf[p] = <<c.user_ptr, WindowStart(c) + p>>

\* The references that are out.
Held(rf) == {id \in RefIds : rf[id] # NoRef}

\* nocopy_refs counts them.
Counted(c, rf) == c.nocopy_refs = Cardinality(Held(rf))

\* A reference lies inside the current window.
InWindow(c, r) ==
    /\ ~c.empty
    /\ WindowStart(c) + r.pos = r.start
    /\ r.pos + r.count <= WindowBytes(c)

RefsInWindow(c, rf) == \A id \in Held(rf) : InWindow(c, rf[id])

\* What the loop has done of request q into buffer d, and what the request's
\* block coordinates say is left to do.
Progress(c, q, d) ==
    LET copied == q.count - q.bytes_to_copy IN
    /\ q.bytes_to_copy <= q.count
    /\ q.count <= MaxBytes
    /\ Exact(c, q.start, q.count) =>
         /\ q.base_block * c.block_size + q.byte_off = q.start + copied
         /\ q.byte_off + q.bytes_to_copy <= q.block_count * c.block_size
         /\ \/ q.byte_off = 0
            \/ q.byte_off + q.bytes_to_copy <= c.block_size
         /\ \A k \in 0..copied-1 : d[k] = <<c.user_ptr, q.start + k>>

\* A direct read has copied nothing yet and covers whole blocks.
Direct(c, q) ==
    /\ q.bytes_to_copy = q.count
    /\ q.count = q.block_count * c.block_size
    /\ q.start = q.base_block * c.block_size

Running == pc \in {"direct", "try", "refill"}

Inv ==
    /\ TypeOK
    /\ pc # "released" => Geometry(bc) /\ Coherent(bc, cache_buf)
    /\ pc = "released" => Held(refs) = {}
    /\ Counted(bc, refs)
    /\ RefsInWindow(bc, refs)
    /\ Running => Progress(bc, req, dst)
    /\ pc = "direct" => Direct(bc, req)
    /\ ReadDelivers

-----------------------------------------------------------------------------
(* Facts about the operations                                              *)

\* With no reference counted, none is out.
LEMMA NoneHeld ==
    ASSUME NEW c, NEW rf, Counted(c, rf), c.nocopy_refs = 0
    PROVE  Held(rf) = {}
<1>1. IsFiniteSet(Held(rf))
  BY RefIdsAssumption, FS_Subset DEF Held
<1> QED BY <1>1, FS_EmptySet, Zenon DEF Counted

\* The structure block_cache_init leaves behind.
LEMMA FreshCacheInv ==
    ASSUME NEW d \in Devices, NEW buf, NEW rf, Held(rf) = {}
    PROVE  /\ FreshCache(d) \in CacheType
           /\ Geometry(FreshCache(d))
           /\ Coherent(FreshCache(d), buf)
           /\ Counted(FreshCache(d), rf)
           /\ RefsInWindow(FreshCache(d), rf)
<1> DEFINE s == BlockSizeOf[d]
           n == BufBytes \div s
<1>1. s \in Nat \ {0} /\ BufBytes \in Nat
  BY GeometryAssumption
<1>2. n \in Nat /\ n * s + (BufBytes % s) = BufBytes /\ BufBytes % s \in Nat
  <2> HIDE DEF s
  <2> QED BY <1>1, Division
<1>3. n * s <= BufBytes
  <2> DEFINE p == n * s
             m == BufBytes % s
  <2>1. p \in Nat /\ m \in Nat /\ p + m = BufBytes
    BY <1>1, <1>2
  <2> HIDE DEF p, m
  <2>2. p <= BufBytes
    BY <2>1, <1>1
  <2> QED BY <2>2 DEF p
<1> HIDE DEF s, n
<1>4. /\ FreshCache(d).user_ptr = d /\ FreshCache(d).block_size = s
      /\ FreshCache(d).cache_block_cap = n /\ FreshCache(d).nocopy_refs = 0
      /\ FreshCache(d).empty = TRUE /\ FreshCache(d).cache_base = 0
      /\ FreshCache(d) = [user_ptr |-> d, cache_base |-> 0, block_size |-> s,
                          cache_block_cap |-> n, nocopy_refs |-> 0, empty |-> TRUE]
  BY DEF FreshCache, s, n
<1>5. FreshCache(d) \in CacheType
  BY <1>1, <1>2, <1>4 DEF CacheType
<1>6. Geometry(FreshCache(d))
  BY <1>3, <1>4 DEF Geometry, WindowBytes, s
<1>7. Coherent(FreshCache(d), buf)
  BY <1>4 DEF Coherent
<1>8. Counted(FreshCache(d), rf)
  BY <1>4, FS_EmptySet DEF Counted
<1>9. RefsInWindow(FreshCache(d), rf)
  BY DEF RefsInWindow
<1> QED BY <1>5, <1>6, <1>7, <1>8, <1>9

\* Only the window and BC_EMPTY differ, if anything.
SameBut(c, d) ==
    /\ d.user_ptr = c.user_ptr
    /\ d.block_size = c.block_size
    /\ d.cache_block_cap = c.cache_block_cap
    /\ d.nocopy_refs = c.nocopy_refs

\* The types of the cache and of the request, where the buffers may hold bytes
\* from V: of the devices, or of whoever else borrows the same buffer.
Typed(V) ==
    /\ bc \in CacheType
    /\ cache_buf \in [0..BufBytes-1 -> V]
    /\ req \in ReqType
    /\ dst \in [0..MaxBytes-1 -> V]

LEMMA TypeOKTyped == TypeOK => Typed(Bytes)
  BY DEF TypeOK, Typed

\* A device transfer stores bytes of the device, and a whole one fills the
\* window.
LEMMA TransferredBytes ==
    ASSUME NEW V, Bytes \subseteq V, Typed(V), Geometry(bc), NEW base \in Nat,
           NEW n \in 0..bc.cache_block_cap
    PROVE  /\ Transferred(bc, base, n) \in [0..BufBytes-1 -> V]
           /\ \A p \in 0..WindowBytes(bc)-1 :
                n = bc.cache_block_cap =>
                  Transferred(bc, base, n)[p] = <<bc.user_ptr, base * bc.block_size + p>>
<1> DEFINE s == bc.block_size
           S == base * s
           T == bc.cache_block_cap * s
<1>1. s \in Nat /\ S \in Nat /\ T \in Nat /\ bc.cache_block_cap \in Nat
  BY Products DEF Typed, CacheType
<1>2. T <= BufBytes /\ BufBytes \in Nat /\ bc.user_ptr \in Devices
  BY GeometryAssumption DEF Geometry, WindowBytes
<1>3. ASSUME NEW p \in 0..BufBytes-1
      PROVE  <<bc.user_ptr, S + p>> \in V /\ cache_buf[p] \in V
  <2>1. S + p \in Nat
    <3> HIDE DEF S
    <3> QED BY <1>1, <1>2
  <2> QED BY <2>1, <1>2 DEF Bytes, Typed
<1> DEFINE full == n * s
<1>4. Transferred(bc, base, n) =
        [p \in 0..BufBytes-1 |->
           IF p < full THEN <<bc.user_ptr, S + p>> ELSE cache_buf[p]]
  BY DEF Transferred
<1>6. n = bc.cache_block_cap => full = T
  OBVIOUS
<1>7. WindowBytes(bc) = T
  BY DEF WindowBytes
<1> HIDE DEF S, T, full
<1>8. ASSUME NEW p \in 0..T-1, n = bc.cache_block_cap
      PROVE  Transferred(bc, base, n)[p] = <<bc.user_ptr, S + p>>
  <2>1. p \in 0..BufBytes-1 /\ p < full
    BY <1>1, <1>2, <1>6, <1>8
  <2> QED BY <2>1, <1>4
<1> QED
  BY <1>3, <1>4, <1>7, <1>8, Zenon DEF S

\* block_cache_refill keeps the structure, the window and the references in
\* step, whatever it returns.
LEMMA RefillKeeps ==
    ASSUME NEW V, Bytes \subseteq V, Typed(V),
           Geometry(bc), Coherent(bc, cache_buf), Counted(bc, refs),
           RefsInWindow(bc, refs), NEW base \in Nat, NEW r \in RefillResults(base)
    PROVE  /\ r.out \in {"true", "false", "bug"}
           /\ r.bc \in CacheType
           /\ r.buf \in [0..BufBytes-1 -> V]
           /\ SameBut(bc, r.bc)
           /\ Geometry(r.bc)
           /\ Coherent(r.bc, r.buf)
           /\ Counted(r.bc, refs)
           /\ RefsInWindow(r.bc, refs)
           /\ r.out = "true" => ~r.bc.empty /\ r.bc.cache_base = base
           /\ r.out = "bug" => bc.nocopy_refs # 0
<1> DEFINE cap == bc.cache_block_cap
           moved == [bc EXCEPT !.empty = FALSE, !.cache_base = base]
           lost == [bc EXCEPT !.empty = TRUE]
<1>0. bc \in CacheType /\ cap \in Nat /\ cache_buf \in [0..BufBytes-1 -> V]
  BY DEF Typed, CacheType
<1>1. CASE r.bc = bc /\ r.buf = cache_buf
           /\ \/ r.out = "true" /\ ~bc.empty /\ bc.cache_base = base
              \/ r.out = "bug" /\ bc.nocopy_refs # 0
  BY <1>0, <1>1 DEF SameBut
<1>2. CASE /\ bc.nocopy_refs = 0
           /\ r.out = "true" /\ r.bc = moved /\ r.buf = Transferred(bc, base, cap)
  <2>1. /\ moved \in CacheType /\ SameBut(bc, moved)
        /\ moved.empty = FALSE /\ moved.cache_base = base
    BY <1>0, Zenon DEF CacheType, SameBut
  <2>2. Geometry(moved)
    BY <2>1 DEF Geometry, SameBut, WindowBytes
  <2>3. cap \in 0..cap
    BY <1>0
  <2>4. Coherent(moved, r.buf)
    BY <1>2, <2>1, <2>3, TransferredBytes DEF Coherent, SameBut, WindowBytes, WindowStart
  <2>5. Held(refs) = {}
    BY <1>2, NoneHeld
  <2>6. Counted(moved, refs)
    BY <2>1 DEF Counted, SameBut
  <2>7. RefsInWindow(moved, refs)
    BY <2>5 DEF RefsInWindow
  <2>8. r.buf \in [0..BufBytes-1 -> V]
    BY <1>2, <2>3, TransferredBytes
  <2> HIDE DEF moved, cap
  <2> QED BY <1>2, <2>1, <2>2, <2>4, <2>6, <2>7, <2>8
<1>3. CASE /\ bc.nocopy_refs = 0
           /\ r.out = "false" /\ r.bc = lost
           /\ \E n \in 0..cap : r.buf = Transferred(bc, base, n)
  <2>1. lost \in CacheType /\ SameBut(bc, lost) /\ lost.empty = TRUE
    BY <1>0, Zenon DEF CacheType, SameBut
  <2>2. Geometry(lost)
    BY <2>1 DEF Geometry, SameBut, WindowBytes
  <2>4. Coherent(lost, r.buf)
    BY <2>1 DEF Coherent
  <2>5. Held(refs) = {}
    BY <1>3, NoneHeld
  <2>6. Counted(lost, refs)
    BY <2>1 DEF Counted, SameBut
  <2>7. RefsInWindow(lost, refs)
    BY <2>5 DEF RefsInWindow
  <2>8. r.buf \in [0..BufBytes-1 -> V]
    BY <1>3, TransferredBytes
  <2> HIDE DEF lost, cap
  <2> QED BY <1>3, <2>1, <2>2, <2>4, <2>6, <2>7, <2>8
<1>4. CASE bc.cache_base = base /\ ~bc.empty
  BY <1>1, <1>4 DEF RefillResults
<1>5. CASE ~(bc.cache_base = base /\ ~bc.empty) /\ bc.nocopy_refs # 0
  BY <1>1, <1>5 DEF RefillResults, Pinned
<1>6. CASE ~(bc.cache_base = base /\ ~bc.empty) /\ bc.nocopy_refs = 0
  <2>1. \/ r = [out |-> "true", bc |-> moved, buf |-> Transferred(bc, base, cap)]
        \/ \E n \in 0..cap :
             r = [out |-> "false", bc |-> lost, buf |-> Transferred(bc, base, n)]
    BY <1>6, Zenon DEF RefillResults, Pinned, AfterFailedRefill
  <2> HIDE DEF moved, lost, cap
  <2> QED BY <1>2, <1>3, <1>6, <2>1
<1> QED
  BY <1>4, <1>5, <1>6

LEMMA BlockSizePositive ==
    ASSUME NEW c \in CacheType, Geometry(c)
    PROVE  c.block_size \in Nat \ {0}
  BY GeometryAssumption DEF Geometry

\* A byte request starts with its block coordinates in step with its range.
LEMMA ByteReqStarts ==
    ASSUME NEW c \in CacheType, Geometry(c),
           NEW off \in Nat, NEW cnt \in 1..MaxBytes, NEW d
    PROVE  ByteReq(c, off, cnt) \in ReqType /\ Progress(c, ByteReq(c, off, cnt), d)
<1> DEFINE q == ByteReq(c, off, cnt)
           s == c.block_size
           b == BaseBlock(c, off)
           o == ByteOff(c, off)
           n == BlockCount(c, off, cnt)
<1>1. s \in Nat \ {0} /\ cnt \in Nat \ {0} /\ MaxBytes \in Nat /\ cnt <= MaxBytes
  BY BlockSizePositive, GeometryAssumption
<1>2. /\ b \in Nat /\ o \in Nat /\ n \in Nat /\ b * s + o = off
      /\ o + cnt <= n * s /\ (n = 1 => o + cnt <= s)
  BY <1>1, BlockCoords, Zenon
<1>3. /\ q = [start |-> off, count |-> cnt, base_block |-> b, byte_off |-> o,
              block_count |-> n, bytes_to_copy |-> cnt]
  BY DEF ByteReq
<1>4. Exact(c, off, cnt) => o = 0 \/ n = 1
  BY DEF Exact
<1>5. o = 0 \/ n = 1 => o = 0 \/ o + cnt <= s
  BY <1>2
<1>6. q \in ReqType
  <2> HIDE DEF b, o, n
  <2> QED BY <1>1, <1>2, <1>3 DEF ReqType
<1>7. q.count - q.bytes_to_copy = 0
  BY <1>1, <1>3
<1>8. off + 0 = off /\ 0..0-1 = {}
  OBVIOUS
<1> HIDE DEF q, b, o, n, s
<1>9. Progress(c, q, d)
  <2>1. q.start = off /\ q.count = cnt /\ q.base_block = b /\ q.byte_off = o
        /\ q.block_count = n /\ q.bytes_to_copy = cnt
    BY <1>3
  <2> QED BY <1>1, <1>2, <1>4, <1>5, <1>7, <1>8, <2>1 DEF Progress, s
<1> QED BY <1>6, <1>9 DEF q

\* So does a block request, which is on a block boundary by construction.
LEMMA BlockReqStarts ==
    ASSUME NEW c \in CacheType, Geometry(c),
           NEW block \in Nat, NEW n \in Nat, n * c.block_size <= MaxBytes, NEW d
    PROVE  /\ BlockReq(c, block, n) \in ReqType
           /\ Progress(c, BlockReq(c, block, n), d)
           /\ Direct(c, BlockReq(c, block, n))
<1> DEFINE q == BlockReq(c, block, n)
           s == c.block_size
           from == block * s
           len == n * s
<1>1. s \in Nat \ {0} /\ MaxBytes \in Nat
  BY BlockSizePositive, GeometryAssumption
<1>2. from \in Nat /\ len \in Nat /\ len <= MaxBytes
  BY <1>1, Products
<1>3. q = [start |-> from, count |-> len, base_block |-> block, byte_off |-> 0,
           block_count |-> n, bytes_to_copy |-> len]
  BY DEF BlockReq
<1>4. q \in ReqType
  <2> HIDE DEF from, len
  <2> QED BY <1>2, <1>3 DEF ReqType
<1>5. q.start = from /\ q.count = len /\ q.base_block = block /\ q.byte_off = 0
      /\ q.block_count = n /\ q.bytes_to_copy = len
  BY <1>3
<1>6. from + 0 = from /\ 0 + len = len /\ len - len = 0 /\ len <= len /\ 0..0-1 = {}
  <2> HIDE DEF from, len
  <2> QED BY <1>2
<1> HIDE DEF q
<1>7. Direct(c, q)
  BY <1>5 DEF Direct
<1>8. Progress(c, q, d)
  <2> HIDE DEF from, len
  <2>1. q.base_block * c.block_size = from /\ q.block_count * c.block_size = len
    BY <1>5 DEF from, len
  <2> QED BY <1>2, <1>5, <1>6, <2>1 DEF Progress
<1> QED BY <1>4, <1>7, <1>8 DEF q

\* The caller's buffer and the request after a copy of 'bytes' bytes.
CopiedInto(done, bytes, from) ==
    [k \in 0..MaxBytes-1 |->
       IF k \in done..done+bytes-1 THEN BufByte(from + (k - done)) ELSE dst[k]]
Advanced(blocks, bytes) ==
    [req EXCEPT !.base_block = @ + blocks, !.block_count = @ - blocks,
                !.byte_off = 0, !.bytes_to_copy = @ - bytes]

\* One copy advances an exact request by the bytes it stores.
LEMMA CopyAdvances ==
    ASSUME NEW V, Bytes \subseteq V, Typed(V), Geometry(bc), Coherent(bc, cache_buf),
           Progress(bc, req, dst), HasSpan(bc, req.base_block),
           NEW blocks, blocks = MinOf(req.block_count, SpanBlocks(bc, req.base_block)),
           NEW bytes, bytes = MinOf(blocks * bc.block_size, req.bytes_to_copy),
           NEW from, from = SpanData(bc, req.base_block) + req.byte_off,
           NEW done, done = req.count - req.bytes_to_copy,
           NEW d, d = CopiedInto(done, bytes, from),
           NEW q, q = Advanced(blocks, bytes)
    PROVE  /\ q \in ReqType
           /\ d \in [0..MaxBytes-1 -> V]
           /\ q.start = req.start /\ q.count = req.count
           /\ req.bytes_to_copy # bytes => Progress(bc, q, d)
           /\ req.bytes_to_copy = bytes /\ Exact(bc, req.start, req.count) =>
                \A k \in 0..req.count-1 : d[k] = <<bc.user_ptr, req.start + k>>
<1> DEFINE s == bc.block_size
           cap == bc.cache_block_cap
           cbase == bc.cache_base
           base == req.base_block
           boff == req.byte_off
           bcount == req.block_count
           btc == req.bytes_to_copy
           start == req.start
           count == req.count
           span == cap - (base - cbase)
           W == blocks * s
<1>1. /\ s \in Nat \ {0} /\ cap \in Nat /\ cbase \in Nat
      /\ base \in Nat /\ boff \in Nat /\ bcount \in Nat /\ btc \in Nat
      /\ start \in Nat /\ count \in Nat /\ req \in ReqType
  BY BlockSizePositive DEF Typed, CacheType, ReqType
<1>2. base >= cbase /\ base - cbase < cap /\ ~bc.empty
  BY DEF HasSpan
<1>3. /\ blocks = MinOf(bcount, span) /\ bytes = MinOf(W, btc)
      /\ done = count - btc
      /\ from = (base - cbase) * s + boff
  BY DEF SpanBlocks, SpanData
<1>4. /\ btc <= count /\ count <= MaxBytes
      /\ Exact(bc, start, count) =>
           /\ base * s + boff = start + done
           /\ boff + btc <= bcount * s
           /\ boff = 0 \/ boff + btc <= s
           /\ \A k \in 0..done-1 : dst[k] = <<bc.user_ptr, start + k>>
  BY DEF Progress
<1>5. /\ cap * s <= BufBytes /\ BufBytes \in Nat /\ MaxBytes \in Nat
      /\ \A p \in 0..cap*s-1 : cache_buf[p] = <<bc.user_ptr, cbase * s + p>>
  BY <1>2, GeometryAssumption DEF Geometry, Coherent, WindowBytes, WindowStart
<1>6. /\ q.start = start /\ q.count = count
      /\ q.base_block = base + blocks /\ q.block_count = bcount - blocks
      /\ q.byte_off = 0 /\ q.bytes_to_copy = btc - bytes
      /\ q = [start |-> start, count |-> count, base_block |-> base + blocks,
              byte_off |-> 0, block_count |-> bcount - blocks,
              bytes_to_copy |-> btc - bytes]
  BY <1>1, Zenon DEF Advanced, ReqType
<1> HIDE DEF s, cap, cbase, base, boff, bcount, btc, start, count
<1>7. span \in Nat
  BY <1>1, <1>2
<1> HIDE DEF span
<1>8. blocks \in Nat /\ blocks <= bcount
  BY <1>1, <1>3, <1>7, MinBounds
<1>9. W \in Nat
  BY <1>1, <1>8, Products
<1> HIDE DEF W
<1>10. bytes \in Nat /\ bytes <= btc
  BY <1>1, <1>3, <1>9, MinBounds
<1>11. done \in Nat /\ done + btc = count
  BY <1>1, <1>3, <1>4
<1>12. q \in ReqType
  <2>1. base + blocks \in Nat /\ bcount - blocks \in Nat /\ btc - bytes \in Nat /\ 0 \in Nat
    BY <1>1, <1>8, <1>10
  <2> QED BY <1>1, <1>6, <2>1 DEF ReqType
<1>13. d \in [0..MaxBytes-1 -> V]
  <2>1. \A p : BufByte(p) \in V
    BY DEF BufByte, Typed, Bytes
  <2>2. \A k \in 0..MaxBytes-1 : dst[k] \in V
    BY DEF Typed
  <2> QED BY <2>1, <2>2 DEF CopiedInto
<1>14. ASSUME Exact(bc, start, count)
       PROVE  /\ \A k \in 0..(done+bytes)-1 : d[k] = <<bc.user_ptr, start + k>>
              /\ bytes # btc =>
                   /\ (base + blocks) * s + 0 = start + (done + bytes)
                   /\ 0 + (btc - bytes) <= (bcount - blocks) * s
  <2> DEFINE B == base * s
             C == cbase * s
             D == (base - cbase) * s
             Cap == cap * s
             Nxt == (base + blocks) * s
             Rest == (bcount - blocks) * s
  <2>1. /\ B + boff = start + done
        /\ boff + btc <= bcount * s
        /\ boff = 0 \/ boff + btc <= s
        /\ \A k \in 0..done-1 : dst[k] = <<bc.user_ptr, start + k>>
    BY <1>4, <1>14
  <2>2. /\ \A i \in 0..bytes-1 :
             D + boff + i \in 0..Cap-1 /\ C + (D + boff + i) = B + boff + i
        /\ bytes # btc => boff = 0 /\ Nxt = B + bytes /\ btc - bytes <= Rest
    <3>1. blocks = MinOf(bcount, cap - (base - cbase)) /\ bytes = MinOf(blocks * s, btc)
      BY <1>3 DEF span, W
    <3>2. /\ \A i \in 0..bytes-1 :
               /\ (base - cbase) * s + boff + i \in 0..cap*s-1
               /\ cbase * s + ((base - cbase) * s + boff + i) = base * s + boff + i
          /\ bytes # btc => /\ boff = 0
                            /\ (base + blocks) * s = base * s + bytes
                            /\ btc - bytes <= (bcount - blocks) * s
      <4> HIDE DEF B, C, D, Cap, Nxt, Rest
      <4>1. Copies(s, cbase, cap, base, boff, bcount, btc, blocks, bytes)
        BY <1>1, <1>2, <2>1, <3>1 DEF Copies
      <4> QED BY <4>1, CopyRange
    <3> QED BY <3>2
  <2>3. B \in Nat /\ C \in Nat /\ Cap \in Nat
    BY <1>1, Products
  <2>4. D \in Nat
    <3>1. base - cbase \in Nat
      BY <1>1, <1>2
    <3> QED BY <1>1, <3>1, Products
  <2>5. Nxt \in Nat /\ Rest \in Nat
    <3>1. base + blocks \in Nat /\ bcount - blocks \in Nat
      BY <1>1, <1>8
    <3> QED BY <1>1, <3>1, Products
  <2>6. from = D + boff
    BY <1>3
  <2>7. Cap <= BufBytes /\ \A p \in 0..Cap-1 : cache_buf[p] = <<bc.user_ptr, C + p>>
    BY <1>5
  <2> HIDE DEF B, C, D, Cap, Nxt, Rest
  <2>8. ASSUME NEW k \in done..done+bytes-1
        PROVE  d[k] = <<bc.user_ptr, start + k>>
    <3> DEFINE i == k - done
    <3>1. i \in 0..bytes-1 /\ k \in 0..MaxBytes-1 /\ k = done + i
      BY <1>1, <1>4, <1>5, <1>10, <1>11
    <3> HIDE DEF i
    <3>2. from + i \in 0..Cap-1 /\ C + (from + i) = B + boff + i
      BY <2>2, <2>6, <3>1
    <3>3. B + boff + i = start + k
      BY <1>1, <1>11, <2>1, <2>3, <3>1
    <3>4. from + i \in 0..BufBytes-1
      BY <1>5, <2>3, <2>7, <3>2
    <3>5. BufByte(from + i) = <<bc.user_ptr, start + k>>
      BY <2>7, <3>2, <3>3, <3>4 DEF BufByte
    <3> QED BY <3>1, <3>5 DEF i, CopiedInto
  <2>9. ASSUME NEW k \in 0..done-1
        PROVE  d[k] = <<bc.user_ptr, start + k>>
    <3>1. k \in 0..MaxBytes-1 /\ k \notin done..done+bytes-1
      BY <1>1, <1>4, <1>5, <1>10, <1>11
    <3> QED BY <2>1, <3>1 DEF CopiedInto
  <2>10. \A k \in 0..(done+bytes)-1 : k \in 0..done-1 \/ k \in done..done+bytes-1
    BY <1>10, <1>11
  <2>11. ASSUME bytes # btc
         PROVE  Nxt + 0 = start + (done + bytes) /\ 0 + (btc - bytes) <= Rest
    <3>1. boff = 0 /\ Nxt = B + bytes /\ btc - bytes <= Rest
      BY <2>2, <2>11
    <3> QED BY <1>1, <1>10, <1>11, <2>1, <2>3, <2>5, <3>1
  <2> QED BY <2>8, <2>9, <2>10, <2>11 DEF Nxt, Rest
<1>15. ASSUME btc = bytes, Exact(bc, start, count)
       PROVE  \A k \in 0..count-1 : d[k] = <<bc.user_ptr, start + k>>
  <2>1. done + bytes = count
    BY <1>11, <1>15
  <2>2. \A k \in 0..(done+bytes)-1 : d[k] = <<bc.user_ptr, start + k>>
    BY <1>14, <1>15
  <2> QED BY <2>1, <2>2
<1>16. ASSUME btc # bytes
       PROVE  Progress(bc, q, d)
  <2>1. /\ q.bytes_to_copy <= q.count
        /\ q.count <= MaxBytes
        /\ q.count - q.bytes_to_copy = done + bytes
    BY <1>1, <1>4, <1>6, <1>10, <1>11
  <2>2. Exact(bc, start, count) =>
          /\ \A k \in 0..(done+bytes)-1 : d[k] = <<bc.user_ptr, start + k>>
          /\ (base + blocks) * s + 0 = start + (done + bytes)
          /\ 0 + (btc - bytes) <= (bcount - blocks) * s
    BY <1>14, <1>16
  <2> QED BY <1>6, <2>1, <2>2, ZenonT(30) DEF Progress, s
<1> QED BY <1>6, <1>12, <1>13, <1>15, <1>16 DEF btc, start, count

\* A range whose blocks the window holds is inside the window, where
\* block_cache_take_ref points.
LEMMA RangeInWindow ==
    ASSUME NEW c \in CacheType, Geometry(c),
           NEW off \in Nat, NEW cnt \in 1..MaxBytes, NEW r,
           HasSpan(c, BaseBlock(c, off)),
           SpanBlocks(c, BaseBlock(c, off)) >= BlockCount(c, off, cnt),
           r = [start |-> off, count |-> cnt,
                pos |-> SpanData(c, BaseBlock(c, off)) + ByteOff(c, off)]
    PROVE  InWindow(c, r) /\ r \in [start : Nat, count : Nat, pos : Nat]
<1> DEFINE s == c.block_size
           cap == c.cache_block_cap
           cbase == c.cache_base
           b == BaseBlock(c, off)
           o == ByteOff(c, off)
           n == BlockCount(c, off, cnt)
           d == b - cbase
           D == d * s
           N == n * s
           C == cbase * s
           Cap == cap * s
           dn == d + n
           DN == dn * s
<1>1. s \in Nat \ {0} /\ cap \in Nat /\ cbase \in Nat /\ cnt \in Nat \ {0}
  BY BlockSizePositive, GeometryAssumption DEF CacheType
<1>2. b \in Nat /\ o \in Nat /\ n \in Nat /\ b * s + o = off /\ o + cnt <= N
  BY <1>1, BlockCoords
<1>3. b >= cbase /\ d < cap /\ ~c.empty /\ cap - d >= n
  BY DEF HasSpan, SpanBlocks
<1>4. r.start = off /\ r.count = cnt /\ r.pos = D + o
      /\ r = [start |-> off, count |-> cnt, pos |-> D + o]
  BY DEF SpanData
<1>5. WindowStart(c) = C /\ WindowBytes(c) = Cap
  BY DEF WindowStart, WindowBytes
<1> HIDE DEF b, o, n, s, cap, cbase
<1>6. d \in Nat /\ dn \in Nat /\ dn <= cap /\ b = cbase + d
  BY <1>1, <1>2, <1>3
<1> HIDE DEF d
<1>7. D \in Nat /\ N \in Nat /\ C \in Nat /\ Cap \in Nat /\ b * s = C + D
  BY <1>1, <1>2, <1>6, Products
<1>8. DN = D + N
  BY <1>1, <1>2, <1>6, Products
<1> HIDE DEF dn
<1>9. DN <= Cap
  BY <1>1, <1>6, Products
<1> DEFINE B == b * s
<1>10. B = C + D /\ B + o = off
  BY <1>2, <1>7
<1> HIDE DEF D, N, C, Cap, DN, B
<1>11. C + (D + o) = off /\ (D + o) + cnt <= Cap /\ D + o \in Nat
  BY <1>1, <1>2, <1>7, <1>8, <1>9, <1>10
<1> QED BY <1>1, <1>3, <1>4, <1>5, <1>11 DEF InWindow

RefType == [start : Nat, count : Nat, pos : Nat]

\* The structure, the buffer and the references agree.
Sound(c, buf, rf) ==
    /\ c \in CacheType /\ rf \in [RefIds -> RefType]
    /\ Geometry(c) /\ Coherent(c, buf) /\ Counted(c, rf) /\ RefsInWindow(c, rf)

CountUp(c) == [c EXCEPT !.nocopy_refs = @ + 1]
CountDown(c) == [c EXCEPT !.nocopy_refs = @ - 1]
WithRef(rf, id, r) == [rf EXCEPT ![id] = r]

\* Counting one more reference into the window.
LEMMA OneMore ==
    ASSUME NEW c, NEW buf, NEW rf, Sound(c, buf, rf),
           NEW id \in RefIds, rf[id] = NoRef,
           NEW r \in RefType, r # NoRef, InWindow(c, r)
    PROVE  Sound(CountUp(c), buf, WithRef(rf, id, r))
<1> DEFINE c2 == CountUp(c)
           rf2 == WithRef(rf, id, r)
<1> USE DEF Sound, CountUp, WithRef
<1>1. /\ c2 \in CacheType /\ c2.nocopy_refs = c.nocopy_refs + 1
      /\ c2.user_ptr = c.user_ptr /\ c2.block_size = c.block_size
      /\ c2.cache_block_cap = c.cache_block_cap /\ c2.cache_base = c.cache_base
      /\ c2.empty = c.empty
  BY DEF CacheType
<1>2. rf2 \in [RefIds -> RefType]
  OBVIOUS
<1>3. Geometry(c2)
  BY <1>1 DEF Geometry, WindowBytes
<1>4. Coherent(c2, buf)
  BY <1>1 DEF Coherent, WindowBytes, WindowStart
<1>5. Held(rf2) = Held(rf) \cup {id} /\ id \notin Held(rf)
  BY DEF Held
<1>6. IsFiniteSet(Held(rf))
  BY RefIdsAssumption, FS_Subset DEF Held
<1>7. Cardinality(Held(rf2)) = Cardinality(Held(rf)) + 1
  BY <1>5, <1>6, FS_AddElement, Zenon
<1>8. Counted(c2, rf2)
  BY <1>1, <1>7 DEF Counted
<1>9. ASSUME NEW i \in Held(rf2) PROVE InWindow(c2, rf2[i])
  <2>1. InWindow(c, rf2[i])
    BY <1>5 DEF RefsInWindow, Held
  <2> QED BY <1>1, <2>1 DEF InWindow, WindowStart, WindowBytes
<1>10. RefsInWindow(c2, rf2)
  BY <1>9 DEF RefsInWindow
<1> QED BY <1>1, <1>2, <1>3, <1>4, <1>8, <1>10

\* Giving one back.
LEMMA OneLess ==
    ASSUME NEW c, NEW buf, NEW rf, Sound(c, buf, rf),
           NEW id \in RefIds, rf[id] # NoRef
    PROVE  Sound(CountDown(c), buf, WithRef(rf, id, NoRef))
<1> DEFINE c2 == CountDown(c)
           rf2 == WithRef(rf, id, NoRef)
<1> USE DEF Sound, CountDown, WithRef
<1>1. IsFiniteSet(Held(rf)) /\ id \in Held(rf)
  BY RefIdsAssumption, FS_Subset DEF Held
<1>2. NoRef \in RefType
  BY DEF NoRef, RefType
<1>3. Held(rf2) = Held(rf) \ {id}
  BY <1>2 DEF Held
<1>4. /\ Cardinality(Held(rf2)) = Cardinality(Held(rf)) - 1
      /\ Cardinality(Held(rf)) \in Nat /\ Cardinality(Held(rf2)) \in Nat
  BY <1>1, <1>3, FS_RemoveElement, FS_CardinalityType, Zenon
<1>5. /\ c2.nocopy_refs = c.nocopy_refs - 1
      /\ c2.user_ptr = c.user_ptr /\ c2.block_size = c.block_size
      /\ c2.cache_block_cap = c.cache_block_cap /\ c2.cache_base = c.cache_base
      /\ c2.empty = c.empty
  BY DEF CacheType
<1>6. Counted(c2, rf2) /\ c2.nocopy_refs \in Nat
  BY <1>4, <1>5 DEF Counted
<1>7. c2 \in CacheType
  BY <1>6 DEF CacheType
<1>8. rf2 \in [RefIds -> RefType]
  BY <1>2
<1>9. Geometry(c2)
  BY <1>5 DEF Geometry, WindowBytes
<1>10. Coherent(c2, buf)
  BY <1>5 DEF Coherent, WindowBytes, WindowStart
<1>11. ASSUME NEW i \in Held(rf2) PROVE InWindow(c2, rf2[i])
  <2>1. InWindow(c, rf2[i])
    BY <1>3 DEF RefsInWindow, Held
  <2> QED BY <1>5, <2>1 DEF InWindow, WindowStart, WindowBytes
<1> QED BY <1>6, <1>7, <1>8, <1>9, <1>10, <1>11, Zenon DEF RefsInWindow

-----------------------------------------------------------------------------
(* The invariant is inductive                                              *)

LEMMA BlankTypes ==
    /\ NoReq \in ReqType
    /\ Blank \in [0..MaxBytes-1 -> Bytes]
    /\ NoRef \in RefType
  BY DEF NoReq, ReqType, Blank, Bytes, NoRef, RefType

LEMMA InitInv == Init => Inv
<1> SUFFICES ASSUME Init PROVE Inv
  OBVIOUS
<1>1. PICK d \in Devices : bc = FreshCache(d)
  BY DEF Init
<1>2. Held(refs) = {}
  BY DEF Init, Held
<1>3. /\ bc \in CacheType /\ Geometry(bc) /\ Coherent(bc, cache_buf)
      /\ Counted(bc, refs) /\ RefsInWindow(bc, refs)
  BY <1>1, <1>2, FreshCacheInv
<1>4. TypeOK
  BY <1>3, BlankTypes DEF Init, TypeOK, RefType, Bytes
<1> QED BY <1>2, <1>3, <1>4 DEF Inv, Init, Running, ReadDelivers

\* A step that changes nothing but the request starts it in good order.
LEMMA ReadStarts ==
    ASSUME Inv, Quiescent, NEW q \in ReqType, Progress(bc, q, Blank),
           req' = q, dst' = Blank, bc' = bc, cache_buf' = cache_buf, refs' = refs,
           pc' = "try" \/ (pc' = "direct" /\ Direct(bc, q))
    PROVE  Inv'
<1>1. TypeOK'
  BY BlankTypes DEF Inv, TypeOK
<1>2. pc # "released"
  BY DEF Quiescent
<1>3. /\ Geometry(bc') /\ Coherent(bc', cache_buf')
      /\ Counted(bc', refs') /\ RefsInWindow(bc', refs')
  BY <1>2 DEF Inv
<1>4. Progress(bc', req', dst') /\ (pc' = "direct" => Direct(bc', req'))
  OBVIOUS
<1>5. ReadDelivers'
  BY DEF ReadDelivers
<1> QED BY <1>1, <1>3, <1>4, <1>5 DEF Inv

\* A step that leaves no request behind only has to keep the cache in order.
LEMMA NoRequestLeft ==
    ASSUME pc' \in {"idle", "failed", "panic"},
           bc' \in CacheType, cache_buf' \in [0..BufBytes-1 -> Bytes],
           req' \in ReqType, dst' \in [0..MaxBytes-1 -> Bytes],
           refs' \in [RefIds -> RefType],
           Geometry(bc'), Coherent(bc', cache_buf'),
           Counted(bc', refs'), RefsInWindow(bc', refs')
    PROVE  Inv'
<1>1. TypeOK'
  BY DEF TypeOK, RefType
<1> QED BY <1>1 DEF Inv, Running, ReadDelivers

LEMMA DirectReadInv == Inv /\ DirectRead => Inv'
<1> SUFFICES ASSUME Inv, DirectRead PROVE Inv'
  OBVIOUS
<1>1. /\ pc = "direct" /\ bc' = bc /\ cache_buf' = cache_buf
      /\ req' = req /\ refs' = refs
  BY DEF DirectRead
<1>2. /\ TypeOK /\ Geometry(bc) /\ Coherent(bc, cache_buf)
      /\ Counted(bc, refs) /\ RefsInWindow(bc, refs)
      /\ Progress(bc, req, dst) /\ Direct(bc, req)
  BY <1>1 DEF Inv, Running
<1> DEFINE s == bc.block_size
           S == req.base_block * s
<1>3. /\ s \in Nat \ {0} /\ req.base_block \in Nat /\ req.block_count \in Nat
      /\ MaxBytes \in Nat /\ bc.user_ptr \in Devices /\ bc \in CacheType
  BY <1>2, BlockSizePositive, GeometryAssumption DEF TypeOK, ReqType, Geometry
<1>4. S \in Nat
  BY <1>3, Products
<1>5. ASSUME NEW m PROVE DirectlyRead(bc, req.base_block, m) \in [0..MaxBytes-1 -> Bytes]
  <2>1. \A k \in 0..MaxBytes-1 : <<bc.user_ptr, S + k>> \in Bytes
    <3> HIDE DEF S
    <3> QED BY <1>3, <1>4 DEF Bytes
  <2> QED BY <2>1 DEF DirectlyRead, Bytes
<1>6. dst' \in [0..MaxBytes-1 -> Bytes]
  BY <1>5 DEF DirectRead
<1>7. TypeOK'
  BY <1>1, <1>2, <1>6 DEF TypeOK, DirectRead
<1>8. CASE dst' = DirectlyRead(bc, req.base_block, req.block_count) /\ pc' = "ok"
  <2>1. /\ req.start = S /\ req.count = req.block_count * s /\ req.count <= MaxBytes
        /\ req.count \in Nat
    BY <1>2 DEF Direct, Progress, TypeOK, ReqType
  <2> DEFINE len == req.block_count * s
  <2>2. \A k \in 0..len-1 : dst'[k] = <<bc.user_ptr, S + k>>
    <3>1. len \in Nat /\ len <= MaxBytes
      BY <2>1
    <3>2. dst' = [k \in 0..MaxBytes-1 |->
                    IF k < len THEN <<bc.user_ptr, S + k>> ELSE Junk]
      BY <1>8 DEF DirectlyRead
    <3> HIDE DEF len, S
    <3> QED BY <1>3, <3>1, <3>2
  <2>3. Delivered'
    BY <1>1, <2>1, <2>2 DEF Delivered
  <2> QED BY <1>1, <1>2, <1>7, <1>8, <2>3 DEF Inv, Running, ReadDelivers
<1>9. CASE pc' = "try"
  <2>1. req.count - req.bytes_to_copy = 0 /\ 0..0-1 = {}
    BY <1>2 DEF Direct, TypeOK, ReqType
  <2>2. Progress(bc, req, dst')
    BY <1>2, <2>1 DEF Progress
  <2>3. Progress(bc', req', dst')
    BY <1>1, <2>2
  <2> QED BY <1>1, <1>2, <1>7, <1>9, <2>3 DEF Inv, Running, ReadDelivers
<1> QED BY <1>8, <1>9 DEF DirectRead

LEMMA TryCompleteReqInv == Inv /\ TryCompleteReq => Inv'
<1> SUFFICES ASSUME Inv, TryCompleteReq PROVE Inv'
  OBVIOUS
<1>1. pc = "try" /\ bc' = bc /\ cache_buf' = cache_buf /\ refs' = refs
  BY DEF TryCompleteReq
<1>2. /\ TypeOK /\ Geometry(bc) /\ Coherent(bc, cache_buf)
      /\ Counted(bc, refs) /\ RefsInWindow(bc, refs) /\ Progress(bc, req, dst)
  BY <1>1 DEF Inv, Running
<1>3. CASE ~HasSpan(bc, req.base_block)
  <2>1. pc' = "refill" /\ req' = req /\ dst' = dst
    BY <1>3 DEF TryCompleteReq
  <2>2. TypeOK'
    BY <1>1, <1>2, <2>1 DEF TypeOK
  <2> QED BY <1>1, <1>2, <2>1, <2>2 DEF Inv, Running, ReadDelivers
<1>4. CASE HasSpan(bc, req.base_block)
  <2> DEFINE blocks == MinOf(req.block_count, SpanBlocks(bc, req.base_block))
             bytes == MinOf(blocks * bc.block_size, req.bytes_to_copy)
             from == SpanData(bc, req.base_block) + req.byte_off
             done == req.count - req.bytes_to_copy
             q == Advanced(blocks, bytes)
             d == CopiedInto(done, bytes, from)
  <2>1. /\ dst' = d /\ req' = q
        /\ pc' = IF req.bytes_to_copy = bytes THEN "ok" ELSE "refill"
    BY <1>4, Zenon DEF TryCompleteReq, CopiedInto, Advanced
  <2>2. /\ q \in ReqType
        /\ d \in [0..MaxBytes-1 -> Bytes]
        /\ q.start = req.start /\ q.count = req.count
        /\ req.bytes_to_copy # bytes => Progress(bc, q, d)
        /\ req.bytes_to_copy = bytes /\ Exact(bc, req.start, req.count) =>
             \A k \in 0..req.count-1 : d[k] = <<bc.user_ptr, req.start + k>>
    <3> HIDE DEF blocks, bytes, from, done, q, d
    <3>1. /\ blocks = MinOf(req.block_count, SpanBlocks(bc, req.base_block))
          /\ bytes = MinOf(blocks * bc.block_size, req.bytes_to_copy)
          /\ from = SpanData(bc, req.base_block) + req.byte_off
          /\ done = req.count - req.bytes_to_copy
          /\ q = Advanced(blocks, bytes)
          /\ d = CopiedInto(done, bytes, from)
      BY DEF blocks, bytes, from, done, q, d
    <3> QED BY <1>2, <1>4, <3>1, CopyAdvances, TypeOKTyped
  <2> HIDE DEF bytes, q, d
  <2>3. TypeOK'
    BY <1>1, <1>2, <2>1, <2>2 DEF TypeOK
  <2>4. CASE req.bytes_to_copy = bytes
    <3>1. pc' = "ok"
      BY <2>1, <2>4
    <3>2. Exact(bc', req'.start, req'.count) => Delivered'
      BY <1>1, <2>1, <2>2, <2>4 DEF Delivered
    <3> QED BY <1>1, <1>2, <2>3, <3>1, <3>2 DEF Inv, Running, ReadDelivers
  <2>5. CASE req.bytes_to_copy # bytes
    <3>1. pc' = "refill" /\ Progress(bc', req', dst')
      BY <1>1, <2>1, <2>2, <2>5
    <3> QED BY <1>1, <1>2, <2>3, <3>1 DEF Inv, Running, ReadDelivers
  <2> QED BY <2>4, <2>5
<1> QED BY <1>3, <1>4

\* The request's coordinates say nothing about the window.
LEMMA ProgressKept ==
    ASSUME NEW c, NEW c2, NEW q, NEW d, SameBut(c, c2), Progress(c, q, d)
    PROVE  Progress(c2, q, d)
  BY Zenon DEF Progress, SameBut, Exact, ByteOff, BlockCount

LEMMA RefillReqInv == Inv /\ RefillReq => Inv'
<1> SUFFICES ASSUME Inv, RefillReq PROVE Inv'
  OBVIOUS
<1>1. pc = "refill" /\ req' = req /\ dst' = dst /\ refs' = refs
  BY DEF RefillReq
<1>2. /\ TypeOK /\ Geometry(bc) /\ Coherent(bc, cache_buf)
      /\ Counted(bc, refs) /\ RefsInWindow(bc, refs) /\ Progress(bc, req, dst)
      /\ req.base_block \in Nat
  BY <1>1 DEF Inv, Running, TypeOK, ReqType
<1>3. PICK r \in RefillResults(req.base_block) :
        /\ bc' = r.bc
        /\ cache_buf' = r.buf
        /\ pc' = CASE r.out = "true" -> "try"
                   [] r.out = "false" -> "failed"
                   [] r.out = "bug" -> "panic"
  BY Zenon DEF RefillReq
<1>4. /\ r.out \in {"true", "false", "bug"}
      /\ r.bc \in CacheType /\ r.buf \in [0..BufBytes-1 -> Bytes]
      /\ SameBut(bc, r.bc) /\ Geometry(r.bc) /\ Coherent(r.bc, r.buf)
      /\ Counted(r.bc, refs) /\ RefsInWindow(r.bc, refs)
  BY <1>2, RefillKeeps, TypeOKTyped
<1>5. pc' \in {"try", "failed", "panic"}
  BY <1>3, <1>4
<1>6. TypeOK'
  BY <1>1, <1>2, <1>3, <1>4, <1>5 DEF TypeOK
<1>7. Progress(bc', req', dst')
  BY <1>1, <1>2, <1>3, <1>4, ProgressKept
<1> QED BY <1>1, <1>3, <1>4, <1>5, <1>6, <1>7 DEF Inv, ReadDelivers

LEMMA RefillInv ==
    ASSUME Inv, NEW b \in 0..MaxBlock, Refill(b)
    PROVE  Inv'
<1>1. /\ TypeOK /\ Geometry(bc) /\ Coherent(bc, cache_buf)
      /\ Counted(bc, refs) /\ RefsInWindow(bc, refs) /\ b \in Nat
  BY GeometryAssumption DEF Inv, Refill, Quiescent
<1>2. PICK r \in RefillResults(b) :
        /\ bc' = r.bc /\ cache_buf' = r.buf
        /\ pc' = IF r.out = "bug" THEN "panic" ELSE "idle"
  BY DEF Refill
<1>3. refs' = refs /\ refs \in [RefIds -> RefType] /\ req' = NoReq /\ dst' = Blank
  BY <1>1 DEF Refill, ForgetRequest, TypeOK, RefType
<1>4. /\ r.bc \in CacheType /\ r.buf \in [0..BufBytes-1 -> Bytes]
      /\ Geometry(r.bc) /\ Coherent(r.bc, r.buf)
      /\ Counted(r.bc, refs) /\ RefsInWindow(r.bc, refs)
  BY <1>1, RefillKeeps, TypeOKTyped
<1>5. pc' \in {"idle", "failed", "panic"}
  BY <1>2
<1> QED BY <1>2, <1>3, <1>4, <1>5, BlankTypes, NoRequestLeft

LEMMA TakeRefInv ==
    ASSUME Inv, NEW id \in RefIds, NEW off \in Nat, NEW cnt \in 1..MaxBytes,
           BlockCacheTakeRef(id, off, cnt)
    PROVE  Inv'
<1> DEFINE base == BaseBlock(bc, off)
           n == BlockCount(bc, off, cnt)
           cached == HasSpan(bc, base) /\ SpanBlocks(bc, base) >= n
           Referenced(c) == [c EXCEPT !.nocopy_refs = @ + 1]
           RefAt(pos) == [start |-> off, count |-> cnt, pos |-> pos]
<1>1. /\ TypeOK /\ Geometry(bc) /\ Coherent(bc, cache_buf)
      /\ Counted(bc, refs) /\ RefsInWindow(bc, refs)
      /\ bc \in CacheType /\ cache_buf \in [0..BufBytes-1 -> Bytes]
      /\ refs \in [RefIds -> RefType]
  BY DEF Inv, BlockCacheTakeRef, Quiescent, TypeOK, RefType
<1>2. req' = NoReq /\ dst' = Blank /\ refs[id] = NoRef
  BY DEF BlockCacheTakeRef, ForgetRequest
<1>3. /\ bc.block_size \in Nat \ {0} /\ cnt \in Nat \ {0}
      /\ bc.cache_block_cap \in Nat /\ bc.cache_base \in Nat
  BY <1>1, BlockSizePositive, GeometryAssumption DEF CacheType
<1>4. base \in Nat /\ n \in Nat /\ ByteOff(bc, off) \in Nat
  BY <1>3, BlockCoords
<1>5. \A pos : RefAt(pos) # NoRef
  BY <1>3 DEF NoRef
<1>6. CASE pc' = "panic" /\ bc' = bc /\ cache_buf' = cache_buf /\ refs' = refs
  BY <1>1, <1>2, <1>6, BlankTypes, NoRequestLeft
<1>7. CASE /\ cached /\ bc' = Referenced(bc) /\ cache_buf' = cache_buf
           /\ refs' = [refs EXCEPT ![id] = RefAt(SpanData(bc, base) + ByteOff(bc, off))]
           /\ pc' = "idle"
  <2> DEFINE r == RefAt(SpanData(bc, base) + ByteOff(bc, off))
  <2>1. InWindow(bc, r) /\ r \in RefType
    BY <1>1, <1>7, RangeInWindow DEF RefType
  <2>2. r # NoRef
    BY <1>5
  <2> HIDE DEF r
  <2>3. refs' = WithRef(refs, id, r) /\ bc' = CountUp(bc)
    BY <1>7 DEF r, WithRef, CountUp
  <2>4. Sound(bc, cache_buf, refs)
    BY <1>1 DEF Sound
  <2>5. Sound(bc', cache_buf, refs')
    BY <1>2, <2>1, <2>2, <2>3, <2>4, OneMore
  <2> QED BY <1>1, <1>2, <1>7, <2>5, BlankTypes, NoRequestLeft DEF Sound
<1>8. ASSUME n <= bc.cache_block_cap,
             NEW r \in RefillResults(base),
             cache_buf' = r.buf,
             bc' = IF r.out = "true" THEN Referenced(r.bc) ELSE r.bc,
             refs' = IF r.out = "true"
                     THEN [refs EXCEPT ![id] = RefAt(ByteOff(bc, off))] ELSE refs,
             pc' = IF r.out = "bug" THEN "panic" ELSE "idle"
      PROVE  Inv'
  <2>1. /\ r.bc \in CacheType /\ r.buf \in [0..BufBytes-1 -> Bytes]
        /\ SameBut(bc, r.bc) /\ Geometry(r.bc) /\ Coherent(r.bc, r.buf)
        /\ Counted(r.bc, refs) /\ RefsInWindow(r.bc, refs)
        /\ r.out = "true" => ~r.bc.empty /\ r.bc.cache_base = base
    BY <1>1, <1>4, RefillKeeps, TypeOKTyped, Zenon
  <2>2. pc' \in {"idle", "failed", "panic"}
    BY <1>8
  <2>3. CASE r.out # "true"
    BY <1>1, <1>2, <1>8, <2>1, <2>2, <2>3, BlankTypes, NoRequestLeft
  <2>4. CASE r.out = "true"
    <3> DEFINE c == r.bc
               a == RefAt(ByteOff(bc, off))
    <3>1. /\ BaseBlock(c, off) = base /\ ByteOff(c, off) = ByteOff(bc, off)
          /\ BlockCount(c, off, cnt) = n
      BY <2>1 DEF SameBut, BaseBlock, ByteOff, BlockCount
    <3>2. /\ c.cache_block_cap = bc.cache_block_cap /\ c.block_size = bc.block_size
          /\ ~c.empty /\ c.cache_base = base
      BY <2>1, <2>4 DEF SameBut
    <3>3. n # 0
      <4>1. ByteOff(bc, off) + cnt <= n * bc.block_size
        BY <1>3, BlockCoords
      <4> QED BY <1>3, <1>4, <4>1
    <3> HIDE DEF base, n
    <3>4. HasSpan(c, base) /\ SpanBlocks(c, base) >= n
      BY <1>3, <1>4, <1>8, <3>2, <3>3 DEF HasSpan, SpanBlocks
    <3>5. SpanData(c, base) + ByteOff(c, off) = ByteOff(bc, off)
      BY <1>3, <1>4, <3>1, <3>2 DEF SpanData
    <3>6. InWindow(c, a) /\ a \in RefType
      <4> HIDE DEF c
      <4>1. c \in CacheType /\ Geometry(c)
        BY <2>1 DEF c
      <4> QED BY <3>1, <3>4, <3>5, <4>1, RangeInWindow DEF RefType
    <3>7. a # NoRef
      BY <1>5
    <3> HIDE DEF a
    <3>8. refs' = WithRef(refs, id, a) /\ bc' = CountUp(c)
      BY <1>8, <2>4 DEF a, WithRef, CountUp
    <3>9. Sound(c, r.buf, refs)
      BY <1>1, <2>1 DEF Sound
    <3> HIDE DEF c
    <3>10. Sound(bc', r.buf, refs')
      BY <1>2, <3>6, <3>7, <3>8, <3>9, OneMore
    <3> QED BY <1>2, <1>8, <2>1, <2>2, <3>10, BlankTypes, NoRequestLeft, SMTT(30) DEF Sound
  <2> QED BY <2>3, <2>4, SMTT(30)
<1> HIDE DEF base, n
<1> QED BY <1>6, <1>7, <1>8 DEF BlockCacheTakeRef, base, n

LEMMA ReleaseRefInv ==
    ASSUME Inv, NEW id \in RefIds, BlockCacheReleaseRef(id)
    PROVE  Inv'
<1>1. /\ Geometry(bc) /\ Coherent(bc, cache_buf)
      /\ Counted(bc, refs) /\ RefsInWindow(bc, refs)
      /\ bc \in CacheType /\ cache_buf \in [0..BufBytes-1 -> Bytes]
      /\ refs \in [RefIds -> RefType]
  BY DEF Inv, BlockCacheReleaseRef, Quiescent, TypeOK, RefType
<1>2. /\ refs[id] # NoRef /\ bc' = [bc EXCEPT !.nocopy_refs = @ - 1]
      /\ refs' = [refs EXCEPT ![id] = NoRef] /\ cache_buf' = cache_buf
      /\ pc' = "idle" /\ req' = NoReq /\ dst' = Blank
  BY DEF BlockCacheReleaseRef, ForgetRequest
<1>3. refs[id] # NoRef /\ bc' = CountDown(bc) /\ refs' = WithRef(refs, id, NoRef)
  BY <1>2 DEF CountDown, WithRef
<1>4. Sound(bc, cache_buf, refs)
  BY <1>1 DEF Sound
<1>5. Sound(bc', cache_buf, refs')
  BY <1>3, <1>4, OneLess
<1> QED BY <1>1, <1>2, <1>5, BlankTypes, NoRequestLeft DEF Sound

LEMMA ReleaseInv == Inv /\ BlockCacheRelease => Inv'
<1> SUFFICES ASSUME Inv, BlockCacheRelease PROVE Inv'
  OBVIOUS
<1>1. /\ TypeOK /\ Geometry(bc) /\ Coherent(bc, cache_buf)
      /\ Counted(bc, refs) /\ RefsInWindow(bc, refs)
      /\ bc \in CacheType /\ cache_buf \in [0..BufBytes-1 -> Bytes]
      /\ refs \in [RefIds -> RefType]
  BY DEF Inv, BlockCacheRelease, Quiescent, TypeOK, RefType
<1>2. req' = NoReq /\ dst' = Blank /\ cache_buf' = cache_buf /\ refs' = refs
  BY DEF BlockCacheRelease, ForgetRequest
<1>3. CASE pc' = "panic" /\ bc' = bc
  BY <1>1, <1>2, <1>3, BlankTypes, NoRequestLeft
<1>4. CASE bc.nocopy_refs = 0 /\ pc' = "released" /\ bc' = ZeroedCache
  <2>1. Held(refs) = {}
    BY <1>1, <1>4, NoneHeld
  <2>2. ZeroedCache \in CacheType /\ ZeroedCache.nocopy_refs = 0
    BY DEF ZeroedCache, CacheType
  <2>3. Counted(bc', refs') /\ RefsInWindow(bc', refs')
    BY <1>2, <1>4, <2>1, <2>2, FS_EmptySet DEF Counted, RefsInWindow
  <2>4. TypeOK'
    BY <1>1, <1>2, <1>4, <2>2, BlankTypes DEF TypeOK
  <2> QED BY <1>2, <1>4, <2>1, <2>3, <2>4 DEF Inv, Running, ReadDelivers
<1> QED BY <1>3, <1>4 DEF BlockCacheRelease

LEMMA InitOnInv ==
    ASSUME Inv, NEW d \in Devices, BlockCacheInit(d)
    PROVE  Inv'
<1>1. /\ pc = "released" /\ bc' = FreshCache(d) /\ pc' = "idle"
      /\ cache_buf' = cache_buf /\ req' = req /\ dst' = dst /\ refs' = refs
  BY DEF BlockCacheInit
<1>2. Held(refs) = {}
  BY <1>1 DEF Inv
<1>3. /\ bc' \in CacheType /\ Geometry(bc') /\ Coherent(bc', cache_buf')
      /\ Counted(bc', refs') /\ RefsInWindow(bc', refs')
  BY <1>1, <1>2, FreshCacheInv
<1> QED BY <1>1, <1>3, NoRequestLeft DEF Inv, TypeOK, RefType

LEMMA NextInv == Inv /\ [Next]_vars => Inv'
<1> SUFFICES ASSUME Inv, [Next]_vars PROVE Inv'
  OBVIOUS
<1>1. ASSUME NEW r \in ByteReads, BlockCacheRead(r[1], r[2]) PROVE Inv'
  <2>1. r[1] \in Nat /\ r[2] \in 1..MaxBytes
    BY RequestAssumption
  <2>2. bc \in CacheType /\ Geometry(bc)
    BY <1>1 DEF Inv, TypeOK, BlockCacheRead, Quiescent
  <2>3. /\ ByteReq(bc, r[1], r[2]) \in ReqType
        /\ Progress(bc, ByteReq(bc, r[1], r[2]), Blank)
    BY <2>1, <2>2, ByteReqStarts
  <2> QED BY <1>1, <2>3, ReadStarts DEF BlockCacheRead
<1>2. ASSUME NEW b \in 0..MaxBlock, NEW n \in 1..MaxBytes, BlockCacheReadBlocks(b, n)
      PROVE  Inv'
  <2>1. b \in Nat /\ n \in Nat /\ n * bc.block_size <= MaxBytes
    BY <1>2, GeometryAssumption DEF BlockCacheReadBlocks
  <2>2. bc \in CacheType /\ Geometry(bc)
    BY <1>2 DEF Inv, TypeOK, BlockCacheReadBlocks, Quiescent
  <2>3. /\ BlockReq(bc, b, n) \in ReqType /\ Direct(bc, BlockReq(bc, b, n))
        /\ Progress(bc, BlockReq(bc, b, n), Blank)
    BY <2>1, <2>2, BlockReqStarts
  <2>4. pc' = "try" \/ pc' = "direct"
    BY <1>2 DEF BlockCacheReadBlocks
  <2> QED BY <1>2, <2>3, <2>4, ReadStarts DEF BlockCacheReadBlocks
<1>3. ASSUME NEW id \in RefIds, NEW r \in ByteReads, BlockCacheTakeRef(id, r[1], r[2])
      PROVE  Inv'
  <2>1. r[1] \in Nat /\ r[2] \in 1..MaxBytes
    BY RequestAssumption
  <2> QED BY <1>3, <2>1, TakeRefInv
<1>4. CASE UNCHANGED vars
  <2>1. TypeOK' /\ ReadDelivers'
    BY <1>4 DEF Inv, vars, TypeOK, ReadDelivers, Delivered
  <2> QED BY <1>4, <2>1 DEF Inv, vars, Running
<1> QED BY <1>1, <1>2, <1>3, <1>4, DirectReadInv, TryCompleteReqInv, RefillReqInv,
        RefillInv, ReleaseRefInv, ReleaseInv, InitOnInv DEF Next

-----------------------------------------------------------------------------
(* What follows                                                            *)

\* In every reachable state the structure, the window, the references and the
\* request being executed agree: the invariant the other theorems rest on.
THEOREM AlwaysInv == Spec => []Inv
  BY InitInv, NextInv, PTL DEF Spec

\* struct block_cache, struct block_req and the references keep their types; in
\* particular block_count and nocopy_refs never go below zero.
THEOREM Types == Spec => []TypeOK
<1>1. Inv => TypeOK
  BY DEF Inv
<1> QED BY <1>1, AlwaysInv, PTL

\* block_cache_read and block_cache_read_blocks that return true have stored
\* exactly the bytes asked for, for every request that starts on a block
\* boundary or stays inside one block.
THEOREM ReadsDeliver == Spec => []ReadDelivers
<1>1. Inv => ReadDelivers
  BY DEF Inv
<1> QED BY <1>1, AlwaysInv, PTL

LEMMA InvRefs == Inv => RefsPointAtTheirData
<1> SUFFICES ASSUME Inv, NEW id \in RefIds, NEW k \in 0..refs[id].count-1
             PROVE  BufByte(refs[id].pos + k) = <<bc.user_ptr, refs[id].start + k>>
  BY DEF RefsPointAtTheirData
<1> DEFINE r == refs[id]
           W == WindowBytes(bc)
           S == WindowStart(bc)
<1>1. r.start \in Nat /\ r.count \in Nat /\ r.pos \in Nat
  BY DEF Inv, TypeOK
<1>2. id \in Held(refs)
  BY DEF Held, NoRef
<1>3. ~bc.empty /\ S + r.pos = r.start /\ r.pos + r.count <= W
  BY <1>2 DEF Inv, RefsInWindow, InWindow
<1>4. pc # "released"
  BY <1>2 DEF Inv
<1>5. W <= BufBytes /\ BufBytes \in Nat
      /\ \A p \in 0..W-1 : cache_buf[p] = <<bc.user_ptr, S + p>>
  BY <1>3, <1>4, GeometryAssumption DEF Inv, Geometry, Coherent
<1>6. W \in Nat /\ S \in Nat
  BY Products DEF Inv, TypeOK, CacheType, WindowBytes, WindowStart
<1> HIDE DEF W, S
<1> DEFINE start == r.start
           pos == r.pos
           count == r.count
<1>7. k \in 0..count-1 /\ start \in Nat /\ pos \in Nat /\ count \in Nat
      /\ S + pos = start /\ pos + count <= W
  BY <1>1, <1>3
<1> HIDE DEF start, pos, count
<1>8. pos + k \in 0..W-1 /\ pos + k \in 0..BufBytes-1 /\ S + (pos + k) = start + k
  BY <1>5, <1>6, <1>7
<1>9. BufByte(pos + k) = <<bc.user_ptr, start + k>>
  BY <1>5, <1>8 DEF BufByte
<1> QED BY <1>9 DEF pos, start

\* As long as a client holds a reference taken with block_cache_take_ref, the
\* bytes under its pointer are the ones it asked for.
THEOREM RefsStayValid == Spec => []RefsPointAtTheirData
  BY AlwaysInv, InvRefs, PTL

-----------------------------------------------------------------------------
(* The refinement                                                          *)

\* The clients' byte requests start on a block boundary of every device or stay
\* inside one block, as the requests of the file systems do.
ExactClients ==
    \A d \in Devices, r \in ByteReads : Exact(FreshCache(d), r[1], r[2])

\* A request that was submitted is one BlockDevice accepts, and one the loop
\* serves exactly.
Accepted(c, q) ==
    /\ q.count \in 1..MaxBytes
    /\ c.user_ptr \in Devices
    /\ Exact(c, q.start, q.count)

RefInv == Inv /\ (HasRequest => Accepted(bc, req))

-----------------------------------------------------------------------------
(* Which requests are exact                                                *)

\* Whether a request is exact depends on the block size alone.
LEMMA ExactBySize ==
    ASSUME NEW c, NEW d, c.block_size = d.block_size, NEW off, NEW cnt
    PROVE  Exact(c, off, cnt) <=> Exact(d, off, cnt)
  BY DEF Exact, ByteOff, BlockCount

\* A whole number of blocks leaves no byte offset.
LEMMA MultipleOfBlock ==
    ASSUME NEW b \in Nat, NEW s \in Nat \ {0}
    PROVE  (b * s) % s = 0
<1> DEFINE x == b * s
           q == x \div s
           r == x % s
<1>1. x \in Nat
  BY Products
<1>2. q \in Nat /\ r \in Nat /\ q * s + r = x /\ r < s
  BY <1>1, Division
<1> HIDE DEF q, r
<1>3. CASE q < b
  <2>1. q * s + s <= b * s
    BY <1>2, <1>3, Products
  <2> DEFINE y == q * s
  <2>2. y \in Nat /\ y + r = x /\ y + s <= x
    BY <1>2, <2>1, Products
  <2> HIDE DEF x, y
  <2> QED BY <1>1, <1>2, <2>2
<1>4. CASE b < q
  <2>1. b * s + s <= q * s
    BY <1>2, <1>4, Products
  <2> DEFINE y == q * s
  <2>2. y \in Nat /\ y + r = x /\ x + s <= y
    BY <1>2, <2>1, Products
  <2> HIDE DEF x, y
  <2> QED BY <1>1, <1>2, <2>2
<1>5. CASE q = b
  <2>1. x + r = x
    BY <1>2, <1>5
  <2> HIDE DEF x
  <2>2. r = 0
    BY <1>1, <1>2, <2>1
  <2> QED BY <2>2 DEF r, x
<1> QED BY <1>2, <1>3, <1>4, <1>5

\* block_cache_read by a client that keeps to the rule.
LEMMA ByteReqAccepted ==
    ASSUME ExactClients, NEW c \in CacheType, Geometry(c), NEW r \in ByteReads
    PROVE  Accepted(c, ByteReq(c, r[1], r[2]))
<1>1. r[2] \in 1..MaxBytes /\ c.user_ptr \in Devices
  BY RequestAssumption DEF Geometry
<1>2. FreshCache(c.user_ptr).block_size = c.block_size
  BY DEF FreshCache, Geometry
<1>3. Exact(c, r[1], r[2])
  BY <1>1, <1>2, ExactBySize DEF ExactClients
<1> QED BY <1>1, <1>3 DEF Accepted, ByteReq

\* block_cache_read_blocks, whoever calls.
LEMMA BlockReqAccepted ==
    ASSUME NEW c \in CacheType, Geometry(c), NEW b \in Nat, NEW n \in Nat \ {0},
           n * c.block_size <= MaxBytes
    PROVE  Accepted(c, BlockReq(c, b, n))
<1> DEFINE s == c.block_size
           len == n * s
           from == b * s
<1>1. s \in Nat \ {0} /\ MaxBytes \in Nat /\ c.user_ptr \in Devices
  BY BlockSizePositive, GeometryAssumption DEF Geometry
<1>2. 0 * s + s <= n * s /\ len \in Nat
  BY <1>1, Products
<1>3. len \in 1..MaxBytes
  <2>1. s <= len
    BY <1>1, <1>2
  <2> HIDE DEF len
  <2> QED BY <1>1, <1>2, <2>1 DEF len
<1>4. from % s = 0
  BY <1>1, MultipleOfBlock, Zenon
<1>5. Exact(c, from, len)
  BY <1>4 DEF Exact, ByteOff
<1> QED BY <1>1, <1>3, <1>5 DEF Accepted, BlockReq

-----------------------------------------------------------------------------
(* Invariance                                                              *)

LEMMA RefInitInv == Init => RefInv
<1>1. Init => ~HasRequest
  BY DEF Init, HasRequest, Busy
<1> QED BY <1>1, InitInv DEF RefInv

\* The loop and the refills leave the device and the original range alone.
LEMMA LoopKeepsRequest ==
    ASSUME Inv, Busy, DirectRead \/ TryCompleteReq \/ RefillReq
    PROVE  /\ bc'.user_ptr = bc.user_ptr /\ bc'.block_size = bc.block_size
           /\ req'.start = req.start /\ req'.count = req.count
<1>1. /\ TypeOK /\ Geometry(bc) /\ Coherent(bc, cache_buf)
      /\ Counted(bc, refs) /\ RefsInWindow(bc, refs) /\ req \in ReqType
      /\ req.base_block \in Nat
  BY DEF Inv, Busy, TypeOK, ReqType
<1>2. CASE DirectRead
  BY <1>2 DEF DirectRead
<1>3. CASE TryCompleteReq
  <2>1. bc' = bc
    BY <1>3 DEF TryCompleteReq
  <2>2. req' = req \/ \E blocks, bytes : req' = Advanced(blocks, bytes)
    BY <1>3, Zenon DEF TryCompleteReq, Advanced
  <2>3. req'.start = req.start /\ req'.count = req.count
    BY <1>1, <2>2, Zenon DEF Advanced, ReqType
  <2> QED BY <2>1, <2>3
<1>4. CASE RefillReq
  <2>1. PICK r \in RefillResults(req.base_block) : bc' = r.bc
    BY <1>4 DEF RefillReq
  <2>2. SameBut(bc, r.bc)
    BY <1>1, RefillKeeps, TypeOKTyped
  <2>3. req' = req
    BY <1>4 DEF RefillReq
  <2> QED BY <2>1, <2>2, <2>3 DEF SameBut
<1> QED BY <1>2, <1>3, <1>4

LEMMA RefNextInv == ExactClients /\ RefInv /\ [Next]_vars => RefInv'
<1> SUFFICES ASSUME ExactClients, RefInv, [Next]_vars, HasRequest'
             PROVE  Accepted(bc', req')
  BY NextInv DEF RefInv
<1>1. ASSUME NEW r \in ByteReads, BlockCacheRead(r[1], r[2])
      PROVE  Accepted(bc', req')
  <2>1. bc \in CacheType /\ Geometry(bc)
    BY <1>1 DEF RefInv, Inv, TypeOK, BlockCacheRead, Quiescent
  <2>2. Accepted(bc, ByteReq(bc, r[1], r[2]))
    BY <2>1, ByteReqAccepted
  <2> QED BY <1>1, <2>2 DEF BlockCacheRead
<1>2. ASSUME NEW b \in 0..MaxBlock, NEW n \in 1..MaxBytes, BlockCacheReadBlocks(b, n)
      PROVE  Accepted(bc', req')
  <2>1. bc \in CacheType /\ Geometry(bc)
    BY <1>2 DEF RefInv, Inv, TypeOK, BlockCacheReadBlocks, Quiescent
  <2>2. b \in Nat /\ n \in Nat \ {0} /\ n * bc.block_size <= MaxBytes
    BY <1>2, GeometryAssumption DEF BlockCacheReadBlocks
  <2>3. Accepted(bc, BlockReq(bc, b, n))
    BY <2>1, <2>2, BlockReqAccepted
  <2> QED BY <1>2, <2>3 DEF BlockCacheReadBlocks
<1>3. CASE DirectRead \/ TryCompleteReq \/ RefillReq
  <2>1. Busy /\ HasRequest
    BY <1>3 DEF DirectRead, TryCompleteReq, RefillReq, Busy, HasRequest
  <2>2. /\ bc'.user_ptr = bc.user_ptr /\ bc'.block_size = bc.block_size
        /\ req'.start = req.start /\ req'.count = req.count
    BY <1>3, <2>1, LoopKeepsRequest DEF RefInv
  <2>3. Accepted(bc, req)
    BY <2>1 DEF RefInv
  <2> QED BY <2>2, <2>3, ExactBySize DEF Accepted
<1>4. ASSUME NEW b \in 0..MaxBlock, Refill(b) PROVE FALSE
  BY <1>4 DEF Refill, HasRequest, Busy
<1>5. ASSUME NEW id \in RefIds, NEW r \in ByteReads, BlockCacheTakeRef(id, r[1], r[2])
      PROVE  FALSE
  BY <1>5 DEF BlockCacheTakeRef, HasRequest, Busy
<1>6. ASSUME NEW id \in RefIds, BlockCacheReleaseRef(id) PROVE FALSE
  BY <1>6 DEF BlockCacheReleaseRef, HasRequest, Busy
<1>7. CASE BlockCacheRelease
  BY <1>7 DEF BlockCacheRelease, HasRequest, Busy
<1>8. ASSUME NEW d \in Devices, BlockCacheInit(d) PROVE FALSE
  BY <1>8 DEF BlockCacheInit, HasRequest, Busy
<1>9. CASE UNCHANGED vars
  BY <1>9 DEF vars, RefInv, HasRequest, Busy
<1> QED BY <1>1, <1>2, <1>3, <1>4, <1>5, <1>6, <1>7, <1>8, <1>9 DEF Next

-----------------------------------------------------------------------------
(* Every step of the cache is a step of the device, or none                *)

\* What the client sees, by where the request is.
Sight ==
    /\ Busy => /\ absStatus = "busy" /\ absData = <<>>
               /\ absRequest = <<bc.user_ptr, req.start, req.count>>
    /\ pc = "ok" => /\ absStatus = "ok"
                    /\ absData = [k \in 0..req.count-1 |-> dst[k]]
                    /\ absRequest = <<bc.user_ptr, req.start, req.count>>
    /\ pc = "failed" => /\ absStatus = "failed" /\ absData = <<>>
                        /\ absRequest = <<bc.user_ptr, req.start, req.count>>
    /\ pc \in {"idle", "released"} =>
         absStatus = "idle" /\ absRequest = <<>> /\ absData = <<>>
    /\ pc = "panic" => absStatus = "panic" /\ absRequest = <<>> /\ absData = <<>>

LEMMA Seen == Sight
<1>1. Busy => pc # "ok" /\ HasRequest
  BY DEF Busy, HasRequest
<1>2. pc \in {"ok", "failed"} => ~Busy /\ HasRequest /\ pc \notin {"idle", "released"}
  BY DEF Busy, HasRequest
<1>3. pc \in {"idle", "released", "panic"} => ~Busy /\ ~HasRequest /\ pc # "ok"
  BY DEF Busy, HasRequest
<1> QED BY <1>1, <1>2, <1>3 DEF Sight, absStatus, absRequest, absData

LEMMA SeenNext == Sight'
  BY Seen, PTL

\* A read, of bytes or of blocks, is a Submit.
LEMMA ReadSubmits ==
    ASSUME RefInv', Quiescent, Busy'
    PROVE  Device!Submit
<1>1. absStatus \in {"idle", "ok", "failed"}
  BY Seen DEF Sight, Quiescent
<1>2. /\ absStatus' = "busy" /\ absData' = <<>>
      /\ absRequest' = <<bc'.user_ptr, req'.start, req'.count>>
  BY SeenNext DEF Sight
<1>3. /\ bc'.user_ptr \in Devices /\ req'.count \in 1..MaxBytes /\ req'.start \in Nat
  BY DEF RefInv, HasRequest, Accepted, Inv, TypeOK, ReqType
<1> QED BY <1>1, <1>2, <1>3 DEF Device!Submit, Device!NoData

\* A step of the loop that ends the request is a Deliver, with exactly the bytes
\* asked for, a Fail or a Panic; any other leaves what the client sees as it is.
LEMMA LoopStep ==
    ASSUME RefInv, RefInv', DirectRead \/ TryCompleteReq \/ RefillReq
    PROVE  [Device!Next]_(Device!vars)
<1>1. Busy
  BY DEF DirectRead, TryCompleteReq, RefillReq, Busy
<1>2. /\ bc'.user_ptr = bc.user_ptr /\ req'.start = req.start /\ req'.count = req.count
  BY <1>1, LoopKeepsRequest DEF RefInv
<1>3. /\ absStatus = "busy" /\ absData = <<>>
      /\ absRequest = <<bc.user_ptr, req.start, req.count>>
  BY <1>1, Seen DEF Sight
<1>4. pc' \in {"direct", "try", "refill", "ok", "failed", "panic"}
  <2>1. CASE DirectRead
    BY <2>1 DEF DirectRead
  <2>2. CASE TryCompleteReq
    BY <2>2 DEF TryCompleteReq
  <2>3. CASE RefillReq
    <3>1. pc = "refill" /\ req.base_block \in Nat
      BY <2>3 DEF RefillReq, RefInv, Inv, TypeOK, ReqType
    <3>2. PICK r \in RefillResults(req.base_block) :
            pc' = CASE r.out = "true" -> "try"
                    [] r.out = "false" -> "failed"
                    [] r.out = "bug" -> "panic"
      BY <2>3, ZenonT(30) DEF RefillReq
    <3>3. r.out \in {"true", "false", "bug"}
      BY <3>1, RefillKeeps, TypeOKTyped, ZenonT(30) DEF RefInv, Inv
    <3> QED BY <3>2, <3>3
  <2> QED BY <2>1, <2>2, <2>3
<1>5. CASE Busy'
  BY <1>2, <1>3, <1>5, SeenNext DEF Sight, Device!vars
<1>6. CASE pc' = "ok"
  <2>1. Exact(bc', req'.start, req'.count)
    BY <1>6, SMTT(30) DEF RefInv, HasRequest, Accepted
  <2>2. \A k \in 0..req'.count-1 : dst'[k] = <<bc'.user_ptr, req'.start + k>>
    BY <1>6, <2>1, Zenon DEF RefInv, Inv, ReadDelivers, Delivered
  <2>3. absData' = [k \in 0..req.count-1 |-> <<bc.user_ptr, req.start + k>>]
    BY <1>2, <1>6, <2>2, SeenNext, Zenon DEF Sight
  <2>4. Device!Content(absRequest) =
          [k \in 0..req.count-1 |-> <<bc.user_ptr, req.start + k>>]
    BY <1>3 DEF Device!Content
  <2>5. absStatus' = "ok" /\ absRequest' = absRequest
    BY <1>2, <1>3, <1>6, SeenNext DEF Sight
  <2> QED BY <1>3, <2>3, <2>4, <2>5 DEF Device!Next, Device!Deliver
<1>7. CASE pc' = "failed"
  BY <1>2, <1>3, <1>7, SeenNext DEF Sight, Device!Next, Device!Fail
<1>8. CASE pc' = "panic"
  BY <1>8, SeenNext DEF Sight, Device!Next, Device!Panic, Device!NoRequest, Device!NoData
<1> QED BY <1>4, <1>5, <1>6, <1>7, <1>8 DEF Busy

\* Whatever else a client does ends its interest in the last read, or the loader
\* panics.
LEMMA OtherStep ==
    ASSUME Quiescent, pc' \in {"idle", "released", "panic"}
    PROVE  [Device!Next]_(Device!vars)
<1>1. CASE pc' = "panic"
  BY <1>1, SeenNext DEF Sight, Device!Next, Device!Panic, Device!NoRequest, Device!NoData
<1>2. CASE pc' # "panic" /\ pc = "idle"
  BY <1>2, Seen, SeenNext DEF Sight, Device!vars
<1>3. CASE pc' # "panic" /\ pc # "idle"
  <2>1. absStatus \in {"ok", "failed"}
    BY <1>3, Seen DEF Sight, Quiescent
  <2> QED BY <1>3, <2>1, SeenNext
          DEF Sight, Device!Next, Device!Forget, Device!NoRequest, Device!NoData
<1> QED BY <1>1, <1>2, <1>3

LEMMA StepSimulates ==
    ASSUME RefInv, RefInv', [Next]_vars
    PROVE  [Device!Next]_(Device!vars)
<1>1. ASSUME NEW r \in ByteReads, BlockCacheRead(r[1], r[2])
      PROVE  Device!Submit
  BY <1>1, ReadSubmits DEF BlockCacheRead, Busy
<1>2. ASSUME NEW b \in 0..MaxBlock, NEW n \in 1..MaxBytes, BlockCacheReadBlocks(b, n)
      PROVE  Device!Submit
  BY <1>2, ReadSubmits DEF BlockCacheReadBlocks, Busy
<1>3. ASSUME NEW b \in 0..MaxBlock, Refill(b)
      PROVE  Quiescent /\ pc' \in {"idle", "released", "panic"}
  BY <1>3 DEF Refill
<1>4. ASSUME NEW id \in RefIds, NEW r \in ByteReads, BlockCacheTakeRef(id, r[1], r[2])
      PROVE  Quiescent /\ pc' \in {"idle", "released", "panic"}
  BY <1>4 DEF BlockCacheTakeRef
<1>5. ASSUME NEW id \in RefIds, BlockCacheReleaseRef(id)
      PROVE  Quiescent /\ pc' \in {"idle", "released", "panic"}
  BY <1>5 DEF BlockCacheReleaseRef
<1>6. ASSUME BlockCacheRelease
      PROVE  Quiescent /\ pc' \in {"idle", "released", "panic"}
  BY <1>6 DEF BlockCacheRelease
<1>7. ASSUME NEW d \in Devices, BlockCacheInit(d)
      PROVE  UNCHANGED Device!vars
  BY <1>7, Seen, SeenNext DEF BlockCacheInit, Sight, Device!vars
<1>8. CASE UNCHANGED vars
  BY <1>8 DEF vars, absStatus, absRequest, absData, Busy, HasRequest, Device!vars
<1> QED BY <1>1, <1>2, <1>3, <1>4, <1>5, <1>6, <1>7, <1>8, LoopStep, OtherStep
        DEF Next, Device!Next

\* The block cache implements the device: for clients whose byte requests are
\* exact, block_cache_read and block_cache_read_blocks are answered only with
\* exactly the bytes of the device or with failure, whatever refills, references
\* and releases happen in between.
THEOREM ImplementsSafely ==
    ASSUME ExactClients
    PROVE  Spec => Device!SafeSpec
<1>1. Init => Device!Init
  BY Seen DEF Init, Sight, Device!Init, Device!NoRequest, Device!NoData
<1>2. RefInv /\ [Next]_vars => RefInv'
  BY RefNextInv
<1>3. RefInv /\ RefInv' /\ [Next]_vars => [Device!Next]_(Device!vars)
  BY StepSimulates
<1> QED BY <1>1, <1>2, <1>3, RefInitInv, PTL DEF Spec, Device!SafeSpec
=============================================================================

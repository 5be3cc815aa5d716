----------------------------- MODULE BlockCache -----------------------------
(***************************************************************************)
(* The single-window block cache of loader/filesystem/block_cache.c.       *)
(*                                                                         *)
(* One cache fronts one device at a time.  Its buffer holds                *)
(* cache_block_cap consecutive blocks starting at cache_base, or nothing   *)
(* when BC_EMPTY is set.  A client reads bytes or blocks through it, or    *)
(* takes a reference: a pointer straight into the buffer.                  *)
(*                                                                         *)
(* Data is modelled by where it comes from: the byte at offset k of device *)
(* d is <<d, k>>.  Reads run one loop iteration per step, because a device *)
(* call may fail between two of them.                                      *)
(***************************************************************************)
EXTENDS Integers, FiniteSets

CONSTANTS
    Devices,        \* what user_ptr may point at
    BlockSizeOf,    \* 1 << block_shift of every device
    DeviceBlocks,   \* number of blocks of every device
    BufBytes,       \* size of cache_buf in bytes
    DirectIO,       \* BC_DIRECT_IO is enabled after block_cache_init
    RefIds,         \* identities of references a client may hold (bound)
    MaxBytes,       \* longest byte request (bound)
    ByteReads,      \* the <<byte_off, count>> clients pass to block_cache_read
    MaxBlock,       \* highest block a client names (bound)
    Junk,           \* a byte that came from no device
    NULL            \* the user_ptr of a cache that was released

ASSUME GeometryAssumption ==
    /\ BufBytes \in Nat /\ MaxBytes \in Nat /\ MaxBlock \in Nat
    /\ BlockSizeOf \in [Devices -> Nat \ {0}]
    /\ DeviceBlocks \in [Devices -> Nat]
    /\ \A d \in Devices : BlockSizeOf[d] <= BufBytes
    /\ DirectIO \in BOOLEAN
    /\ Junk \notin Devices \X Nat
    /\ NULL \notin Devices

ASSUME RequestAssumption ==
    \A r \in ByteReads : r[1] \in Nat /\ r[2] \in 1..MaxBytes

ASSUME RefIdsAssumption == IsFiniteSet(RefIds)

VARIABLES
    bc,         \* struct block_cache without its buffer
    cache_buf,  \* the buffer, byte by byte
    req,        \* the struct block_req being executed, with its original range
    dst,        \* the caller's buffer, as far as it has been written
    pc,         \* where the request is, or what became of the last one
    refs        \* the references handed out by block_cache_take_ref

vars == <<bc, cache_buf, req, dst, pc, refs>>

Bytes == (Devices \X Nat) \cup {Junk}
NoRef == [start |-> 0, count |-> 0, pos |-> 0]
NoReq == [start |-> 0, count |-> 0, base_block |-> 0, byte_off |-> 0,
          block_count |-> 0, bytes_to_copy |-> 0]
Blank == [k \in 0..MaxBytes-1 |-> Junk]

\* A client may call in: no request is being executed.
Quiescent == pc \in {"idle", "ok", "failed"}

\* The caller's request and buffer are its own affair once it makes a call
\* that is not a read.
ForgetRequest == req' = NoReq /\ dst' = Blank

-----------------------------------------------------------------------------
(* Pure helpers                                                            *)

\* MUTANT: the comparison is the wrong way round.
MinOf_Greater(a, b) == IF a <= b THEN b ELSE a

MinOf(a, b) == IF a <= b THEN a ELSE b

\* block_cache_init on device d with the whole buffer as its capacity.
FreshCache(d) ==
    [user_ptr |-> d, cache_base |-> 0, block_size |-> BlockSizeOf[d],
     cache_block_cap |-> BufBytes \div BlockSizeOf[d],
     nocopy_refs |-> 0, empty |-> TRUE]

\* memzero of the whole structure: note that this clears BC_EMPTY as well.
ZeroedCache ==
    [user_ptr |-> NULL, cache_base |-> 0, block_size |-> 0,
     cache_block_cap |-> 0, nocopy_refs |-> 0, empty |-> FALSE]

\* MUTANT: the first block of the window is taken to be outside.
HasSpan_Exclusive(c, block) ==
    /\ ~c.empty
    /\ block > c.cache_base
    /\ block - c.cache_base < c.cache_block_cap

\* cached_span_from_block: is 'block' inside the window, and how many blocks
\* does the window hold from there on.
HasSpan(c, block) ==
    /\ ~c.empty
    /\ block >= c.cache_base
    /\ block - c.cache_base < c.cache_block_cap

SpanBlocks(c, block) == c.cache_block_cap - (block - c.cache_base)
SpanData(c, block) == (block - c.cache_base) * c.block_size

\* byte_offsets_to_block_coords
BaseBlock(c, off) == off \div c.block_size
ByteOff(c, off) == off % c.block_size
BlockCount(c, off, cnt) ==
    (ByteOff(c, off) + cnt + c.block_size - 1) \div c.block_size

\* The byte found at position p from the start of cache_buf.
BufByte(p) == IF p \in 0..BufBytes-1 THEN cache_buf[p] ELSE Junk

\* The buffer after the device stored its first n blocks from 'block' on.
Transferred(c, block, n) ==
    [p \in 0..BufBytes-1 |->
        IF p < n * c.block_size
        THEN <<c.user_ptr, block * c.block_size + p>>
        ELSE cache_buf[p]]

\* The device call can be served: external, refill_blocks_cb fails a transfer
\* that runs past the last block.
DeviceHas(d, block, n) == block + n <= DeviceBlocks[d]

-----------------------------------------------------------------------------
(* block_cache_refill: the set of what a call may do.  'out' is its return *)
(* value, or "bug" when its BUG_ON fires.  A failed device call may have   *)
(* stored some of the blocks.                                              *)

\* MUTANT: a failed refill leaves BC_EMPTY as it was.
AfterFailedRefill_KeepsWindow(c) == c

AfterFailedRefill(c) == [c EXCEPT !.empty = TRUE]

\* MUTANT: the check for dangling references is gone.
Pinned_Never(c) == FALSE

Pinned(c) == c.nocopy_refs # 0

RefillResults(base) ==
    LET cap == bc.cache_block_cap
        Result(out, c, buf) == [out |-> out, bc |-> c, buf |-> buf]
    IN
    IF bc.cache_base = base /\ ~bc.empty THEN {Result("true", bc, cache_buf)}
    ELSE IF Pinned(bc) THEN {Result("bug", bc, cache_buf)}
    ELSE {Result("true", [bc EXCEPT !.empty = FALSE, !.cache_base = base],
                 Transferred(bc, base, n)) :
              n \in {m \in {cap} : DeviceHas(bc.user_ptr, base, m)}}
         \cup
         {Result("false", AfterFailedRefill(bc), Transferred(bc, base, n)) :
              n \in 0..cap}

-----------------------------------------------------------------------------
(* The request loop                                                        *)

ByteReq(c, off, cnt) ==
    [start |-> off, count |-> cnt,
     base_block |-> BaseBlock(c, off), byte_off |-> ByteOff(c, off),
     block_count |-> BlockCount(c, off, cnt), bytes_to_copy |-> cnt]

BlockReq(c, block, n) ==
    [start |-> block * c.block_size, count |-> n * c.block_size,
     base_block |-> block, byte_off |-> 0, block_count |-> n,
     bytes_to_copy |-> n * c.block_size]

\* block_cache_read
BlockCacheRead(off, cnt) ==
    /\ Quiescent
    /\ req' = ByteReq(bc, off, cnt)
    /\ dst' = Blank
    /\ pc' = "try"
    /\ UNCHANGED <<bc, cache_buf, refs>>

\* The caller's buffer once the device stored n blocks from 'block' directly.
DirectlyRead(c, block, n) ==
    [k \in 0..MaxBytes-1 |->
        IF k < n * c.block_size
        THEN <<c.user_ptr, block * c.block_size + k>> ELSE Junk]

\* block_cache_read_blocks: a request larger than the window goes straight to
\* the device when direct I/O is enabled.
BlockCacheReadBlocks(block, n) ==
    /\ Quiescent
    /\ n * bc.block_size <= MaxBytes
    /\ req' = BlockReq(bc, block, n)
    /\ dst' = Blank
    /\ pc' = IF DirectIO /\ n > bc.cache_block_cap THEN "direct" ELSE "try"
    /\ UNCHANGED <<bc, cache_buf, refs>>

\* The device call of a direct read, and the fall back to the window when it
\* fails, possibly after it has stored some of the blocks.
DirectRead ==
    /\ pc = "direct"
    /\ \/ /\ DeviceHas(bc.user_ptr, req.base_block, req.block_count)
          /\ dst' = DirectlyRead(bc, req.base_block, req.block_count)
          /\ pc' = "ok"
       \/ /\ \E m \in 0..req.block_count :
               dst' = DirectlyRead(bc, req.base_block, m)
          /\ pc' = "try"
    /\ UNCHANGED <<bc, cache_buf, req, refs>>

\* block_cache_try_complete_req: copy what the window holds of the request.
TryCompleteReq ==
    /\ pc = "try"
    /\ \/ /\ ~HasSpan(bc, req.base_block)
          /\ pc' = "refill"
          /\ UNCHANGED <<req, dst>>
       \/ /\ HasSpan(bc, req.base_block)
          /\ LET blocks == MinOf(req.block_count, SpanBlocks(bc, req.base_block))
                 bytes == MinOf(blocks * bc.block_size, req.bytes_to_copy)
                 from == SpanData(bc, req.base_block) + req.byte_off
                 done == req.count - req.bytes_to_copy
             IN
             /\ dst' = [k \in 0..MaxBytes-1 |->
                          IF k \in done..done+bytes-1
                          THEN BufByte(from + (k - done)) ELSE dst[k]]
             /\ req' = [req EXCEPT !.base_block = @ + blocks,
                                   !.block_count = @ - blocks,
                                   !.byte_off = 0,
                                   !.bytes_to_copy = @ - bytes]
             /\ pc' = IF req.bytes_to_copy = bytes THEN "ok" ELSE "refill"
    /\ UNCHANGED <<bc, cache_buf, refs>>

\* The refill of req_exec: the loop goes on only when it succeeds.
RefillReq ==
    /\ pc = "refill"
    /\ \E r \in RefillResults(req.base_block) :
         /\ bc' = r.bc
         /\ cache_buf' = r.buf
         /\ pc' = CASE r.out = "true" -> "try"
                    [] r.out = "false" -> "failed"
                    [] r.out = "bug" -> "panic"
    /\ UNCHANGED <<req, dst, refs>>

-----------------------------------------------------------------------------
(* Direct refill, references, release                                      *)

\* block_cache_refill called by a client.
Refill(base) ==
    /\ Quiescent
    /\ \E r \in RefillResults(base) :
         /\ bc' = r.bc
         /\ cache_buf' = r.buf
         /\ pc' = IF r.out = "bug" THEN "panic" ELSE "idle"
    /\ ForgetRequest
    /\ UNCHANGED refs

\* block_cache_take_ref.  A range larger than the window is a BUG_ON.
BlockCacheTakeRef(id, off, cnt) ==
    LET base == BaseBlock(bc, off)
        n == BlockCount(bc, off, cnt)
        cached == HasSpan(bc, base) /\ SpanBlocks(bc, base) >= n
        Referenced(c) == [c EXCEPT !.nocopy_refs = @ + 1]
        RefAt(pos) == [start |-> off, count |-> cnt, pos |-> pos]
    IN
    /\ Quiescent
    /\ refs[id] = NoRef
    /\ \/ /\ n > bc.cache_block_cap
          /\ pc' = "panic"
          /\ UNCHANGED <<bc, cache_buf, refs>>
       \/ /\ n <= bc.cache_block_cap
          /\ cached
          /\ bc' = Referenced(bc)
          /\ refs' = [refs EXCEPT ![id] =
                         RefAt(SpanData(bc, base) + ByteOff(bc, off))]
          /\ pc' = "idle"
          /\ UNCHANGED cache_buf
       \/ /\ n <= bc.cache_block_cap
          /\ ~cached
          /\ \E r \in RefillResults(base) :
               /\ cache_buf' = r.buf
               /\ bc' = IF r.out = "true" THEN Referenced(r.bc) ELSE r.bc
               /\ refs' = IF r.out = "true"
                          THEN [refs EXCEPT ![id] = RefAt(ByteOff(bc, off))]
                          ELSE refs
               /\ pc' = IF r.out = "bug" THEN "panic" ELSE "idle"
    /\ ForgetRequest

\* block_cache_release_ref: the caller gives back one of its references.
BlockCacheReleaseRef(id) ==
    /\ Quiescent
    /\ refs[id] # NoRef
    /\ bc' = [bc EXCEPT !.nocopy_refs = @ - 1]
    /\ refs' = [refs EXCEPT ![id] = NoRef]
    /\ pc' = "idle"
    /\ ForgetRequest
    /\ UNCHANGED cache_buf

\* block_cache_release: freeing the buffer under a live reference is a BUG_ON.
BlockCacheRelease ==
    /\ Quiescent
    /\ \/ /\ bc.nocopy_refs # 0
          /\ pc' = "panic"
          /\ UNCHANGED bc
       \/ /\ bc.nocopy_refs = 0
          /\ pc' = "released"
          /\ bc' = ZeroedCache
    /\ ForgetRequest
    /\ UNCHANGED <<cache_buf, refs>>

\* block_cache_init: the structure is set up for the next device.
BlockCacheInit(d) ==
    /\ pc = "released"
    /\ bc' = FreshCache(d)
    /\ pc' = "idle"
    /\ UNCHANGED <<cache_buf, req, dst, refs>>

-----------------------------------------------------------------------------

Init ==
    /\ bc \in {FreshCache(d) : d \in Devices}
    /\ cache_buf = [p \in 0..BufBytes-1 |-> Junk]
    /\ req = NoReq
    /\ dst = Blank
    /\ pc = "idle"
    /\ refs = [id \in RefIds |-> NoRef]

Next ==
    \/ \E r \in ByteReads : BlockCacheRead(r[1], r[2])
    \/ \E b \in 0..MaxBlock, n \in 1..MaxBytes : BlockCacheReadBlocks(b, n)
    \/ DirectRead
    \/ TryCompleteReq
    \/ RefillReq
    \/ \E b \in 0..MaxBlock : Refill(b)
    \/ \E id \in RefIds, r \in ByteReads : BlockCacheTakeRef(id, r[1], r[2])
    \/ \E id \in RefIds : BlockCacheReleaseRef(id)
    \/ BlockCacheRelease
    \/ \E d \in Devices : BlockCacheInit(d)

\* The loader is one thread of control: once a client has called in, the loop
\* runs on, and the firmware's device calls return.
Spec == Init /\ [][Next]_vars /\ WF_vars(DirectRead \/ TryCompleteReq \/ RefillReq)

-----------------------------------------------------------------------------
(* Properties                                                              *)

CacheType ==
    [user_ptr : Devices \cup {NULL}, cache_base : Nat, block_size : Nat,
     cache_block_cap : Nat, nocopy_refs : Nat, empty : BOOLEAN]
ReqType ==
    [start : Nat, count : Nat, base_block : Nat, byte_off : Nat,
     block_count : Nat, bytes_to_copy : Nat]

\* Type invariant of the cache, the request being executed and the references.
TypeOK ==
    /\ bc \in CacheType
    /\ cache_buf \in [0..BufBytes-1 -> Bytes]
    /\ req \in ReqType
    /\ dst \in [0..MaxBytes-1 -> Bytes]
    /\ pc \in {"idle", "direct", "try", "refill", "ok", "failed", "panic",
               "released"}
    /\ refs \in [RefIds -> [start : Nat, count : Nat, pos : Nat]]

\* A request whose bytes one copy can serve, or that starts on a block
\* boundary: the ones block_cache_try_complete_req serves exactly (it does not
\* account for byte_off when it bounds a copy that is not the last one).
Exact(c, off, cnt) ==
    \/ ByteOff(c, off) = 0
    \/ BlockCount(c, off, cnt) = 1

\* The caller's buffer holds exactly the bytes of the requested range.
Delivered ==
    \A k \in 0..req.count-1 : dst[k] = <<bc.user_ptr, req.start + k>>

\* A read that returns true has stored exactly the requested bytes of the
\* device, whatever was cached before, however often the window moved and
\* whichever earlier device calls failed half-way, for every request that
\* starts on a block boundary or stays inside one block.
ReadDelivers ==
    pc = "ok" /\ Exact(bc, req.start, req.count) => Delivered

\* As long as a client holds a reference, the bytes under its pointer are the
\* ones it asked for: no later read, refill or failed device call moves the
\* window from under it.
RefsPointAtTheirData ==
    pc # "panic" =>
      \A id \in RefIds :
        \A k \in 0..refs[id].count-1 :
          BufByte(refs[id].pos + k) = <<bc.user_ptr, refs[id].start + k>>

=============================================================================

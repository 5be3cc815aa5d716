--------------------------- MODULE BiosDiskProofs ---------------------------
(***************************************************************************)
(* The shared scratch buffer never shows through: what disk and PXE reads  *)
(* deliver, proved for every set of drives, block and buffer size, packet  *)
(* size and sequence of calls.  The block cache's own lemmas carry over;   *)
(* what is new is who owns the buffer and which drive the window is of.    *)
(***************************************************************************)
EXTENDS BiosDisk, BlockCacheProofs

-----------------------------------------------------------------------------
(* The inductive invariant                                                 *)

\* What the scratch buffer and a caller's buffer may hold.
DiskBytes == Bytes \cup (Files \X Nat)

TransferType == [left : Nat, size : Nat, packet_size : 1..MaxPacket]

\* The types, among them that no one takes references into this cache.
DiskTypeOK ==
    /\ Typed(DiskBytes)
    /\ pc \in {"idle", "try", "refill", "ok", "failed", "tftp"}
    /\ cache_last_disk_id \in Devices \cup {NULL}
    /\ tftp \in TransferType
    /\ tftp.left <= tftp.size
    /\ req.count <= MaxBytes
    /\ bc.nocopy_refs = 0
    /\ Held(refs) = {}

\* The cache fronts the drive of the last call, or none and is empty.
FrontsLastDisk(c, d) ==
    /\ d \in Devices => c.user_ptr = d /\ Geometry(c)
    /\ d \notin Devices => c.empty

\* A disk read that runs is on the drive of the caller's handle.
DiskProgress ==
    /\ source \in Devices
    /\ source = cache_last_disk_id
    /\ Progress(bc, req, dst)

\* A TFTP transfer that runs owns the buffer, and the packets so far are in the
\* caller's buffer.
TransferProgress ==
    /\ source \in Files
    /\ bc.empty
    /\ \A k \in 0..tftp.size - tftp.left - 1 : dst[k] = <<source, k>>
    /\ tftp.size - tftp.left <= req.count

DiskInv ==
    /\ DiskTypeOK
    /\ FrontsLastDisk(bc, cache_last_disk_id)
    /\ ~bc.empty => s_owner = TbCache
    /\ Coherent(bc, cache_buf)
    /\ pc \in {"try", "refill"} => DiskProgress
    /\ pc = "tftp" => TransferProgress
    /\ CallsDeliver

-----------------------------------------------------------------------------
(* Facts about the operations                                              *)

LEMMA DiskByteFacts ==
    /\ Bytes \subseteq DiskBytes
    /\ Blank \in [0..MaxBytes-1 -> DiskBytes]
    /\ NoReq \in ReqType /\ NoReq.count = 0
    /\ NoTransfer \in TransferType /\ NoTransfer.left <= NoTransfer.size
    /\ MaxBytes \in Nat /\ BufBytes \in Nat
<1>1. Bytes \subseteq DiskBytes
  BY DEF DiskBytes
<1>2. 1 \in 1..MaxPacket
  BY PacketAssumption, GeometryAssumption
<1>3. NoTransfer \in TransferType /\ NoTransfer.left <= NoTransfer.size
  BY <1>2 DEF NoTransfer, TransferType
<1> QED BY <1>1, <1>3, GeometryAssumption
        DEF Blank, Bytes, DiskBytes, NoReq, ReqType

\* set_cache_to_disk leaves the cache on the drive, with a window that is still
\* good or none at all.
LEMMA SetCacheKeeps ==
    ASSUME DiskInv, NEW d \in Devices
    PROVE  LET c == SetCacheToDisk(d) IN
           /\ c \in CacheType /\ c.nocopy_refs = 0
           /\ c.user_ptr = d /\ Geometry(c)
           /\ c.block_size = BlockSizeOf[d]
           /\ Coherent(c, cache_buf)
           /\ ~c.empty => ~bc.empty
<1> DEFINE c == SetCacheToDisk(d)
<1>1. bc \in CacheType /\ bc.nocopy_refs = 0 /\ Coherent(bc, cache_buf)
  BY DEF DiskInv, DiskTypeOK, Typed
<1>2. CASE cache_last_disk_id = d
  <2>1. c = bc
    BY <1>2 DEF SetCacheToDisk
  <2>2. bc.user_ptr = d /\ Geometry(bc)
    BY <1>2 DEF DiskInv, FrontsLastDisk
  <2>3. bc.block_size = BlockSizeOf[d]
    BY <2>2 DEF Geometry
  <2> QED BY <1>1, <2>1, <2>2, <2>3
<1>3. CASE cache_last_disk_id # d
  <2> DEFINE s == BlockSizeOf[d]
             n == BufBytes \div s
  <2>1. /\ FreshCache(d) \in CacheType /\ Geometry(FreshCache(d))
    <3>1. Held([id \in RefIds |-> NoRef]) = {}
      BY DEF Held
    <3> QED BY <3>1, FreshCacheInv
  <2>2. /\ FreshCache(d).block_size = s /\ FreshCache(d).cache_block_cap = n
        /\ FreshCache(d).user_ptr = d
    BY DEF FreshCache
  <2>3. s \in Nat /\ n \in Nat /\ n * s <= BufBytes
    BY <2>1, <2>2 DEF CacheType, Geometry, WindowBytes
  <2> HIDE DEF s, n
  <2>4. c = [bc EXCEPT !.user_ptr = d, !.block_size = s,
                       !.cache_block_cap = n, !.empty = TRUE]
    BY <1>3 DEF SetCacheToDisk, s, n
  <2> HIDE DEF c
  <2>5. /\ c \in CacheType /\ c.nocopy_refs = 0 /\ c.user_ptr = d
        /\ c.block_size = s /\ c.cache_block_cap = n /\ c.empty = TRUE
    BY <1>1, <2>3, <2>4, Zenon DEF CacheType
  <2>6. Geometry(c)
    BY <2>3, <2>5 DEF Geometry, WindowBytes, s
  <2>7. Coherent(c, cache_buf)
    BY <2>5 DEF Coherent
  <2> QED BY <2>5, <2>6, <2>7 DEF s, c
<1> QED BY <1>2, <1>3

-----------------------------------------------------------------------------
(* The invariant is inductive                                              *)

LEMMA DiskInitInv == DiskInit => DiskInv
<1> SUFFICES ASSUME DiskInit PROVE DiskInv
  OBVIOUS
<1>1. /\ bc \in CacheType /\ bc.empty = TRUE /\ bc.nocopy_refs = 0
  BY Zenon DEF DiskInit, ZeroedCache, CacheType
<1>2. Held(refs) = {}
  BY DEF DiskInit, Held
<1>3. cache_buf \in [0..BufBytes-1 -> DiskBytes]
  BY DEF DiskInit, DiskBytes, Bytes
<1>4. DiskTypeOK
  BY <1>1, <1>2, <1>3, DiskByteFacts DEF DiskInit, DiskTypeOK, Typed
<1>5. FrontsLastDisk(bc, cache_last_disk_id)
  BY <1>1, GeometryAssumption DEF DiskInit, FrontsLastDisk
<1>6. Coherent(bc, cache_buf)
  BY <1>1 DEF Coherent
<1> QED BY <1>1, <1>4, <1>5, <1>6 DEF DiskInit, DiskInv, CallsDeliver

\* ds_read and ds_read_blocks start a request on the drive of the handle.
LEMMA DsCallInv ==
    ASSUME DiskInv, NEW d \in Devices, NEW r \in ReqType, r.count <= MaxBytes,
           Progress(SetCacheToDisk(d), r, Blank), DsCall(d, r)
    PROVE  DiskInv'
<1>1. /\ bc' = SetCacheToDisk(d) /\ cache_last_disk_id' = d /\ source' = d
      /\ req' = r /\ dst' = Blank /\ pc' = "try" /\ tftp' = NoTransfer
      /\ cache_buf' = cache_buf /\ refs' = refs /\ s_owner' = s_owner
  BY DEF DsCall
<1>2. /\ bc' \in CacheType /\ bc'.nocopy_refs = 0
      /\ bc'.user_ptr = d /\ Geometry(bc')
      /\ Coherent(bc', cache_buf) /\ (~bc'.empty => ~bc.empty)
  BY <1>1, SetCacheKeeps
<1>3. DiskTypeOK'
  BY <1>1, <1>2, DiskByteFacts DEF DiskInv, DiskTypeOK, Typed
<1>4. FrontsLastDisk(bc', cache_last_disk_id') /\ Coherent(bc', cache_buf')
  BY <1>1, <1>2 DEF FrontsLastDisk
<1>5. ~bc'.empty => s_owner' = TbCache
  BY <1>1, <1>2 DEF DiskInv
<1>6. DiskProgress'
  BY <1>1 DEF DiskProgress
<1> QED BY <1>1, <1>3, <1>4, <1>5, <1>6 DEF DiskInv, CallsDeliver

\* A copy out of the window serves the drive the window is of.
LEMMA DsTryInv == DiskInv /\ DsTryCompleteReq => DiskInv'
<1> SUFFICES ASSUME DiskInv, DsTryCompleteReq PROVE DiskInv'
  OBVIOUS
<1>1. /\ pc = "try" /\ bc' = bc /\ cache_buf' = cache_buf /\ refs' = refs
      /\ cache_last_disk_id' = cache_last_disk_id /\ s_owner' = s_owner
      /\ source' = source /\ tftp' = tftp
  BY DEF DsTryCompleteReq, TryCompleteReq, diskVars
<1>2. /\ DiskTypeOK /\ FrontsLastDisk(bc, cache_last_disk_id)
      /\ Coherent(bc, cache_buf) /\ DiskProgress
  BY <1>1 DEF DiskInv
<1>3. /\ Typed(DiskBytes) /\ Geometry(bc) /\ Progress(bc, req, dst)
      /\ bc.user_ptr = source /\ source \in Devices
  BY <1>2 DEF DiskTypeOK, FrontsLastDisk, DiskProgress
<1>4. source \notin Files
  BY <1>3, PacketAssumption
<1>5. ASSUME DiskTypeOK', pc' = "refill", Progress(bc', req', dst')
      PROVE  DiskInv'
  BY <1>1, <1>2, <1>5 DEF DiskInv, DiskProgress, CallsDeliver
<1>6. CASE ~HasSpan(bc, req.base_block)
  <2>1. pc' = "refill" /\ req' = req /\ dst' = dst
    BY <1>6 DEF DsTryCompleteReq, TryCompleteReq
  <2>2. DiskTypeOK'
    BY <1>1, <1>2, <2>1 DEF DiskTypeOK, Typed
  <2> QED BY <1>1, <1>3, <1>5, <2>1, <2>2
<1>7. CASE HasSpan(bc, req.base_block)
  <2> DEFINE blocks == MinOf(req.block_count, SpanBlocks(bc, req.base_block))
             bytes == MinOf(blocks * bc.block_size, req.bytes_to_copy)
             from == SpanData(bc, req.base_block) + req.byte_off
             done == req.count - req.bytes_to_copy
             q == Advanced(blocks, bytes)
             d == CopiedInto(done, bytes, from)
  <2>1. /\ dst' = d /\ req' = q
        /\ pc' = IF req.bytes_to_copy = bytes THEN "ok" ELSE "refill"
    BY <1>7, Zenon DEF DsTryCompleteReq, TryCompleteReq, CopiedInto, Advanced
  <2>2. /\ q \in ReqType
        /\ d \in [0..MaxBytes-1 -> DiskBytes]
        /\ q.start = req.start /\ q.count = req.count
        /\ req.bytes_to_copy # bytes => Progress(bc, q, d)
        /\ req.bytes_to_copy = bytes /\ Exact(bc, req.start, req.count) =>
             \A k \in 0..req.count-1 : d[k] = <<bc.user_ptr, req.start + k>>
    <3> HIDE DEF blocks, bytes, from, done, q, d
    <3>1. /\ blocks = MinOf(req.block_count, SpanBlocks(bc, req.base_block))
          /\ bytes = MinOf(blocks * bc.block_size, req.bytes_to_copy)
          /\ from = SpanData(bc, req.base_block) + req.byte_off
          /\ done = req.count - req.bytes_to_copy
          /\ q = Advanced(blocks, bytes)
          /\ d = CopiedInto(done, bytes, from)
      BY DEF blocks, bytes, from, done, q, d
    <3> QED BY <1>2, <1>3, <1>7, <3>1, CopyAdvances, DiskByteFacts
  <2> HIDE DEF bytes, q, d
  <2>3. DiskTypeOK'
    BY <1>1, <1>2, <2>1, <2>2 DEF DiskTypeOK, Typed
  <2>4. CASE req.bytes_to_copy = bytes
    <3>1. pc' = "ok"
      BY <2>1, <2>4
    <3>2. Exact(bc', req'.start, req'.count) =>
            \A k \in 0..req'.count-1 : dst'[k] = <<source', req'.start + k>>
      BY <1>1, <1>3, <2>1, <2>2, <2>4
    <3>3. CallsDeliver'
      BY <1>1, <1>4, <3>2 DEF CallsDeliver
    <3> QED BY <1>1, <1>2, <2>3, <3>1, <3>3 DEF DiskInv
  <2>5. CASE req.bytes_to_copy # bytes
    BY <1>1, <1>5, <2>1, <2>2, <2>3, <2>5
  <2> QED BY <2>4, <2>5
<1> QED BY <1>6, <1>7

\* bios_refill_blocks takes the scratch buffer back before the window is filled.
LEMMA DsRefillInv == DiskInv /\ DsRefillReq => DiskInv'
<1> SUFFICES ASSUME DiskInv, DsRefillReq PROVE DiskInv'
  OBVIOUS
<1>1. /\ pc = "refill" /\ req' = req /\ dst' = dst /\ refs' = refs
      /\ s_owner' = TbCache /\ cache_last_disk_id' = cache_last_disk_id
      /\ source' = source /\ tftp' = tftp
  BY DEF DsRefillReq, RefillReq
<1>2. /\ DiskTypeOK /\ FrontsLastDisk(bc, cache_last_disk_id)
      /\ Coherent(bc, cache_buf) /\ DiskProgress
  BY <1>1 DEF DiskInv
<1>3. /\ Typed(DiskBytes) /\ Geometry(bc) /\ Progress(bc, req, dst)
      /\ bc.user_ptr = source /\ source \in Devices
      /\ req.base_block \in Nat /\ Held(refs) = {} /\ bc.nocopy_refs = 0
  BY <1>2 DEF DiskTypeOK, FrontsLastDisk, DiskProgress, Typed, ReqType
<1>4. Counted(bc, refs) /\ RefsInWindow(bc, refs)
  BY <1>3, FS_EmptySet DEF Counted, RefsInWindow
<1>5. PICK r \in RefillResults(req.base_block) :
        /\ bc' = r.bc
        /\ cache_buf' = r.buf
        /\ pc' = CASE r.out = "true" -> "try"
                   [] r.out = "false" -> "failed"
                   [] r.out = "bug" -> "panic"
  BY Zenon DEF DsRefillReq, RefillReq
<1>6. /\ r.out \in {"true", "false", "bug"}
      /\ r.bc \in CacheType /\ r.buf \in [0..BufBytes-1 -> DiskBytes]
      /\ SameBut(bc, r.bc) /\ Geometry(r.bc) /\ Coherent(r.bc, r.buf)
      /\ r.out # "bug"
  BY <1>2, <1>3, <1>4, RefillKeeps, DiskByteFacts
<1>7. pc' \in {"try", "failed"}
  BY <1>5, <1>6
<1>8. bc'.user_ptr = bc.user_ptr /\ bc'.nocopy_refs = bc.nocopy_refs
  BY <1>5, <1>6 DEF SameBut
<1>9. DiskTypeOK'
  BY <1>1, <1>2, <1>5, <1>6, <1>7, <1>8 DEF DiskTypeOK, Typed
<1>10. FrontsLastDisk(bc', cache_last_disk_id')
  BY <1>1, <1>2, <1>3, <1>5, <1>6, <1>8 DEF FrontsLastDisk, DiskProgress
<1>11. DiskProgress'
  <2>1. Progress(bc', req', dst')
    BY <1>1, <1>3, <1>5, <1>6, ProgressKept
  <2> QED BY <1>1, <1>2, <2>1 DEF DiskProgress
<1> QED BY <1>1, <1>5, <1>6, <1>7, <1>9, <1>10, <1>11 DEF DiskInv, CallsDeliver

\* pxe_read_file takes the scratch buffer away from the cache, which forgets its
\* window if it had one.
LEMMA PxeReadFileInv ==
    ASSUME DiskInv, NEW f \in Files, NEW expected \in FileSizes, NEW size \in FileSizes,
           NEW ps \in 0..MaxPacket+1, PxeReadFile(f, expected, size, ps)
    PROVE  DiskInv'
<1> DEFINE nr == [NoReq EXCEPT !.count = expected]
<1>1. /\ source' = f /\ req' = nr /\ dst' = Blank /\ cache_buf' = cache_buf
      /\ refs' = refs /\ cache_last_disk_id' = cache_last_disk_id
  BY DEF PxeReadFile
<1>2. /\ expected \in Nat /\ expected <= MaxBytes /\ size \in Nat
  BY PacketAssumption, GeometryAssumption
<1>3. nr \in ReqType /\ nr.count = expected
  BY <1>2 DEF NoReq, ReqType
<1> HIDE DEF nr
<1>4. DiskTypeOK /\ FrontsLastDisk(bc, cache_last_disk_id) /\ Coherent(bc, cache_buf)
  BY DEF DiskInv
<1>5. f \notin Devices
  BY PacketAssumption
<1>6. CASE pc' = "failed" /\ tftp' = NoTransfer /\ bc' = bc /\ s_owner' = s_owner
  <2>1. DiskTypeOK'
    BY <1>1, <1>2, <1>3, <1>4, <1>6, DiskByteFacts DEF DiskTypeOK, Typed
  <2> QED BY <1>1, <1>4, <1>6, <2>1 DEF DiskInv, CallsDeliver
<1>7. CASE /\ ps \in 1..MaxPacket /\ bc' = Evicted(bc, Tftp) /\ s_owner' = Tftp
           /\ tftp' = [left |-> size, size |-> size, packet_size |-> ps]
           /\ pc' = "tftp"
  <2>1. bc \in CacheType /\ bc.nocopy_refs = 0
    BY <1>4 DEF DiskTypeOK, Typed
  <2>2. /\ bc' \in CacheType /\ bc'.nocopy_refs = 0 /\ bc'.empty
        /\ SameBut(bc, bc')
    <3>1. CASE s_owner = TbCache
      <4>1. bc' = [bc EXCEPT !.empty = TRUE]
        BY <1>7, <3>1 DEF Evicted, TbCache, Tftp
      <4> QED BY <2>1, <4>1, Zenon DEF CacheType, SameBut
    <3>2. CASE s_owner # TbCache
      <4>1. bc' = bc
        BY <1>7, <3>2 DEF Evicted
      <4>2. bc.empty
        BY <3>2 DEF DiskInv
      <4> QED BY <2>1, <4>1, <4>2 DEF SameBut
    <3> QED BY <3>1, <3>2
  <2>3. /\ tftp' \in TransferType /\ tftp'.left <= tftp'.size
        /\ tftp'.size - tftp'.left = 0
    BY <1>2, <1>7 DEF TransferType
  <2>4. DiskTypeOK'
    BY <1>1, <1>2, <1>3, <1>4, <1>7, <2>2, <2>3, DiskByteFacts DEF DiskTypeOK, Typed
  <2>5. FrontsLastDisk(bc', cache_last_disk_id')
    BY <1>1, <1>4, <2>2 DEF FrontsLastDisk, SameBut, Geometry, WindowBytes
  <2>6. Coherent(bc', cache_buf')
    BY <2>2 DEF Coherent
  <2>7. 0 - 1 = -1 /\ 0..(-1) = {}
    OBVIOUS
  <2>8. TransferProgress'
    BY <1>1, <1>2, <1>3, <2>2, <2>3, <2>7 DEF TransferProgress
  <2> QED BY <1>7, <2>2, <2>4, <2>5, <2>6, <2>8 DEF DiskInv, CallsDeliver
<1> QED BY <1>6, <1>7 DEF PxeReadFile, nr

\* The packet's place in the caller's buffer is right behind the ones before.
LEMMA TftpReadInv == DiskInv /\ TftpRead => DiskInv'
<1> SUFFICES ASSUME DiskInv, TftpRead PROVE DiskInv'
  OBVIOUS
<1> DEFINE size == tftp.size
           left == tftp.left
           ps == tftp.packet_size
           total == size - left
           n == MinOf(ps, left)
<1>1. /\ pc = "tftp" /\ bc' = bc /\ req' = req /\ refs' = refs
      /\ cache_last_disk_id' = cache_last_disk_id /\ s_owner' = s_owner
      /\ source' = source
  BY DEF TftpRead
<1>2. DiskTypeOK /\ FrontsLastDisk(bc, cache_last_disk_id) /\ TransferProgress
  BY <1>1 DEF DiskInv
<1>3. /\ source \in Files /\ source \notin Devices /\ bc.empty
      /\ \A k \in 0..total-1 : dst[k] = <<source, k>>
      /\ total <= req.count
  BY <1>2, PacketAssumption DEF TransferProgress
<1>4. /\ tftp \in TransferType /\ size \in Nat /\ left \in Nat /\ left <= size
      /\ ps \in 1..MaxPacket /\ req.count <= MaxBytes /\ req.count \in Nat
      /\ dst \in [0..MaxBytes-1 -> DiskBytes]
      /\ cache_buf \in [0..BufBytes-1 -> DiskBytes]
  BY <1>2 DEF DiskTypeOK, TransferType, Typed, ReqType
<1>5. MaxPacket \in Nat /\ MaxPacket <= BufBytes /\ BufBytes \in Nat /\ MaxBytes \in Nat
  BY PacketAssumption, GeometryAssumption
<1>6. Coherent(bc', cache_buf')
  BY <1>1, <1>3 DEF Coherent
<1>7. ASSUME DiskTypeOK', pc' # "try", pc' # "refill", pc' = "tftp" => TransferProgress',
             CallsDeliver'
      PROVE  DiskInv'
  BY <1>1, <1>2, <1>3, <1>6, <1>7 DEF DiskInv
<1>8. CASE pc' = "failed" /\ cache_buf' = cache_buf /\ dst' = dst /\ tftp' = tftp
  <2>1. DiskTypeOK'
    BY <1>1, <1>2, <1>8 DEF DiskTypeOK, Typed
  <2> QED BY <1>7, <1>8, <2>1 DEF CallsDeliver
<1>9. CASE /\ cache_buf' = [p \in 0..BufBytes-1 |->
                             IF p < n THEN <<source, total + p>> ELSE cache_buf[p]]
           /\ tftp' = [tftp EXCEPT !.left = @ - n]
           /\ \/ /\ total + n > req.count
                 /\ pc' = "failed"
                 /\ UNCHANGED dst
              \/ /\ total + n <= req.count
                 /\ dst' = [k \in 0..MaxBytes-1 |->
                             IF k \in total..total+n-1
                             THEN cache_buf'[k - total] ELSE dst[k]]
                 /\ pc' = IF ~LastPacket(n, total + n) THEN "tftp"
                          ELSE IF Complete(total + n) THEN "ok" ELSE "failed"
  <2>1. n \in Nat /\ n <= ps /\ n <= left /\ (n = ps \/ n = left) /\ n <= BufBytes
    <3>1. ps \in Nat /\ ps <= BufBytes
      BY <1>4, <1>5
    <3> HIDE DEF ps, left
    <3>2. n \in Nat /\ n <= ps /\ n <= left /\ (n = ps \/ n = left)
      BY <1>4, <3>1, MinBounds, Zenon
    <3> HIDE DEF n
    <3> QED BY <1>5, <3>1, <3>2
  <2>2. /\ tftp'.left = left - n /\ tftp'.size = size /\ tftp'.packet_size = ps
        /\ tftp' = [left |-> left - n, size |-> size, packet_size |-> ps]
    BY <1>4, <1>9 DEF TransferType
  <2>3. LastPacket(n, total + n) <=> n < ps
    BY DEF LastPacket
  <2> HIDE DEF n, size, left, ps
  <2>4. total \in Nat /\ left - n \in Nat /\ left - n <= size
        /\ size - (left - n) = total + n
    BY <1>4, <2>1
  <2>5. tftp' \in TransferType /\ tftp'.left <= tftp'.size
        /\ tftp'.size - tftp'.left = total + n
    BY <1>4, <2>2, <2>4 DEF TransferType
  <2> HIDE DEF total
  <2>6. cache_buf' \in [0..BufBytes-1 -> DiskBytes]
    <3>1. \A p \in 0..BufBytes-1 : <<source, total + p>> \in DiskBytes
      BY <1>3, <1>5, <2>4 DEF DiskBytes
    <3> QED BY <1>4, <1>9, <3>1
  <2>7. CASE pc' = "failed" /\ dst' = dst
    <3>1. DiskTypeOK'
      BY <1>1, <1>2, <2>5, <2>6, <2>7 DEF DiskTypeOK, Typed
    <3> QED BY <1>7, <2>7, <3>1 DEF CallsDeliver
  <2>8. CASE /\ total + n <= req.count
             /\ dst' = [k \in 0..MaxBytes-1 |->
                          IF k \in total..total+n-1
                          THEN cache_buf'[k - total] ELSE dst[k]]
             /\ pc' = IF ~LastPacket(n, total + n) THEN "tftp"
                      ELSE IF Complete(total + n) THEN "ok" ELSE "failed"
    <3>1. ASSUME NEW k \in total..total+n-1
          PROVE  cache_buf'[k - total] = <<source, k>> /\ k \in 0..MaxBytes-1
      <4>1. k - total \in 0..BufBytes-1 /\ k - total < n /\ total + (k - total) = k
            /\ k \in 0..MaxBytes-1
        BY <1>4, <1>5, <2>1, <2>4, <2>8
      <4> QED BY <1>9, <4>1
    <3>2. ASSUME NEW k \in 0..(total+n)-1
          PROVE  dst'[k] = <<source, k>>
      <4>1. k \in 0..MaxBytes-1 /\ (k \in 0..total-1 \/ k \in total..total+n-1)
        BY <1>4, <1>5, <2>1, <2>4, <2>8
      <4>2. CASE k \in total..total+n-1
        BY <2>8, <3>1, <4>1, <4>2
      <4>3. CASE k \notin total..total+n-1
        BY <1>3, <2>8, <4>1, <4>3
      <4> QED BY <4>2, <4>3
    <3>3. dst' \in [0..MaxBytes-1 -> DiskBytes]
      <4>1. \A k \in total..total+n-1 : k \in Nat
        BY <2>4
      <4>2. ASSUME NEW k \in total..total+n-1 PROVE cache_buf'[k - total] \in DiskBytes
        <5>1. <<source, k>> \in DiskBytes
          BY <1>3, <4>1 DEF DiskBytes
        <5> QED BY <3>1, <5>1
      <4>3. \A k \in 0..MaxBytes-1 : dst[k] \in DiskBytes
        BY <1>4
      <4> QED BY <2>8, <4>2, <4>3
    <3>4. pc' \in {"tftp", "ok", "failed"}
      BY <2>8
    <3>5. DiskTypeOK'
      BY <1>1, <1>2, <2>5, <2>6, <3>3, <3>4 DEF DiskTypeOK, Typed
    <3>6. pc' = "tftp" => TransferProgress'
      BY <1>1, <1>3, <2>5, <2>8, <3>2, Zenon DEF TransferProgress
    <3>7. ASSUME pc' = "ok"
          PROVE  tftp'.size = req.count /\ \A k \in 0..req.count-1 : dst'[k] = <<source, k>>
      <4>1. n < ps /\ total + n = req.count
        BY <2>3, <2>8, <3>7 DEF Complete
      <4>2. n = left
        BY <1>4, <2>1, <4>1
      <4>3. size = req.count
        BY <1>4, <4>1, <4>2 DEF total, size, left
      <4> QED BY <2>2, <3>2, <4>1, <4>3
    <3>8. CallsDeliver'
      BY <1>1, <1>3, <3>7 DEF CallsDeliver
    <3> QED BY <1>7, <3>4, <3>5, <3>6, <3>8
  <2> QED BY <1>9, <2>7, <2>8
<1> QED BY <1>8, <1>9 DEF TftpRead

LEMMA DiskNextInv == DiskInv /\ [DiskNext]_allVars => DiskInv'
<1> SUFFICES ASSUME DiskInv, [DiskNext]_allVars PROVE DiskInv'
  OBVIOUS
<1>1. ASSUME NEW d \in Devices, NEW r \in ByteReads, DsRead(d, r[1], r[2])
      PROVE  DiskInv'
  <2> DEFINE c == SetCacheToDisk(d)
             q == ByteReq(c, r[1], r[2])
  <2>1. r[1] \in Nat /\ r[2] \in 1..MaxBytes
    BY RequestAssumption
  <2>2. c \in CacheType /\ Geometry(c)
    BY SetCacheKeeps
  <2> HIDE DEF c
  <2>3. q \in ReqType /\ Progress(c, q, Blank)
    BY <2>1, <2>2, ByteReqStarts
  <2>4. q.count <= MaxBytes
    BY <2>3 DEF Progress
  <2>5. DsCall(d, q)
    BY <1>1 DEF DsRead, c
  <2> HIDE DEF q
  <2> QED BY <2>3, <2>4, <2>5, DsCallInv DEF c
<1>2. ASSUME NEW d \in Devices, NEW b \in 0..MaxBlock, NEW n \in 1..MaxBytes,
             DsReadBlocks(d, b, n)
      PROVE  DiskInv'
  <2> DEFINE c == SetCacheToDisk(d)
             q == BlockReq(c, b, n)
  <2>1. b \in Nat /\ n \in Nat /\ n * BlockSizeOf[d] <= MaxBytes
    BY <1>2, GeometryAssumption DEF DsReadBlocks
  <2>2. c \in CacheType /\ Geometry(c) /\ c.block_size = BlockSizeOf[d]
    BY SetCacheKeeps
  <2> HIDE DEF c
  <2>3. q \in ReqType /\ Progress(c, q, Blank)
    BY <2>1, <2>2, BlockReqStarts
  <2>4. q.count <= MaxBytes
    BY <2>3 DEF Progress
  <2>5. DsCall(d, q)
    BY <1>2 DEF DsReadBlocks, c
  <2> HIDE DEF q
  <2> QED BY <2>3, <2>4, <2>5, DsCallInv DEF c
<1>3. CASE UNCHANGED allVars
  <2>1. DiskTypeOK' /\ CallsDeliver'
    BY <1>3 DEF DiskInv, DiskTypeOK, Typed, CallsDeliver, allVars, diskVars, vars
  <2>2. DiskProgress <=> DiskProgress'
    BY <1>3 DEF DiskProgress, allVars, diskVars, vars
  <2>3. TransferProgress <=> TransferProgress'
    BY <1>3 DEF TransferProgress, allVars, diskVars, vars
  <2> QED BY <1>3, <2>1, <2>2, <2>3 DEF DiskInv, allVars, diskVars, vars
<1> QED BY <1>1, <1>2, <1>3, DsTryInv, DsRefillInv, PxeReadFileInv, TftpReadInv
        DEF DiskNext

-----------------------------------------------------------------------------
(* What follows                                                            *)

\* In every reachable state the cache is on the drive of the last ds_read, its
\* window is good while it owns the scratch buffer, and a running transfer has
\* delivered what it says: the invariant the other theorems rest on.
THEOREM DiskAlwaysInv == DiskSpec => []DiskInv
  BY DiskInitInv, DiskNextInv, PTL DEF DiskSpec

\* ds_read and ds_read_blocks that return true have stored bytes of the disk
\* whose handle was passed, and pxe_read_file that returns true the whole file,
\* however calls on several drives and PXE transfers alternate in the buffer.
THEOREM DiskCallsDeliver == DiskSpec => []CallsDeliver
<1>1. DiskInv => CallsDeliver
  BY DEF DiskInv
<1> QED BY <1>1, DiskAlwaysInv, PTL

\* tb_cache claims a window only while it owns the scratch buffer, and the buffer
\* then holds the blocks of the drive of the last call.
THEOREM DiskWindowIsOwned == DiskSpec => []WindowIsOwned
<1>1. DiskInv => WindowIsOwned
  <2> SUFFICES ASSUME DiskInv, ~bc.empty PROVE WindowIsOwned
    BY DEF WindowIsOwned
  <2>1. s_owner = TbCache /\ bc.user_ptr = cache_last_disk_id
    BY DEF DiskInv, FrontsLastDisk, DiskTypeOK
  <2>2. \A p \in 0..WindowBytes(bc)-1 :
          cache_buf[p] = <<bc.user_ptr, WindowStart(bc) + p>>
    BY DEF DiskInv, Coherent
  <2> QED BY <2>1, <2>2 DEF WindowIsOwned, WindowBytes, WindowStart
<1> QED BY <1>1, DiskAlwaysInv, PTL
=============================================================================

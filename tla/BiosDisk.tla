------------------------------ MODULE BiosDisk ------------------------------
(***************************************************************************)
(* BIOS disk and PXE reads through the one shared scratch buffer.          *)
(*                                                                         *)
(* loader/arch/x86/bios/bios_disk_services.c keeps a single block cache,   *)
(* tb_cache, for all drives; its buffer is the scratch buffer of           *)
(* scratch_buffer.c, which bios_pxe_services.c borrows for TFTP packets.   *)
(* Whoever borrows the buffer last owns its contents, so the cache must    *)
(* forget its window whenever the drive or the owner changes.              *)
(***************************************************************************)
EXTENDS BlockCache

CONSTANTS
    Files,          \* files of the TFTP server
    FileSizes,      \* sizes a file may have (bound)
    MaxPacket       \* TFTP_MAX_PACKET_SIZE

ASSUME PacketAssumption ==
    /\ MaxPacket \in 1..BufBytes
    /\ Files \cap Devices = {}
    /\ FileSizes \subseteq 0..MaxBytes

VARIABLES
    cache_last_disk_id, \* drive tb_cache was last set to, NULL before the first
    s_owner,            \* who gave scratch_buffer_borrow its eviction callback
    source,             \* the disk handle or the file the caller named
    tftp                \* the TFTP transfer in progress

diskVars == <<cache_last_disk_id, s_owner, source, tftp>>
allVars == <<vars, diskVars>>

TbCache == "tb_cache"
Tftp == "tftp"
NoTransfer == [left |-> 0, size |-> 0, packet_size |-> 1]

-----------------------------------------------------------------------------
(* scratch_buffer.c                                                        *)

\* MUTANT: the previous owner's callback is not called.
Evicted_NoCallback(c, new_owner) == c

\* replace_owner as seen by tb_cache: its callback tb_cache_invalidate runs
\* when someone else takes the buffer.  TFTP registers no callback.
Evicted(c, new_owner) ==
    IF s_owner = TbCache /\ new_owner # TbCache
    THEN [c EXCEPT !.empty = TRUE] ELSE c

-----------------------------------------------------------------------------
(* bios_disk_services.c                                                    *)

\* MUTANT: the window of the previous drive survives the switch.
SetCacheToDisk_KeepsWindow(d) ==
    IF cache_last_disk_id = d THEN bc
    ELSE [bc EXCEPT !.user_ptr = d, !.block_size = BlockSizeOf[d],
                    !.cache_block_cap = BufBytes \div BlockSizeOf[d]]

\* set_cache_to_disk: nothing to do for the drive of the last call.
SetCacheToDisk(d) ==
    IF cache_last_disk_id = d THEN bc
    ELSE [bc EXCEPT !.user_ptr = d, !.block_size = BlockSizeOf[d],
                    !.cache_block_cap = BufBytes \div BlockSizeOf[d],
                    !.empty = TRUE]

\* ds_read and ds_read_blocks up to the loop of req_exec.
DsCall(d, r) ==
    /\ Quiescent
    /\ bc' = SetCacheToDisk(d)
    /\ cache_last_disk_id' = d
    /\ source' = d
    /\ req' = r
    /\ dst' = Blank
    /\ pc' = "try"
    /\ tftp' = NoTransfer
    /\ UNCHANGED <<cache_buf, refs, s_owner>>

DsRead(d, off, cnt) == DsCall(d, ByteReq(SetCacheToDisk(d), off, cnt))

DsReadBlocks(d, block, n) ==
    /\ n * BlockSizeOf[d] <= MaxBytes
    /\ DsCall(d, BlockReq(SetCacheToDisk(d), block, n))

DsTryCompleteReq == TryCompleteReq /\ UNCHANGED diskVars

\* bios_refill_blocks borrows the scratch buffer before it calls the BIOS.
DsRefillReq ==
    /\ RefillReq
    /\ s_owner' = TbCache
    /\ UNCHANGED <<cache_last_disk_id, source, tftp>>

-----------------------------------------------------------------------------
(* pxe_read_file                                                           *)

\* TFTP_OPEN of a file the server now holds 'size' bytes of, after
\* pxe_get_file_size reported 'expected'.  The call fails, the server
\* negotiates an unusable packet size, or the transfer starts with the loader
\* taking over the scratch buffer.
PxeReadFile(f, expected, size, packet_size) ==
    /\ Quiescent
    /\ source' = f
    /\ req' = [NoReq EXCEPT !.count = expected]
    /\ dst' = Blank
    /\ \/ /\ pc' = "failed"
          /\ tftp' = NoTransfer
          /\ UNCHANGED <<bc, s_owner>>
       \/ /\ packet_size \in 1..MaxPacket
          /\ bc' = Evicted(bc, Tftp)
          /\ s_owner' = Tftp
          /\ tftp' = [left |-> size, size |-> size, packet_size |-> packet_size]
          /\ pc' = "tftp"
    /\ UNCHANGED <<cache_buf, refs, cache_last_disk_id>>

\* A packet shorter than the negotiated size ends the transfer.
LastPacket(n, total) == n < tftp.packet_size

Complete(total) == total = req.count

\* One iteration of the packet loop: TFTP_READ fails, or stores the next packet
\* in the scratch buffer, whence it is copied unless the file has grown past
\* the expected size.
TftpRead ==
    LET total == tftp.size - tftp.left
        n == MinOf(tftp.packet_size, tftp.left)
    IN
    /\ pc = "tftp"
    /\ \/ /\ pc' = "failed"
          /\ UNCHANGED <<cache_buf, dst, tftp>>
       \/ /\ cache_buf' = [p \in 0..BufBytes-1 |->
                             IF p < n THEN <<source, total + p>>
                             ELSE cache_buf[p]]
          /\ tftp' = [tftp EXCEPT !.left = @ - n]
          /\ \/ /\ total + n > req.count
                /\ pc' = "failed"
                /\ UNCHANGED dst
             \/ /\ total + n <= req.count
                /\ dst' = [k \in 0..MaxBytes-1 |->
                             IF k \in total..total+n-1
                             THEN cache_buf'[k - total] ELSE dst[k]]
                /\ pc' = IF ~LastPacket(n, total + n) THEN "tftp"
                         ELSE IF Complete(total + n) THEN "ok" ELSE "failed"
    /\ UNCHANGED <<bc, req, refs, cache_last_disk_id, s_owner, source>>

-----------------------------------------------------------------------------

\* bios_disk_services_init: the scratch buffer is borrowed for a cache that is
\* set to no drive yet.
DiskInit ==
    /\ bc = [ZeroedCache EXCEPT !.block_size = 1, !.empty = TRUE]
    /\ cache_buf = [p \in 0..BufBytes-1 |-> Junk]
    /\ req = NoReq
    /\ dst = Blank
    /\ pc = "idle"
    /\ refs = [id \in RefIds |-> NoRef]
    /\ cache_last_disk_id = NULL
    /\ s_owner = TbCache
    /\ source = NULL
    /\ tftp = NoTransfer

DiskNext ==
    \/ \E d \in Devices, r \in ByteReads : DsRead(d, r[1], r[2])
    \/ \E d \in Devices, b \in 0..MaxBlock, n \in 1..MaxBytes : DsReadBlocks(d, b, n)
    \/ DsTryCompleteReq
    \/ DsRefillReq
    \/ \E f \in Files, expected, size \in FileSizes, ps \in 0..MaxPacket+1 :
          PxeReadFile(f, expected, size, ps)
    \/ TftpRead

\* The loader is single threaded and BIOS calls return.
DiskSpec ==
    /\ DiskInit
    /\ [][DiskNext]_allVars
    /\ WF_allVars(DsTryCompleteReq \/ DsRefillReq \/ TftpRead)

-----------------------------------------------------------------------------

\* A disk read that returns true delivers bytes of the very disk whose handle was
\* passed, never those of the drive the cache served before nor of a TFTP packet
\* that passed through the shared buffer in between.  pxe_read_file returns true
\* only with the complete file in the caller's buffer, even when the file changed
\* size after pxe_get_file_size, or an empty packet ends the transfer.
CallsDeliver ==
    pc = "ok" =>
      /\ source \in Devices /\ Exact(bc, req.start, req.count) =>
           \A k \in 0..req.count-1 : dst[k] = <<source, req.start + k>>
      /\ source \in Files =>
           /\ tftp.size = req.count
           /\ \A k \in 0..req.count-1 : dst[k] = <<source, k>>

\* The cache claims a window only while it owns the scratch buffer, and what it
\* claims is what the buffer holds: the drive's blocks from cache_base on.
WindowIsOwned ==
    ~bc.empty =>
      /\ s_owner = TbCache
      /\ \A p \in 0..bc.cache_block_cap * bc.block_size - 1 :
           cache_buf[p] = <<cache_last_disk_id, bc.cache_base * bc.block_size + p>>

\* Every disk or PXE read returns.
CallsReturn ==
    pc \in {"try", "refill", "tftp"} ~> pc \in {"ok", "failed"}
=============================================================================

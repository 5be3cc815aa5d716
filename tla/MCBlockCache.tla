---------------------------- MODULE MCBlockCache ----------------------------
(***************************************************************************)
(* Small instances of BlockCache: two devices with different block sizes   *)
(* behind one four-byte buffer, so that the window is two blocks of one    *)
(* device and one of the other.                                            *)
(***************************************************************************)
EXTENDS BlockCacheRefinement, TLC

CONSTANTS hd, cd, junk, null

MCDevices == {hd, cd}
MCBlockSizeOf == (hd :> 2) @@ (cd :> 4)
MCDeviceBlocks == (hd :> 4) @@ (cd :> 2)

\* Every range of at most MaxBytes bytes from offsets inside either device.
MCByteReads == (0..7) \X (1..MaxBytes)

\* Ranges that cross block boundaries of the first device at every alignment.
MCFewByteReads == {<<0, 1>>, <<1, 1>>, <<1, 2>>, <<2, 4>>, <<3, 4>>, <<4, 4>>}

\* The requests among them that every copy serves exactly.
MCExactByteReads ==
    {r \in MCFewByteReads : \A d \in Devices : Exact(FreshCache(d), r[1], r[2])}
=============================================================================

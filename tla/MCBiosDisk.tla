----------------------------- MODULE MCBiosDisk -----------------------------
(***************************************************************************)
(* Two drives with different block sizes, one file on the TFTP server, a   *)
(* scratch buffer of four bytes and packets of at most two.                *)
(***************************************************************************)
EXTENDS BiosDisk, TLC

CONSTANTS hd, cd

MCDevices == {hd, cd}
MCBlockSizeOf == (hd :> 2) @@ (cd :> 4)
MCDeviceBlocks == (hd :> 3) @@ (cd :> 2)
MCByteReads == {<<1, 1>>, <<3, 2>>}
=============================================================================

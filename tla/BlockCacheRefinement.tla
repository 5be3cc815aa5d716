------------------------ MODULE BlockCacheRefinement ------------------------
(***************************************************************************)
(* The block cache implements BlockDevice for clients whose byte requests  *)
(* start on a block boundary or stay inside one block.                     *)
(***************************************************************************)
EXTENDS BlockCache

Busy == pc \in {"direct", "try", "refill"}
HasRequest == Busy \/ pc \in {"ok", "failed"}

absStatus ==
    CASE Busy -> "busy"
      [] pc \in {"idle", "released"} -> "idle"
      [] OTHER -> pc
absRequest ==
    IF HasRequest THEN <<bc.user_ptr, req.start, req.count>> ELSE <<>>
absData == IF pc = "ok" THEN [k \in 0..req.count-1 |-> dst[k]] ELSE <<>>

Device == INSTANCE BlockDevice
            WITH status <- absStatus, request <- absRequest, data <- absData

\* A reading client sees the device itself: however the window moves, a request
\* is answered with exactly its bytes or with failure, and it is answered.
ImplementsBlockDevice == Device!Spec
=============================================================================

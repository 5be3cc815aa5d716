---------------------------- MODULE BlockDevice -----------------------------
(***************************************************************************)
(* What a client of the disk services may rely on, whatever caches sit in  *)
(* between: ds_read and ds_read_blocks (include/disk_services.h) either    *)
(* store exactly the requested bytes of the disk or return false, and they *)
(* always return.  A block cache is meant to implement this.               *)
(***************************************************************************)
EXTENDS Integers

CONSTANTS Devices, MaxBytes

VARIABLES
    status,     \* of the only outstanding, or the last, request
    request,    \* <<device, first byte, number of bytes>>
    data        \* the caller's buffer once the request has been served

vars == <<status, request, data>>

NoRequest == <<>>
NoData == <<>>

\* The bytes a served request must have stored.
Content(r) == [k \in 0..r[3]-1 |-> <<r[1], r[2] + k>>]

Init == status = "idle" /\ request = NoRequest /\ data = NoData

Submit ==
    /\ status \in {"idle", "ok", "failed"}
    /\ status' = "busy"
    /\ request' \in Devices \X Nat \X (1..MaxBytes)
    /\ data' = NoData

Deliver ==
    /\ status = "busy"
    /\ status' = "ok"
    /\ data' = Content(request)
    /\ UNCHANGED request

Fail ==
    /\ status = "busy"
    /\ status' = "failed"
    /\ UNCHANGED <<request, data>>

\* The caller turns to something other than reading.
Forget ==
    /\ status \in {"ok", "failed"}
    /\ status' = "idle"
    /\ request' = NoRequest
    /\ data' = NoData

\* The loader panics.
Panic ==
    /\ status' = "panic"
    /\ request' = NoRequest
    /\ data' = NoData

Next == Submit \/ Deliver \/ Fail \/ Forget \/ Panic

SafeSpec == Init /\ [][Next]_vars

\* Every submitted request is answered.
Spec == SafeSpec /\ WF_vars(Deliver \/ Fail)
=============================================================================

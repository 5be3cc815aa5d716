---------------------------- MODULE MCUefiMemory ----------------------------
(***************************************************************************)
(* Machines of eight pages.  A page has room for four entries or two       *)
(* descriptors, so that the buffer for the map has to grow, and one that   *)
(* was allocated early can be too small for the allocations made later.    *)
(***************************************************************************)
EXTENDS UefiMemory

Loader == MEMORY_TYPE_LOADER_RECLAIMABLE

WB(type) == [type |-> type, attribute |-> "WB"]
Soft == [type |-> "conv", attribute |-> "SP"]
Uncached == [type |-> "boot", attribute |-> "UC"]

\* Nothing but free memory; and memory of all kinds around it.
MCFirmware ==
    { [p \in 0..Pages-1 |-> WB("conv")],
      [p \in 0..Pages-1 |-> CASE p = 0 -> WB("nvs")
                              [] p = 1 -> Uncached
                              [] p = 4 -> WB("boot")
                              [] p = Pages - 1 -> Soft
                              [] OTHER -> WB("conv")] }

\* A protocol that keeps loader reclaimable memory apart, and one that does not.
MCProtocols == {AllTypes, AllTypes \ {Loader}}
=============================================================================

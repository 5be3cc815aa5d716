----------------------------- MODULE UltraArch ------------------------------
(***************************************************************************)
(* The address space an Ultra kernel gets on x86: the constants and the    *)
(* choice of a paging mode of loader/arch/x86/boot_protocol/ultra_impl.c   *)
(* and loader/arch/x86/handover_impl.c, and the map_pages calls that       *)
(* do_build_page_table of loader/boot_protocol/ultra.c makes.              *)
(*                                                                         *)
(* All addresses are page numbers.  A set of flags stands for the bits of  *)
(* handover_info.flags.                                                    *)
(***************************************************************************)
EXTENDS PageTable, Pages

CONSTANTS
    GB,              \* pages of a gigabyte
    UpperHalf4,      \* pages of the upper half with four levels
    UpperHalf5       \* and with five

WrapPages == Wrap \div PAGE_SIZE
FourGB == 4 * GB
NoLimit == WrapPages - 1

ultra_higher_half_base(flags) == IF "lme" \in flags THEN WrapPages - 2 * GB ELSE FourGB - GB

ultra_higher_half_size(flags) ==
    (IF "lme" \in flags THEN WrapPages ELSE FourGB) - ultra_higher_half_base(flags)

ultra_direct_map_base(flags) ==
    CASE {"lme", "la57"} \subseteq flags -> WrapPages - UpperHalf5
      [] "lme" \in flags /\ "la57" \notin flags -> WrapPages - UpperHalf4
      [] OTHER -> FourGB - GB

\* The BIOS loader is a 32 bit program, the UEFI loader a 64 bit one.
ultra_max_binary_address(flags, bios) ==
    IF "lme" \in flags THEN (IF bios THEN FourGB ELSE NoLimit) ELSE GB

ultra_direct_map_max_size(flags) == IF "lme" \in flags THEN NoLimit ELSE GB

ultra_identity_map_max_size(flags) == IF "lme" \in flags THEN NoLimit ELSE FourGB - GB

handover_get_max_pt_address(flags) == IF "lme" \in flags THEN FourGB ELSE GB

handover_get_minimum_map_length(flags) == handover_get_max_pt_address(flags)

\* ultra_configure_pt_type: the flags it adds and the type; cpu are the flags that
\* handover_is_flag_supported() reports.
ultra_configure_pt_type(flags, cpu, pt_levels, constraint) ==
    LET lme == "lme" \in flags
        more == IF lme THEN 5 ELSE 3
        feature == IF lme THEN "la57" ELSE "pae"
        takes_more == (pt_levels = more \/ constraint = "at-least") /\ feature \in cpu
        type == IF takes_more THEN more ELSE more - 1
    IN [ok |-> ~(pt_levels = more /\ type # more /\ constraint # "maximum"),
        flags |-> flags \cup (cpu \cap {"pse"}) \cup (IF lme THEN {"pae"} ELSE {})
                        \cup (IF takes_more THEN {feature} ELSE {}),
        type |-> type]

-----------------------------------------------------------------------------
(* The calls of map_pages                                                  *)

\* direct_map_one_range; c is the direct_map_ctx.
direct_map_one_range(c, begin, end, huge) ==
    LET size == IF huge THEN huge_page_size(c.type) ELSE 1
        lower == IF end > begin /\ begin < c.lower_half_limit
                 THEN <<Mapping(begin, begin, (Smaller(end, c.lower_half_limit) - begin) \div size, huge)>>
                 ELSE <<>>
        higher == IF end > begin /\ begin < c.higher_half_limit
                  THEN <<Mapping((c.direct_map_base + begin) % WrapPages, begin,
                                 (Smaller(end, c.higher_half_limit) - begin) \div size, huge)>>
                  ELSE <<>>
    IN lower \o higher

Down(a, n) == a - (a % n)
Up(a, n) == Down(a + n - 1, n)

\* MUTANT: huge pages round out over what follows the range.
HugeEnd_Up(end, size) == Up(end, size)

HugeEnd(end, size) == Down(end, size)

\* direct_map_ram_range: huge pages inside, small ones at the edges.
direct_map_ram_range(c, from, end) ==
    LET hp == huge_page_size(c.type)
        begin == Larger(from, hp)
        huge_begin == Smaller(Up(begin, hp), end)
        huge_end == Larger(HugeEnd(end, hp), huge_begin)
    IN IF end <= begin THEN <<>>
       ELSE direct_map_one_range(c, begin, huge_begin, FALSE)
            \o direct_map_one_range(c, huge_begin, huge_end, TRUE)
            \o direct_map_one_range(c, huge_end, end, FALSE)

map_low_small_pages(c, map_lower, null_guard) ==
    LET hp == huge_page_size(c.type)
        first == IF null_guard THEN 1 ELSE 0
    IN <<Mapping(c.direct_map_base, 0, hp, FALSE)>>
       \o (IF map_lower THEN <<Mapping(first, first, hp - first, FALSE)>> ELSE <<>>)

\* The mapping of the kernel's window when it was loaded at its own address:
\* map_lower_huge_page without a guard, and the rest with huge pages.
HigherHalfWindow(c, flags) ==
    LET hh == ultra_higher_half_base(flags)
        hp == huge_page_size(c.type)
    IN <<Mapping(hh, 0, hp, FALSE),
         Mapping((hh + hp) % WrapPages, hp, (ultra_higher_half_size(flags) \div hp) - 1, TRUE)>>

\* How many root entries it takes to cover the trampoline.
RootEntries(type, length) == ((length - 1) \div Coverage(type, type - 1)) + 1

\* "temporarily expose the direct map's RAM at address zero by copying the root
\* entries that cover it"
WithTrampoline(p, c, length) ==
    LET cov == Coverage(p.type, p.type - 1)
        Copied[i \in 0..RootEntries(p.type, length)] ==
          IF i = 0 THEN p
          ELSE map_copy_root_entry(Copied[i - 1], (c.direct_map_base + (i - 1) * cov) % WrapPages,
                                   (i - 1) * cov)
    IN Copied[RootEntries(p.type, length)]
=============================================================================

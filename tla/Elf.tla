-------------------------------- MODULE Elf ---------------------------------
(***************************************************************************)
(* The ELF loader of loader/elf.c and loader/arch/x86/elf.c.  A file is a  *)
(* record: what the checks of its header see and its program headers.      *)
(* Addresses and sizes are in bytes, modulo Wrap.  The two passes over the *)
(* program headers are operators for one header each; the module that uses *)
(* them runs the loops, reads the file and allocates.                      *)
(***************************************************************************)
EXTENDS Pages, Sequences

CONSTANTS
    EHDR_SIZE,      \* sizeof(struct Elf64_Ehdr)
    PHDR_SIZE,      \* sizeof(struct Elf64_Phdr)
    PN_XNUM,
    MB

ASSUME ElfAssumption == {EHDR_SIZE, PHDR_SIZE, PN_XNUM, MB} \subseteq Nat

ELF_ARCH_I386 == "i386"
ELF_ARCH_AMD64 == "amd64"

\* elf_check_header and elf_do_get_arch
elf_do_get_arch(f) ==
    /\ f.magic /\ f.little_endian /\ f.exec
    /\ f.size > EHDR_SIZE
    /\ f.machine \in {ELF_ARCH_I386, ELF_ARCH_AMD64}
    /\ f.class = (IF f.machine = ELF_ARCH_I386 THEN 32 ELSE 64)

elf_is_supported_load_ctx(f, spec) ==
    IF f.machine = ELF_ARCH_I386 THEN ~spec.alloc_anywhere
    ELSE spec.alloc_anywhere => spec.use_va

elf_check_ph_info(f) ==
    LET end == Plus(f.phoff, f.phentsize * f.phnum)
    IN /\ f.phnum # 0 /\ f.phnum # PN_XNUM
       /\ f.phentsize >= PHDR_SIZE
       /\ end >= f.phoff /\ f.size >= end

\* elf_init_ctx
elf_init_ctx(f, spec) ==
    elf_do_get_arch(f) /\ elf_is_supported_load_ctx(f, spec) /\ elf_check_ph_info(f)

\* The binary before the first pass.
NoBinary == [entrypoint |-> 0, virtual_base |-> Wrap - 1, virtual_ceiling |-> 0,
             physical_base |-> Wrap - 1, physical_ceiling |-> 0]

\* elf_get_ph_if_load
elf_skips(ph) == ~ph.load \/ ph.memsz = 0

\* The physical address the first pass uses.
PhysicalOf(ph, spec) ==
    IF ph.phys_addr >= spec.higher_half_base THEN ph.phys_addr - spec.higher_half_base
    ELSE ph.phys_addr

\* "invalid load address"
BadLoadAddress(ph, spec) ==
    \/ spec.alloc_anywhere /\ ph.virt_addr < spec.higher_half_base
    \/ /\ ph.phys_addr >= spec.higher_half_base
       /\ ~spec.use_va \/ (PhysicalOf(ph, spec) < MB /\ ~spec.alloc_anywhere)

Ceiling(old, end) == Larger(old, end)

\* One header of the first pass.
Measured(bi, ph, spec) ==
    LET virt_end == Plus(ph.virt_addr, ph.memsz)
        phys == PhysicalOf(ph, spec)
        moves == /\ ~spec.use_va
                 /\ bi.entrypoint >= ph.virt_addr /\ bi.entrypoint < virt_end
    IN [entrypoint |-> IF moves THEN Plus(Minus(bi.entrypoint, ph.virt_addr), ph.phys_addr)
                       ELSE bi.entrypoint,
        virtual_base |-> Smaller(bi.virtual_base, ph.virt_addr),
        virtual_ceiling |-> Ceiling(bi.virtual_ceiling, virt_end),
        physical_base |-> Smaller(bi.physical_base, phys),
        physical_ceiling |-> Ceiling(bi.physical_ceiling, Plus(phys, ph.memsz))]

\* "invalid entrypoint address"
BadEntrypoint(bi, spec) ==
    IF spec.use_va THEN bi.entrypoint \notin bi.virtual_base..(bi.virtual_ceiling - 1)
    ELSE bi.entrypoint \notin bi.physical_base..(bi.physical_ceiling - 1)

\* The bounds in whole pages.
Rounded(bi) ==
    [bi EXCEPT !.virtual_base = PAGE_ROUND_DOWN(@), !.virtual_ceiling = PAGE_ROUND_UP(@),
               !.physical_base = PAGE_ROUND_DOWN(@), !.physical_ceiling = PAGE_ROUND_UP(@)]

BinaryPages(bi) == Minus(bi.virtual_ceiling, bi.virtual_base) \div PAGE_SIZE

\* MUTANT: the virtual ceiling is compared.
AboveMax_Virtual(bi, spec) == spec.binary_ceiling # 0 /\ bi.virtual_ceiling > spec.binary_ceiling

\* "load address is above max"
AboveMax(bi, spec) == spec.binary_ceiling # 0 /\ bi.physical_ceiling > spec.binary_ceiling

\* The binary after data_alloc gave it the pages from address.
Placed(bi, address, spec) ==
    [bi EXCEPT !.physical_base = address,
               !.physical_ceiling = IF spec.alloc_anywhere
                                    THEN Plus(address, BinaryPages(bi) * PAGE_SIZE) ELSE @]

\* The checks of the second pass.
BadSegment(f, ph, spec) ==
    LET addr == IF spec.use_va THEN ph.virt_addr ELSE ph.phys_addr
        ph_file_end == Plus(ph.fileoff, ph.filesz)
    IN \/ Plus(addr, ph.memsz) < addr
       \/ ph_file_end < ph.fileoff \/ ph.memsz < ph.filesz \/ f.size < ph_file_end

AnywhereBase(bi, ph, spec) == Plus(bi.physical_base, Minus(ph.virt_addr, bi.virtual_base))

\* Where the second pass puts a segment: memsz bytes from here are written.
load_base(bi, ph, spec) ==
    LET addr == IF spec.use_va THEN ph.virt_addr ELSE ph.phys_addr
    IN IF spec.alloc_anywhere THEN AnywhereBase(bi, ph, spec)
       ELSE IF addr >= spec.higher_half_base THEN addr - spec.higher_half_base ELSE addr
=============================================================================

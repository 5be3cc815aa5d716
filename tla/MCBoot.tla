------------------------------- MODULE MCBoot -------------------------------
(***************************************************************************)
(* The machines and configurations Boot is checked on, and the reference   *)
(* for the parser: a configuration is written as lines, rendered to text,  *)
(* and the buffer that the parser makes of the text is compared with what  *)
(* the lines say.                                                          *)
(*                                                                         *)
(* The scale: a page is 16 bytes, a gigabyte 16 pages, a huge page 4 (or,  *)
(* without PAE, 8) pages, the address space 1024 pages.                    *)
(***************************************************************************)
EXTENDS Boot

MCSizeOf ==
    [context |-> 1, platform |-> 3, kernel |-> 4, module |-> 3, header |-> 1, framebuffer |-> 4,
     apm |-> 2, uefi |-> 2, map |-> 2, gdt |-> 6, compat_code |-> 7, xhi |-> 9]

-----------------------------------------------------------------------------
(* Configurations                                                          *)

Line(kind, indent, key, value) == [kind |-> kind, indent |-> indent, key |-> key, value |-> value]
E(name) == Line("entry", 0, name, <<>>)
V(indent, key, word) == Line("value", indent, key, <<word>>)
O(indent, key) == Line("object", indent, key, <<>>)
Q(indent, key, words) == Line("quoted", indent, key, words)
Remark == Line("remark", 0, "", <<>>)

Spaces(n) == [i \in 1..n |-> " "]

Rendered(l) ==
    Spaces(l.indent)
    \o (CASE l.kind = "entry" -> <<"[", l.key, "]">>
          [] l.kind = "object" -> <<l.key, ":">>
          [] l.kind = "value" -> <<l.key, " ", "=", " ">> \o l.value
          [] l.kind = "quoted" -> <<l.key, "=", "\"">> \o l.value \o <<"\"", " ", "#", "why">>
          [] OTHER -> <<" ", "#", "[", "note", "\r">>)
    \o <<"\n">>

Render(lines) == FoldLeft(LAMBDA text, l : text \o Rendered(l), <<>>, lines)

\* The lines that count.
Meant(lines) == SelectSeq(lines, LAMBDA l : l.kind # "remark")

Unit(ls) ==
    LET indented == {i \in DOMAIN ls : ls[i].indent > 0}
    IN IF indented = {} THEN 1 ELSE ls[Min(indented)].indent

InEntry(ls, i) == \E j \in 1..(i - 1) : ls[j].kind = "entry"

Level(ls, i) ==
    IF ls[i].kind = "entry" THEN 0
    ELSE (ls[i].indent \div Unit(ls)) + (IF InEntry(ls, i) THEN 1 ELSE 0)

\* What a configuration has to look like.
WellFormed(ls) ==
    /\ \A i \in DOMAIN ls : ls[i].indent % Unit(ls) = 0
    /\ \A i \in DOMAIN ls : Level(ls, i) < MAX_DEPTH
    /\ ls # <<>> => ls[1].indent = 0
    /\ \A i \in DOMAIN ls :
         CASE ls[i].kind = "entry" ->
                i < Len(ls) /\ ls[i + 1].kind # "entry" /\ ls[i + 1].indent = 0
           [] ls[i].kind = "object" ->
                i < Len(ls) /\ ls[i + 1].kind # "entry" /\ Level(ls, i + 1) = Level(ls, i) + 1
           [] OTHER -> i < Len(ls) => Level(ls, i + 1) <= Level(ls, i)

\* The line that line i is inside of; 0 for a global one.
Parent(ls, i) ==
    LET above == {j \in 1..(i - 1) : Level(ls, j) < Level(ls, i)}
    IN IF above = {} THEN 0 ELSE Max(above)

Keys(ls) == {ls[i].key : i \in DOMAIN ls}

\* The lines called key inside of line s, from the first to the last.
Inside(ls, s, key) ==
    SelectSeq([i \in DOMAIN ls |-> i],
              LAMBDA i : Parent(ls, i) = s /\ ls[i].kind # "entry" /\ ls[i].key = key)

\* The parser accepts a text if and only if it is well formed, and then each look up,
\* of a global value, of a value of an entry or of a member of an object, finds the
\* values of that name that were written there and no others; an entry is found by
\* its name.  (Line i of the text is slot i - 1 of the buffer.)
ParsedAsWritten ==
    stage = "parse" =>
      LET ls == Meant(m.lines)
          scopes == {0} \cup {i \in DOMAIN ls : ls[i].kind \in {"entry", "object"}}
      IN /\ parse_pc = "failed" => ~WellFormed(ls)
         /\ parse_pc = "parsed" =>
              /\ WellFormed(ls)
              /\ Len(cfg.entries) = Len(ls)
              /\ \A s \in scopes, key \in Keys(ls) :
                   cfg_find(cfg, s, <<key>>) = [n \in DOMAIN Inside(ls, s, key) |-> Inside(ls, s, key)[n] - 1]
              /\ \A i \in DOMAIN ls : ls[i].kind = "entry" =>
                   /\ cfg_get_loadable_entry(cfg, <<ls[i].key>>) + 1 =
                        Min({j \in DOMAIN ls : ls[j].kind = "entry" /\ ls[j].key = ls[i].key})
                   /\ cfg_first_loadable_entry(cfg) + 1 <= i

Shapes ==
    {E("e"), V(0, "a", "1"), V(2, "a", "1"), V(4, "b", "1"), O(0, "a"), O(2, "b"), V(1, "c", "1"),
     Q(2, "b", <<"x", " ", "=">>), Remark}

\* One level after the other.
Ladder(n) == [i \in 1..n |-> O(i - 1, "a")]

Short == UNION {[1..n -> Shapes] : n \in 0..3}
         \cup {<<O(0, "a")>> \o s : s \in [1..3 -> Shapes]}
         \cup {<<E("e"), V(0, "a", "1")>> \o s : s \in [1..3 -> Shapes]}
         \cup {<<E("e"), O(0, "a")>> \o s : s \in [1..3 -> Shapes]}
         \cup {Ladder(n) \o <<V(n, "b", "1"), V(0, "a", "1")>> : n \in 1..MAX_DEPTH + 1}

-----------------------------------------------------------------------------
(* Files                                                                   *)

HH64 == ultra_higher_half_base({"lme"}) * PAGE_SIZE
HH32 == ultra_higher_half_base({}) * PAGE_SIZE

Segment(virt, phys, off, filesz, memsz) ==
    [load |-> TRUE, virt_addr |-> virt, phys_addr |-> phys, fileoff |-> off, filesz |-> filesz, memsz |-> memsz]
Note == [Segment(0, 0, 0, 4, 4) EXCEPT !.load = FALSE]

Elf(machine, entry, phs) ==
    [magic |-> TRUE, little_endian |-> TRUE, exec |-> TRUE, size |-> 44, machine |-> machine,
     class |-> IF machine = "i386" THEN 32 ELSE 64, phoff |-> 4, phentsize |-> 4, phnum |-> Len(phs),
     entry |-> entry, phs |-> phs]

Plain(size) == [Elf("i386", 0, <<>>) EXCEPT !.magic = FALSE, !.size = size]

\* Text, and data whose last page is only zeroes.
Kernel(machine, virt, phys) ==
    Elf(machine, virt + 198, <<Segment(virt + 192, phys + 192, 20, 16, 16), Note,
                              Segment(virt + 208, phys + 208, 36, 8, 24)>>)

K64 == Kernel("amd64", HH64, 0)
K32 == Kernel("i386", HH32, 0)
\* The same kernel with its data in front of its text.
Turned(k) == [k EXCEPT !.phs = <<k.phs[3], k.phs[2], k.phs[1]>>]

MCFiles ==
    [p \in {<<"k64">>, <<"k64-va">>, <<"k64-low">>, <<"k64-turned">>, <<"k32">>, <<"k32-low">>, <<"high">>, <<"entry">>,
            <<"segment">>, <<"empty">>, <<"data">>, <<"low-mb">>, <<"no-phs">>} |->
       CASE p = <<"k64">> -> K64
         [] p = <<"k64-turned">> -> Turned(K64)
         [] p = <<"k64-va">> -> Kernel("amd64", HH64, HH64)
         [] p = <<"k64-low">> -> Kernel("amd64", 0, 0)
         [] p = <<"k32">> -> K32
         [] p = <<"k32-low">> -> Kernel("i386", 0, 0)
         [] p = <<"high">> -> Kernel("i386", 256, 256)
         [] p = <<"entry">> -> [K64 EXCEPT !.entry = 3]
         [] p = <<"segment">> -> [K64 EXCEPT !.phs[3].filesz = 25]
         [] p = <<"low-mb">> -> [K64 EXCEPT !.phs[1].virt_addr = HH64, !.phs[1].phys_addr = HH64]
         [] p = <<"no-phs">> -> [K64 EXCEPT !.phnum = 0]
         [] p = <<"empty">> -> Plain(0)
         [] OTHER -> Plain(20)]

-----------------------------------------------------------------------------
(* Machines                                                                *)

Mode(number, w, h, bpp, kind) ==
    [number |-> number, answers |-> TRUE, width |-> w, height |-> h, kind |-> kind, bpp |-> bpp,
     eight_bits |-> TRUE, r |-> 2, g |-> 1, b |-> 0, x |-> 3, x_size |-> IF bpp = 32 THEN 8 ELSE 0]

Firmware(bios, modes, current, w, h) ==
    [bios |-> bios, modes |-> modes, current |-> current, edid |-> [width |-> w, height |-> h]]

\* A BIOS that lists text modes, a mode without its reserved field, a mode it does not
\* answer for and more modes than there is room for.
VbeModes ==
    <<Mode(1, 2, 2, 32, "text"), Mode(2, 2, 3, 24, "mask"), [Mode(3, 3, 2, 32, "mask") EXCEPT !.x = 0, !.x_size = 0],
      [Mode(4, 9, 9, 32, "mask") EXCEPT !.answers = FALSE], Mode(5, 4, 3, 32, "mask"), Mode(6, 2, 2, 32, "mask"),
      Mode(7, 8, 8, 32, "mask")>>

GopModes == <<Mode(0, 4, 1, 32, "bgrx"), Mode(1, 2, 3, 24, "mask"), Mode(2, 3, 2, 32, "mask"), Mode(3, 4, 3, 32, "bgrx")>>

\* The firmware only offers block transfers for the first mode.
GopSkips == [GopModes EXCEPT ![1].kind = "blt"]

Layout(runs) ==
    LET Of(p) == runs[Min({i \in DOMAIN runs : p < runs[i][1]})][2]
    IN [p \in 0..79 |-> Of(p)]

\* Pages 2.. are above the first megabyte, 16.. above the first gigabyte, 64.. above
\* the fourth.
PcMemory == Layout(<<<<1, "free">>, <<2, "reclaim">>, <<58, "free">>, <<59, "acpi">>, <<60, "nvs">>,
                     <<62, "hole">>, <<64, "reserved">>, <<78, "free">>, <<80, "hole">>>>)
HoleMemory == [PcMemory EXCEPT ![21] = "reserved", ![22] = "hole"]
SmallMemory == [p \in 0..79 |-> IF p \in 10..57 THEN "reserved" ELSE PcMemory[p]]
TinyMemory == [p \in 0..79 |-> IF p \in (2..11) \cup (18..57) THEN "reserved" ELSE PcMemory[p]]
EfiMemory(image) ==
    [p \in 0..79 |-> IF p = image THEN "reclaim"
                     ELSE Layout(<<<<2, "firmware">>, <<30, "free">>, <<31, "acpi">>, <<32, "nvs">>, <<33, "firmware">>,
                                   <<57, "free">>, <<60, "hole">>, <<64, "reserved">>, <<79, "free">>, <<80, "hole">>>>)[p]]

Bios(memory, cpu, video) ==
    [bios |-> TRUE, top_down |-> TRUE, image |-> 1, cpu |-> cpu, files |-> MCFiles, apm |-> TRUE,
     video |-> video, mem |-> memory]
Efi(image, top_down, video) ==
    [bios |-> FALSE, top_down |-> top_down, image |-> image, cpu |-> {"lme", "pae", "pse", "la57"},
     files |-> MCFiles, apm |-> FALSE, video |-> video, mem |-> EfiMemory(image)]

Pc == Bios(PcMemory, {"lme", "pae", "pse"}, Firmware(TRUE, VbeModes, -1, 0, 0))
PcDisplay == [Pc EXCEPT !.video.edid = [width |-> 3, height |-> 3]]
Pc32 == [Pc EXCEPT !.cpu = {"pse"}]
PcHole == [Pc EXCEPT !.mem = HoleMemory]
PcSmall == [Pc EXCEPT !.mem = SmallMemory]
PcTiny == [Pc EXCEPT !.mem = TinyMemory]
EfiLow == Efi(28, FALSE, Firmware(FALSE, GopModes, 2, 0, 0))
EfiHigh == Efi(78, TRUE, Firmware(FALSE, GopModes, 7, 4, 2))
EfiSkips == Efi(40, TRUE, Firmware(FALSE, GopSkips, 3, 0, 0))

-----------------------------------------------------------------------------
(* Boots                                                                   *)

With(machine, lines, boots) ==
    [machine |-> machine, lines |-> lines, boots |-> boots]

Plainly(kernel) == <<E("e"), V(0, "protocol", "ultra"), V(0, "binary", kernel)>>
Anywhere(kernel) == <<E("e"), V(0, "protocol", "ultra"), O(0, "binary"), V(1, "path", kernel), V(1, "allocate-anywhere", "true")>>
NoVideo == <<V(0, "video-mode", "unset")>>
Exclusive == <<V(0, "higher-half-exclusive", "true")>>
Table(levels, constraint, guard) ==
    <<O(0, "page-table"), V(1, "levels", levels), V(1, "constraint", constraint), V(1, "null-guard", guard)>>

\* Everything there is, with addresses the firmware has not used for itself.
Everything(module_at, stack_at) ==
    <<Remark, V(0, "default-entry", "f"), E("e"), V(0, "protocol", "none"), Remark, E("f")>> \o Tail(Plainly("k64"))
    \o <<Q(0, "cmdline", <<"root", "=", "x">>), V(0, "kernel-as-module", "true"), V(0, "module", "data"),
         O(0, "module"), V(1, "name", "n"), V(1, "path", "data"), V(1, "size", "37"), Q(1, "description", <<"a", " ", "b">>),
         O(0, "module"), V(1, "type", "memory"), V(1, "size", "16"), V(1, "load-at", module_at),
         O(0, "stack"), V(1, "size", "20"), V(1, "allocate-at", stack_at),
         V(0, "setup-apm", "true"), V(0, "pass-uefi-info", "true"),
         O(0, "video-mode"), V(1, "width", "4"), V(1, "height", "3")>>

Variants ==
    {Exclusive, Table("5", "maximum", "true"), <<V(0, "cmdline", "x"), V(0, "video-mode", "auto")>>}

\* Documented configurations on machines that can do what they ask for.
GoodBoots ==
    {With(x, Everything("80", "96"), TRUE) : x \in {Pc, EfiHigh}}
    \cup {With(x[1], Plainly(x[2]) \o more, TRUE) :
            x \in {Pc, PcDisplay, EfiHigh} \X {"k64", "k32"} \cup {<<EfiLow, "k64">>}, more \in Variants}
    \cup {With(x[1], Plainly(x[2]) \o NoVideo \o more, TRUE) :
            x \in {<<Pc, "k64-low">>, <<Pc, "k32-low">>, <<EfiHigh, "k64-low">>},
            more \in {<<>>, Table("4", "at-least", "true")}}
    \cup {With(x, Anywhere("k64-va") \o more, TRUE) : x \in {Pc, EfiLow, EfiHigh}, more \in {<<>>, Exclusive}}
    \cup {With(Pc, Plainly("k32") \o NoVideo \o Exclusive \o Table("2", "exactly", "false"), TRUE),
          With(Pc32, Plainly("k32") \o Exclusive, TRUE), With(EfiHigh, Plainly("k32-low") \o NoVideo, TRUE),
          With(Pc, Plainly("k64-turned") \o NoVideo, TRUE),
          With(PcDisplay, Plainly("k64") \o <<O(0, "video-mode"), V(1, "bpp", "24"), V(1, "format", "rgb888")>>, TRUE),
          With(Pc, Plainly("k64") \o <<O(0, "stack"), V(1, "allocate-at", "anywhere")>>, TRUE),
          With(EfiLow, Plainly("k64") \o <<O(0, "video-mode"), V(1, "format", "auto")>>, TRUE)}

\* Configurations that are refused, or that may fail.
OtherBoots ==
    {With(Pc, Plainly(k) \o NoVideo, FALSE) :
       k \in {"high", "entry", "segment", "empty", "data", "low-mb", "no-phs", "nowhere"}}
    \cup {With(Pc, Plainly("k64") \o more, FALSE) :
            more \in {<<V(0, "binary", "k32")>>, <<V(0, "cmdline", "1")>>, Table("3", "maximum", "true"),
                      Table("5", "exactly", "true"), Table("4", "none", "true"), <<V(0, "module", "empty")>>,
                      <<V(0, "module", "nowhere")>>, <<O(0, "module"), V(1, "type", "memory")>>,
                      <<O(0, "module"), V(1, "path", "data"), V(1, "size", "0")>>,
                      <<O(0, "module"), V(1, "path", "data"), V(1, "load-at", "1040")>>,
                      <<O(0, "module"), V(1, "path", "data"), V(1, "load-at", "16")>>,
                      <<O(0, "module"), V(1, "path", "data"), V(1, "size", "1040")>>,
                      <<V(0, "module", "data"), V(0, "module", "1")>>,
                      <<O(0, "module"), Q(1, "name", <<"a", "b", "c">>), V(1, "path", "data")>>,
                      <<O(0, "module"), V(1, "path", "data"), Q(1, "description", <<"a", "b", "c", "d">>)>>,
                      <<Q(0, "cmdline", <<"a", "b", "c", "d">>)>>, <<V(0, "stack", "none")>>, <<O(0, "stack"), V(1, "size", "0")>>,
                      <<O(0, "stack"), V(1, "allocate-at", "1040"), V(1, "size", "16376")>>,
                      <<O(0, "stack"), V(1, "allocate-at", "1184"), V(1, "size", "1040")>>,
                      <<O(0, "video-mode"), V(1, "width", "4")>>,
                      <<O(0, "video-mode"), V(1, "width", "7"), V(1, "height", "7")>>,
                      <<O(0, "video-mode"), V(1, "format", "xrgb")>>, <<V(0, "setup-apm", "1")>>}}
    \cup {With(Pc, Plainly("k64-low") \o Exclusive, FALSE), With(Pc, Anywhere("k32"), FALSE),
          With(Pc32, Plainly("k64"), FALSE), With(Pc, <<E("e"), V(0, "binary", "k64")>>, FALSE),
          With(Pc, <<V(0, "default-entry", "g")>> \o Plainly("k64"), FALSE),
          With(EfiLow, Plainly("k64") \o <<O(0, "stack"), V(1, "allocate-at", "anywhere")>>, FALSE),
          With(EfiSkips, Plainly("k64"), FALSE), With(EfiSkips, Plainly("k64") \o NoVideo \o Exclusive, FALSE),
          With(PcHole, Plainly("k64") \o NoVideo, FALSE), With(PcHole, Plainly("k32") \o NoVideo, FALSE),
          \* Too little memory is left where it is needed.
          With(EfiLow, Plainly("k32") \o Exclusive, FALSE), With(EfiLow, Plainly("k32") \o NoVideo, FALSE),
          With(EfiLow, Everything("1120", "1184"), FALSE), With(PcSmall, Everything("80", "96"), FALSE), 
          With(PcSmall, Plainly("k32"), FALSE), With(PcSmall, Plainly("k64"), FALSE),
          With(PcTiny, Plainly("k64"), FALSE), With(PcTiny, Plainly("k32") \o Table("4", "at-least", "true"), FALSE)}

Machine(b) ==
    [bios |-> b.machine.bios, top_down |-> b.machine.top_down, image |-> b.machine.image,
     cpu |-> b.machine.cpu, files |-> b.machine.files, apm |-> b.machine.apm, video |-> b.machine.video,
     mem |-> b.machine.mem, lines |-> b.lines, text |-> Render(b.lines), boots |-> b.boots]

BootMachines == {Machine(b) : b \in GoodBoots \cup OtherBoots}
TextMachines == {Machine(With(Pc, lines, FALSE)) : lines \in Short}
MCMachines == BootMachines \cup TextMachines

Numbers ==
    [w \in {"0", "1", "2", "3", "4", "5", "7", "16", "20", "24", "37", "80", "96", "1120", "1184", "1040", "16376"} |->
       CASE w = "0" -> 0 [] w = "1" -> 1 [] w = "2" -> 2 [] w = "3" -> 3 [] w = "4" -> 4 [] w = "5" -> 5
         [] w = "7" -> 7 [] w = "16" -> 16 [] w = "20" -> 20 [] w = "24" -> 24 [] w = "37" -> 37
         [] w = "80" -> 80 [] w = "96" -> 96 [] w = "1120" -> 1120 [] w = "1184" -> 1184 [] w = "1040" -> 1040 [] OTHER -> 16376]
MCFixedSizes == 0..400
=============================================================================

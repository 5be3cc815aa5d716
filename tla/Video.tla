------------------------------- MODULE Video --------------------------------
(***************************************************************************)
(* The video services of loader/arch/x86/bios/bios_video_services.c and    *)
(* loader/uefi/uefi_video_services.c, and the choice of a mode by          *)
(* loader/boot_protocol/ultra.c.                                           *)
(*                                                                         *)
(* What the firmware offers is a record: its list of modes, the mode it is *)
(* in (-1 for text) and the resolution of the EDID block, if it is valid.  *)
(* The masks of a mode are reduced to the byte each colour is in.          *)
(***************************************************************************)
EXTENDS Integers, Sequences, SequencesExt

CONSTANTS
    MODE_BUFFER_CAPACITY,
    ModeIndexSpan         \* 2^16: a BIOS mode id is number * span + index

ASSUME VideoAssumption == MODE_BUFFER_CAPACITY <= ModeIndexSpan

FB_FORMAT_INVALID == "invalid"

fb_format_from_mask_shifts_8888(r, g, b, x, bpp) ==
    CASE bpp = 24 /\ <<b, g, r>> = <<0, 1, 2>> -> "rgb888"
      [] bpp = 24 /\ <<r, g, b>> = <<0, 1, 2>> -> "bgr888"
      [] bpp = 32 /\ <<x, b, g, r>> = <<0, 1, 2, 3>> -> "rgbx8888"
      [] bpp = 32 /\ <<b, g, r, x>> = <<0, 1, 2, 3>> -> "xrgb8888"
      [] OTHER -> FB_FORMAT_INVALID

\* The reserved component of a 32 bit mode: "Some BIOSes don't bother filling the
\* reserved component's shift and size values".
GuessedShift(m) ==
    IF m.x_size # 0 \/ m.x # 0 THEN m.x
    ELSE CASE m.r + m.g + m.b = 3 -> 3
           [] m.r + m.g + m.b = 4 -> 2
           [] m.r + m.g + m.b = 5 -> 1
           [] OTHER -> 0

\* mode_fb_format
mode_fb_format(m) ==
    IF m.kind # "mask" \/ ~m.eight_bits \/ (m.bpp = 32 /\ m.x_size \notin {0, 8})
    THEN FB_FORMAT_INVALID
    ELSE fb_format_from_mask_shifts_8888(m.r, m.g, m.b,
           IF m.bpp = 32 THEN GuessedShift(m) ELSE m.x, m.bpp)

\* The bits per pixel and the format of a mode of the graphics output protocol.
gop_bpp(m) == IF m.kind = "mask" /\ m.x_size = 0 THEN 24 ELSE 32
gop_format(m) ==
    CASE m.kind = "bgrx" -> "xrgb8888"
      [] m.kind = "mask" /\ m.eight_bits /\ m.x_size \in {0, 8} ->
           fb_format_from_mask_shifts_8888(m.r, m.g, m.b, IF m.x_size = 0 THEN 0 ELSE m.x, gop_bpp(m))
      [] OTHER -> FB_FORMAT_INVALID

VideoMode(w, h, bpp, format, id) ==
    [width |-> w, height |-> h, bpp |-> bpp, format |-> format, id |-> id]

\* fetch_all_video_modes
fetch_all_video_modes(fw) ==
    LET usable == SelectSeq(fw.modes, LAMBDA m : m.answers /\ mode_fb_format(m) # FB_FORMAT_INVALID)
        kept == SubSeq(usable, 1, IF Len(usable) <= MODE_BUFFER_CAPACITY THEN Len(usable)
                                  ELSE MODE_BUFFER_CAPACITY)
    IN [i \in 1..Len(kept) |->
          VideoMode(kept[i].width, kept[i].height, kept[i].bpp, mode_fb_format(kept[i]),
                    kept[i].number * ModeIndexSpan + (i - 1))]

\* gfx_modes_init
gfx_modes_init(fw) ==
    LET usable == SelectSeq(fw.modes, LAMBDA m : m.answers /\ gop_format(m) # FB_FORMAT_INVALID)
    IN [i \in 1..Len(usable) |->
          VideoMode(usable[i].width, usable[i].height, gop_bpp(usable[i]), gop_format(usable[i]),
                    usable[i].number)]

video_modes(fw) == IF fw.bios THEN fetch_all_video_modes(fw) ELSE gfx_modes_init(fw)

NoMode == VideoMode(0, 0, 0, FB_FORMAT_INVALID, 0)
NotFound == [found |-> FALSE, mode |-> NoMode]

\* vs_get_current_mode: BIOS starts in a text mode.
vs_get_current_mode(fw) ==
    LET hits == SelectSeq(video_modes(fw), LAMBDA m : m.id = fw.current)
    IN IF fw.bios \/ hits = <<>> THEN NotFound ELSE [found |-> TRUE, mode |-> hits[1]]

-----------------------------------------------------------------------------
(* The choice                                                              *)

\* MUTANT: the wider mode wins, whatever its height.
vm_is_preferable_Width(m, best) ==
    IF m.width # best.width THEN m.width > best.width ELSE m.bpp > best.bpp

vm_is_preferable(m, best) ==
    LET m_area == m.width * m.height
        best_area == best.width * best.height
    IN IF m_area # best_area THEN m_area > best_area ELSE m.bpp > best.bpp

\* The modes a loop over all of them lets through, and the one it ends with.
Matching(fw, format, bpp) ==
    SelectSeq(video_modes(fw), LAMBDA m : /\ format # FB_FORMAT_INVALID => m.format = format
                                          /\ bpp # 0 => m.bpp = bpp)

pick_largest_mode(fw, max_width, max_height, format, bpp) ==
    LET fits == SelectSeq(Matching(fw, format, bpp),
                  LAMBDA m : max_width # 0 => m.width <= max_width /\ m.height <= max_height)
        Better(best, m) == IF best.found /\ ~vm_is_preferable(m, best.mode) THEN best
                           ELSE [found |-> TRUE, mode |-> m]
    IN FoldLeft(Better, NotFound, fits)

pick_exact_mode(fw, rm) ==
    LET fits == SelectSeq(Matching(fw, rm.format, 0),
                  LAMBDA m : /\ m.width = rm.width /\ m.height = rm.height
                             /\ rm.has_bpp => m.bpp = rm.bpp)
        Better(best, m) == IF best.found /\ m.bpp <= best.mode.bpp THEN best
                           ELSE [found |-> TRUE, mode |-> m]
    IN FoldLeft(Better, NotFound, fits)

pick_auto_mode(fw, rm) ==
    LET bpp == IF rm.has_bpp THEN rm.bpp ELSE 0
        native == IF fw.edid.width = 0 \/ fw.edid.height = 0 THEN NotFound
                  ELSE pick_largest_mode(fw, fw.edid.width, fw.edid.height, rm.format, bpp)
        current == vs_get_current_mode(fw)
    IN CASE native.found -> native
         [] ~native.found /\ ~rm.has_bpp /\ rm.format = FB_FORMAT_INVALID /\ current.found -> current
         [] OTHER -> pick_largest_mode(fw, 0, 0, rm.format, bpp)

-----------------------------------------------------------------------------
(* Setting a mode                                                          *)

\* The position in the table that vs_set_mode takes an id for.  Under UEFI it is
\* the id itself, the firmware's number of the mode.
TableIndex(fw, id) == IF fw.bios THEN id % ModeIndexSpan ELSE id

ModeNumber(fw, id) == IF fw.bios THEN id \div ModeIndexSpan ELSE id

\* vs_set_mode: its BUG_ON, or the framebuffer it reports when the firmware did as
\* asked.  Size and place come from the firmware under UEFI and from the table
\* under BIOS, depth and format from the table.
vs_set_mode(fw, id) ==
    LET modes == video_modes(fw)
        vm == modes[TableIndex(fw, id) + 1]
        set == CHOOSE m \in ToSet(fw.modes) : m.number = ModeNumber(fw, id)
    IN IF TableIndex(fw, id) >= Len(modes) THEN [out |-> "bug", fb |-> NoMode]
       ELSE [out |-> "set",
             fb |-> VideoMode(IF fw.bios THEN vm.width ELSE set.width,
                              IF fw.bios THEN vm.height ELSE set.height, vm.bpp, vm.format, set.number)]
=============================================================================

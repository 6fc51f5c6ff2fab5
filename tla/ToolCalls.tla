------------------------------ MODULE ToolCalls ------------------------------
(***************************************************************************)
(* The register accesses the programs make, each a call of VgaPorts'       *)
(* macros, in the order of the source: unlock, special, Set_Textmode and   *)
(* set_charwidth, which SVGATextMode, grabmode, setVGAreg and set80 share, *)
(* the S3 font commands of SVGATextMode, setVGAreg, set80 -a and the two   *)
(* palette tools.  A program is the sequence of its calls.                 *)
(***************************************************************************)
EXTENDS VgaPorts

CONSTANT DacSize      \* entries of the DAC's palette; 256 in a VGA
ASSUME DacSizeAssumption == DacSize \in 17..256

Out(s, i, d) == [do |-> "out", set |-> s, index |-> i, data |-> d]
In(s, i)     == [do |-> "in", set |-> s, index |-> i]
\* Read, keep the bits of keep, add those of or, write.
Modify(s, i, keep, or) == [do |-> "modify", set |-> s, index |-> i, keep |-> keep, or |-> or]
Outbit(s, i, b, on) == Modify(s, i, 255 - 2^b, IF on THEN 2^b ELSE 0)
Colour(i, rgb) == [do |-> "rgb", set |-> "DAC", index |-> i, rgb |-> rgb]
Dump(i)        == [do |-> "dump", set |-> "DAC", index |-> i]
Call(name)     == [do |-> name, set |-> "none"]     \* a call that uses no port

UNLOCK_STD_VGA == Outbit("CRTC", 17, 7, FALSE)
SCREEN_ON      == Outbit("SEQ", 1, 5, FALSE)

(***************************************************************************)
(* unlock and special, by kind of chipset.                                 *)
(***************************************************************************)
WDCs == {"PVGA1", "WDC90C0X", "WDC90C1X", "WDC90C2X", "WDC90C3X"}

Unlock(chipset, tgui9440) == <<UNLOCK_STD_VGA>> \o
  CASE chipset = "CIRRUS" -> <<Out("SEQ", 6, 18)>>
    [] chipset = "S3" -> <<Out("CRTC", 57, 165), Out("CRTC", 56, 72),
                           Outbit("CRTC", 53, 4, FALSE), Outbit("CRTC", 53, 5, FALSE),
                           Outbit("CRTC", 52, 5, FALSE), Outbit("CRTC", 52, 7, FALSE)>>
    [] chipset \in {"ET4000", "ET3000"} -> <<Out("PORT", 959, 3), Out("PORT", 984, 160)>>
    [] chipset \in {"ATI", "ATIMACH32", "ATIMACH64"} ->
         <<Modify("EXT", 180, 3, 0), Modify("EXT", 184, 192, 0),
           Modify("EXT", 185, 127, 0), Modify("EXT", 190, 255, 1)>>
    [] chipset \in WDCs ->
         <<Modify("GR", 15, 128, 5)>>
         \o (IF chipset = "PVGA1" THEN <<>>
             ELSE <<Modify("CRTC", 41, 112, 133), Modify("CRTC", 42, 248, 0)>>)
         \o (IF chipset \in {"PVGA1", "WDC90C0X"} THEN <<>> ELSE <<Out("SEQ", 6, 72)>>)
         \o (IF chipset \in {"WDC90C2X", "WDC90C3X"} THEN <<Out("CRTC", 52, 166)>> ELSE <<>>)
    [] chipset \in {"ALI", "AL2101"} -> <<Outbit("CRTC", 26, 4, TRUE)>>
    [] chipset \in {"OTI67", "OTI77"} -> <<Modify("EXT", 12, 240, 0)>>
    [] chipset = "SIS" -> <<Out("SEQ", 5, 134)>>
    [] chipset = "ARK" -> <<Outbit("SEQ", 29, 0, TRUE)>>
    [] chipset \in {"NCR22E", "NCR32"} -> <<Outbit("SEQ", 5, 0, TRUE)>>
    [] chipset = "MX" -> <<Outbit("SEQ", 101, 6, TRUE), Out("SEQ", 167, 135)>>
    [] chipset = "ET6000" -> <<Modify("PORT", 984, 255, 160)>>
    [] chipset = "TGUI" -> <<Out("SEQ", 14, IF tgui9440 THEN 194 ELSE 130)>>
    [] chipset = "NEOMAGIC" -> <<Out("GR", 9, 38)>>
    [] OTHER -> <<>>

\* The DRAM speed bits of an S3; with several options the last one stays.
DramSpeed == <<[o |-> "XFAST_DRAM", bits |-> 0], [o |-> "FAST_DRAM", bits |-> 16],
               [o |-> "MED_DRAM", bits |-> 80], [o |-> "SLOW_DRAM", bits |-> 160]>>

\* early is what the ET4000's chip number tells: made before the W32p.
Special(chipset, options, early) ==
  CASE chipset = "ATI" -> <<Modify("EXT", 176, 247, 0)>>
    [] chipset = "S3" ->
         LET set == SelectSeq(DramSpeed, LAMBDA d : d.o \in options) IN
         IF set = <<>> THEN <<In("CRTC", 84)>>
                       ELSE <<Modify("CRTC", 84, 7, set[Len(set)].bits)>>
    [] chipset \in {"ET4000", "ET6000"} ->
         <<Out("SEQ", 6, 0), Out("ATR", 22, 0), Out("CRTC", 53, 0), Out("CRTC", 63, 0),
           Out("PORT", 973, 0), Out("PORT", 971, 0), Out("CRTC", 51, 0)>>
         \o IF chipset = "ET4000"
            THEN <<Out("PORT", 8570, 247), Modify("PORT", 8571, 126, 0),
                   Out("PORT", 8570, 236), In("PORT", 8571),
                   Out("CRTC", 48, IF early THEN 28 ELSE 0)>>
            ELSE <<Modify("PORT", 65, 255, 16), Out("PORT", 64, 0), Out("PORT", 66, 0),
                   Out("PORT", 103, 13), Out("PORT", 105, 0), Out("ATR", 22, 0)>>
    [] chipset = "NEOMAGIC" /\ "TOPLEFT" \in options ->
         <<Out("GR", 37, 0), Out("GR", 47, 0), Out("GR", 48, 0), Out("GR", 130, 0)>>
    [] OTHER -> <<>>

(***************************************************************************)
(* The standard text mode.                                                 *)
(***************************************************************************)
TXT_CRTC_REGS == <<95, 79, 80, 130, 85, 129, 191, 31, 0, 79, 13, 14, 0, 0, 5, 0,
                   156, 142, 143, 40, 31, 150, 185, 163, 255>>
TXT_ATRCTL_REGS == <<0, 1, 2, 3, 4, 5, 6, 7, 8, 9, 10, 11, 12, 13, 14, 15,
                     12, 0, 15, 8, 0>>
TXT_GRCTL_REGS == <<0, 0, 0, 0, 0, 16, 14, 0, 255>>
TXT_SEQ_REGS == <<3, 0, 3, 0, 2>>
STD_PALETTE(i) ==
  LET Gun(high, low) == 42 * Bit(i, high) + 21 * Bit(i, low) IN
  IF i < 16 THEN <<Gun(2, 3), Gun(1, 3), Gun(0, 3)>> ELSE <<Gun(2, 5), Gun(1, 4), Gun(0, 3)>>
StdColour(i) == IF i < 64 THEN STD_PALETTE(i) ELSE <<0, 0, 0>>

Each(s, table) == [k \in 1..Len(table) |-> Out(s, k - 1, table[k])]
Set_Textmode(set_all) ==
  IF set_all
    THEN <<Out("PORT", 962, 103)>> \o Each("SEQ", TXT_SEQ_REGS) \o Each("CRTC", TXT_CRTC_REGS)
         \o Each("GR", TXT_GRCTL_REGS) \o Each("ATR", TXT_ATRCTL_REGS)
         \o [k \in 1..DacSize |-> Colour(k - 1, StdColour(k - 1))]
    ELSE <<Modify("GR", 6, 254, 0)>> \o Each("ATR", SubSeq(TXT_ATRCTL_REGS, 1, 16))
         \o <<Modify("ATR", 16, 254, 0), Out("GR", 8, 255)>>

SET_PIXELPAN(n) == Modify("ATR", 19, 240, n)
set_charwidth(width, iso) ==
  IF width = 8 THEN <<Outbit("SEQ", 1, 0, TRUE), SET_PIXELPAN(0)>>
  ELSE <<Outbit("SEQ", 1, 0, FALSE), SET_PIXELPAN(8), Outbit("ATR", 16, 2, ~iso)>>

\* set80 -a, after it has resized the consoles.
Set80All == <<Out("PORT", 972, 0), Out("PORT", 970, 1), UNLOCK_STD_VGA>> \o Set_Textmode(TRUE)

(***************************************************************************)
(* S3 cards: the font is stored and fetched in one of two orders, bit 5 of *)
(* CRTC 3A and bit 6 of CRTC 31.  SVGATextMode runs the font program       *)
(* between the two commands; hstext is what the option and the clock ask   *)
(* for, since option LoadFont is set whenever it runs one.                 *)
(***************************************************************************)
\* Mutant: bit 5 of CRTC 3A is not reset first.
S3_StartNoReset(hstext) ==
  <<In("CRTC", 49)>>
  \o IF hstext THEN <<Outbit("CRTC", 58, 5, TRUE), Outbit("CRTC", 49, 6, TRUE)>>
               ELSE <<Outbit("CRTC", 49, 6, FALSE)>>
S3_StartHSText_FontLoad(hstext) ==
  <<In("CRTC", 49), Outbit("CRTC", 58, 5, FALSE)>>
  \o IF hstext THEN <<Outbit("CRTC", 58, 5, TRUE), Outbit("CRTC", 49, 6, TRUE)>>
               ELSE <<Outbit("CRTC", 49, 6, FALSE)>>
S3_EndHSText_FontLoad == Outbit("CRTC", 58, 5, FALSE)
LoadFont(hstext) == <<In("CRTC", 49)>> \o S3_StartHSText_FontLoad(hstext)
                    \o <<Call("fontprog"), S3_EndHSText_FontLoad>>

(***************************************************************************)
(* setVGAreg [-u] [-s] [-c] and getVGAreg, for the register sets CRTC,     *)
(* SEQ, ATRCTL, GRCTL, MISC, DAC_MASK and io.                              *)
(***************************************************************************)
SetMasked(s, i, data, masks) ==
  CASE masks = {}         -> Out(s, i, data)
    [] masks = {"s"}      -> Modify(s, i, 255, data)
    [] masks = {"c"}      -> Modify(s, i, 255 - data, 0)
    [] masks = {"s", "c"} -> Modify(s, i, 255, 0)   \* the bits cleared are set again
SetVGAreg(unlocked, s, i, data, masks) == unlocked \o <<SetMasked(s, i, data, masks), In(s, i)>>
GetVGAreg(unlocked, s, i) == unlocked \o <<In(s, i)>>

(***************************************************************************)
(* setpalette and getpalette.  Colours are given as numbers of 8 or 6      *)
(* bits; the DAC takes 6.  A line that lacks a number is "bad".            *)
(***************************************************************************)
ProgramRgb(line, eightbit) ==
  Colour(line[1], [k \in 1..3 |-> IF eightbit THEN line[2][k] \div 4 ELSE line[2][k]])
SetPalette(lines, eightbit, tellkernel) ==
  LET set == [k \in 1..Len(lines) |-> IF lines[k] = "bad" THEN Call("bad")
                                      ELSE ProgramRgb(lines[k], eightbit)] IN
  IF tellkernel THEN <<Call("GIO_CMAP")>> \o set \o <<Call("PIO_CMAP")>> ELSE set
SetPaletteStd(tellkernel) ==
  SetPalette([k \in 1..DacSize |-> <<k - 1, StdColour(k - 1)>>], FALSE, tellkernel)
SetPalettePipe == <<Call("GIO_CMAP"), Call("lines"), Call("PIO_CMAP")>>
GetPaletteAll == [k \in 1..DacSize |-> Dump(k - 1)] \o <<Call("exit")>>
=============================================================================

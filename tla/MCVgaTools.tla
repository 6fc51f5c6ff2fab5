----------------------------- MODULE MCVgaTools -----------------------------
(* VgaTools with two programs: every call sequence beside the kernel, and  *)
(* the pairs that meet in the same registers beside each other.            *)
EXTENDS VgaTools

CONSTANTS p1, p2

MCPalettes == {[i \in Text |-> <<11 * i, 255 - i, 170>>]}

Alone(c) == [calls |-> [p \in Programs |-> IF p = p1 THEN c ELSE <<>>], bursts |-> 1, kills |-> 0]
Both(c, d, n, k) == [calls |-> [p \in Programs |-> IF p = p1 THEN c ELSE d], bursts |-> n, kills |-> k]

Chipsets == WDCs \cup {"CIRRUS", "S3", "ET4000", "ATI", "ALI", "OTI67", "SIS", "ARK",
                       "NCR32", "MX", "ET6000", "TGUI", "NEOMAGIC", "MACH64"}
Unlocks == {Unlock(c, FALSE) : c \in Chipsets} \cup {Unlock("TGUI", TRUE)}
Specials == {Special(c, o, e) : c \in {"ATI", "S3", "ET4000", "ET6000", "NEOMAGIC"},
                                o \in {{}, {"FAST_DRAM", "TOPLEFT"}}, e \in BOOLEAN}
Charwidths == {set_charwidth(w, iso) : w \in {8, 9}, iso \in BOOLEAN}
Single(s, i, d) == {SetVGAreg(<<>>, s, i, d, m) : m \in SUBSET {"s", "c"}}
Registering == Single("CRTC", 9, 235) \cup Single("ATR", 16, 44) \cup Single("PORT", 962, 4)
               \cup {GetVGAreg(<<>>, "ATR", 16)}
Painted == {<<<<1, <<63, 0, 21>>>>, <<4, <<42, 42, 1>>>>, <<16, <<9, 9, 9>>>>, <<4, <<0, 100, 300>>>>>>,
            <<<<2, <<1, 2, 3>>>>, "bad">>}
Painting == {SetPalette(l, e, t) : l \in Painted, e \in BOOLEAN, t \in BOOLEAN}
Fonts == {LoadFont(TRUE), LoadFont(FALSE)}

PipeJobs == {Both(GetPaletteAll, SetPalettePipe, 0, 0)}

MCJobs ==
  {Alone(c) : c \in Unlocks \cup Specials \cup Charwidths \cup {Set_Textmode(FALSE)}}
  \cup {Alone(c) : c \in Registering \cup Painting}
  \cup {Both(c, SetVGAreg(<<>>, "ATR", 16, 44, {}), 0, 1) : c \in {SetVGAreg(<<>>, "ATR", 19, 8, {})}}
  \cup {Both(c, SetVGAreg(<<>>, "CRTC", 9, 64, {"c"}), 0, 1) : c \in {SetVGAreg(<<>>, "CRTC", 9, 3, {"s"})}}
  \cup {Both(c, SetPalette(<<<<3, <<5, 6, 7>>>>>>, FALSE, TRUE), 0, 1) :
           c \in {SetPalette(<<<<1, <<63, 0, 21>>>>>>, FALSE, TRUE), SetPalette(<<<<1, <<63, 0, 21>>>>, "bad">>, FALSE, TRUE)}}
  \cup {Alone(c) : c \in Fonts} \cup {Both(LoadFont(TRUE), LoadFont(FALSE), 0, 1)}
  \cup PipeJobs
  \cup {Both(c, <<>>, 0, 0) : c \in {SetPaletteStd(TRUE), Set80All}}
=============================================================================

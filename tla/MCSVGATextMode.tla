--------------------------- MODULE MCSVGATextMode ---------------------------
(* SVGATextMode on two sizes and two terminals.                            *)
EXTENDS SVGATextMode

CONSTANTS text, wide, tiny, vt1, vt2

MCSize == {text, wide}
MCVT == {vt1, vt2}
MCTermLines == {{}, {vt1}}
=============================================================================

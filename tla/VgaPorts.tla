------------------------------ MODULE VgaPorts ------------------------------
(***************************************************************************)
(* The ports of a VGA, and the sequences of port accesses that the macros  *)
(* and functions of src/vga_prg.h and src/vga_prg.c make of one register   *)
(* access.  A CPU instruction (one access) is the unit: between any two of *)
(* them the kernel or another program may use the same ports.              *)
(*                                                                         *)
(* A card is [ix, reg, flip, dac]: the index each index port holds, the    *)
(* registers behind the data ports, the flip-flop of the attribute         *)
(* controller (TRUE when its one port takes data next) and the DAC with    *)
(* the one address counter its read and write index ports share.           *)
(***************************************************************************)
EXTENDS Integers, Sequences

\* Index port and data port side by side; EXT is ATI's and Oak's own pair.
Indexed == {"CRTC", "SEQ", "GR", "EXT"}
NoColour == <<0, 0, 0>>

Bit(n, k) == (n \div 2^k) % 2
OfBits(On(_)) == On(0) + 2 * On(1) + 4 * On(2) + 8 * On(3)
                 + 16 * On(4) + 32 * On(5) + 64 * On(6) + 128 * On(7)
BitAnd(a, b) == OfBits(LAMBDA k : Bit(a, k) * Bit(b, k))
BitOr(a, b)  == a + b - BitAnd(a, b)

(***************************************************************************)
(* Accesses.                                                               *)
(***************************************************************************)
Outw(s, i, d) == [op |-> "outw", set |-> s, index |-> i, data |-> d]
OutIndex(s, i) == [op |-> "index", set |-> s, index |-> i]
OutData(s, d) == [op |-> "outd", set |-> s, data |-> d]
InData(s)     == [op |-> "data", set |-> s]
OutPort(i, d) == [op |-> "outb", set |-> "PORT", index |-> i, data |-> d]
InPort(i)     == [op |-> "inb", set |-> "PORT", index |-> i]
InStatus      == [op |-> "status", set |-> "ATR"]
OutAtr(d)     == [op |-> "outa", set |-> "ATR", data |-> d]
InAtr(kept)   == [op |-> "ina", set |-> "ATR", kept |-> kept]
DacIndex(i)   == [op |-> "dac", set |-> "DAC", index |-> i]
OutDac(v)     == [op |-> "outc", set |-> "DAC", data |-> v]
InDac         == [op |-> "inc", set |-> "DAC"]

\* What an access leaves the program with: nothing, or the byte read.
Reads(c, a) ==
  CASE a.op = "data" -> <<c.reg[a.set][c.ix[a.set]]>>
    [] a.op = "inb"  -> <<c.reg["PORT"][a.index]>>
    [] a.op = "ina" /\ a.kept -> <<c.reg["ATR"][c.ix["ATR"] % 32]>>
    [] a.op = "inc"  -> <<c.dac.col[c.dac.at][c.dac.n + 1]>>
    [] a.op \in {"outw", "index", "outd", "outb", "status", "outa", "dac", "outc"} -> <<>>
    [] a.op = "ina" /\ ~a.kept -> <<>>

\* The DAC's counter after one colour component: three make an entry.
DacStep(dac) == [dac EXCEPT !.n = (@ + 1) % 3,
                            !.at = IF dac.n = 2 THEN (@ + 1) % dac.size ELSE @]
DacTakes(dac, v) ==
  LET put == [dac EXCEPT !.got[dac.n + 1] = v % 64] IN
  IF dac.n < 2 THEN DacStep(put)
               ELSE DacStep([put EXCEPT !.col[dac.at] = put.got, !.got = NoColour])

\* The card after an access.
Effect(c, a) ==
  CASE a.op = "outw"   -> [c EXCEPT !.ix[a.set] = a.index, !.reg[a.set][a.index] = a.data]
    [] a.op = "index"  -> [c EXCEPT !.ix[a.set] = a.index]
    [] a.op = "outd"   -> [c EXCEPT !.reg[a.set][c.ix[a.set]] = a.data]
    [] a.op = "outb"   -> [c EXCEPT !.reg["PORT"][a.index] = a.data]
    [] a.op = "status" -> [c EXCEPT !.flip = FALSE]
    [] a.op = "outa" /\ ~c.flip -> [c EXCEPT !.flip = TRUE, !.ix["ATR"] = a.data % 64]
    [] a.op = "outa" /\ c.flip  -> [c EXCEPT !.flip = FALSE, !.reg["ATR"][c.ix["ATR"] % 32] = a.data]
    [] a.op = "dac"    -> [c EXCEPT !.dac.at = a.index, !.dac.n = 0, !.dac.got = NoColour]
    [] a.op = "outc"   -> [c EXCEPT !.dac = DacTakes(@, a.data)]
    [] a.op = "inc"    -> [c EXCEPT !.dac = DacStep(@)]
    [] a.op \in {"data", "inb", "ina"} -> c

\* The attribute controller shows the picture, not the border colour only.
PaletteOn(c) == Bit(c.ix["ATR"], 5) = 1

(***************************************************************************)
(* Register accesses.                                                      *)
(***************************************************************************)
\* Mutant: written once, with the picture on.
Outb_ATR_Once(i, d) == <<InStatus, OutAtr((i % 32) + 32), OutAtr(d)>>
\* Written twice: the second time with the picture on again.
Outb_ATR_CTL(i, d) == <<InStatus, OutAtr(i % 32), OutAtr(d),
                        InStatus, OutAtr((i % 32) + 32), OutAtr(d)>>
inb_ATR_CTL(i) == <<InStatus, OutAtr(i % 32), InAtr(TRUE),
                    InStatus, OutAtr((i % 32) + 32), InAtr(FALSE)>>

\* Mutant: index and data in two instructions.
OutbTwice(s, i, d) == CASE s \in Indexed -> <<OutIndex(s, i), OutData(s, d)>>
                        [] s = "ATR"     -> Outb_ATR_CTL(i, d)
                        [] s = "PORT"    -> <<OutPort(i, d)>>
\* Outb_SEQ, Outb_CRTC and Outb_GR_CTL write index and data in one
\* instruction; Inb_SEQ, Inb_CRTC and Inb_GR_CTL need two.
Outb(s, i, d) == CASE s \in Indexed -> <<Outw(s, i, d)>>
                   [] s = "ATR"     -> Outb_ATR_CTL(i, d)
                   [] s = "PORT"    -> <<OutPort(i, d)>>
Inb(s, i) == CASE s \in Indexed -> <<OutIndex(s, i), InData(s)>>
               [] s = "ATR"     -> inb_ATR_CTL(i)
               [] s = "PORT"    -> <<InPort(i)>>

WRITERGB(i, rgb) == <<DacIndex(i), OutDac(rgb[1]), OutDac(rgb[2]), OutDac(rgb[3])>>
ReadRGB(i) == <<DacIndex(i), InDac, InDac, InDac>>
=============================================================================

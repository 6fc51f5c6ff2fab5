----------------------------- MODULE CrtcTimings -----------------------------
(***************************************************************************)
(* The CRT controller as SVGATextMode programs it: the 25 standard         *)
(* registers of the VGA CRTC, bit for bit, the setters of src/vga_prg.h    *)
(* that spread one timing over several of them, the getters of             *)
(* src/vga_prg.c that grabmode reads it back with, and the order in which  *)
(* main() calls them; and set80, which calls some of them for its own mode. *)
(*                                                                         *)
(* A run starts on whatever the registers hold: what the BIOS, an X server *)
(* or an earlier run that was killed half way left there.  Registers 0..7  *)
(* are write protected while bit 7 of register 0x11 is set.                *)
(***************************************************************************)
EXTENDS Integers

CONSTANTS Modes,      \* the mode lines of the configuration file
          Cursor,     \* its Cursor line: first and last scan line, of 32
          UnderlineAt,\* its Underline line, of 32; -1 if there is none
          Found,      \* the register contents the first run may find
          Runs        \* bound: runs of the program (finished or killed)

Reg  == 0..24
Byte == 0..255

\* A mode line, before any check of the parser.
ModeLine == [hds : Int, hss : Int, hse : Int, hde : Int,
             vds : Int, vss : Int, vse : Int, vde : Int,
             fontHeight : 1..32, dscan : BOOLEAN, hshift : 0..3]

\* The mode set80 has in its code.
Set80Line == [hds |-> 640, hss |-> 680, hse |-> 776, hde |-> 800,
              vds |-> 400, vss |-> 412, vse |-> 414, vde |-> 449,
              fontHeight |-> 16, dscan |-> FALSE, hshift |-> 0]

ASSUME ModesAssumption == Modes \subseteq ModeLine /\ Modes # {}
ASSUME CursorAssumption == /\ Cursor \in [start : Nat, end : Nat]
                           /\ Cursor.start <= Cursor.end
ASSUME UnderlineAssumption == UnderlineAt \in {-1} \cup 1..32
ASSUME FoundAssumption == Found \subseteq [Reg -> Byte] /\ Found # {}
ASSUME RunsAssumption  == Runs \in Nat

VARIABLES crtc,       \* the registers
          mode,       \* the mode line of this run
          set80,      \* TRUE: it is a run of set80
          force,      \* the -o switch, set80's -a
          pc,         \* the next call of main()
          left        \* runs left to do
vars == <<crtc, mode, set80, force, pc, left>>
-----------------------------------------------------------------------------
(* Bits.  Bit w of x is the one of weight w; a division rounds down, so    *)
(* these are the operations of two's complement on negative x too.         *)

Bit(x, w) == (x \div w) % 2
PutBit(x, w, b) == (x - w * Bit(x, w)) + w * b
PutLow(x, m, v) == (x - (x % m)) + (v % m)

\* Outb_CRTC: one 16-bit access, so only the low byte of the value gets out,
\* and a protected register does not take it (bit 4 of register 7 does).
Protected(c, r) == r < 8 /\ Bit(c[17], 128) = 1
Out(c, r, v) ==
  [c EXCEPT ![r] = IF ~Protected(c, r) THEN v % 256
                   ELSE IF r = 7 THEN PutBit(@, 16, Bit(v, 16)) ELSE @]

OutBit(c, r, w, b) == Out(c, r, PutBit(c[r], w, b))
-----------------------------------------------------------------------------
(* The mode line: what the parser accepts and what it makes of it.         *)

MaxChars == 16384

Rows(m) == m.vds \div m.fontHeight
Cols(m) == 2 * (m.hds \div 16)

\* add_mode_data's ranges and complete_modestruct's limit on the characters.
Accepted(m) ==
  /\ m.hds \in 16..2048
  /\ m.hss \in m.hds..2048
  /\ m.hse \in (m.hss + 1)..(m.hss + 256)
  /\ m.hde \in m.hse..2048
  /\ m.vds \in 16..1023
  /\ m.vss \in m.vds..1023
  /\ m.vse \in (m.vss + 1)..(m.vss + 16)
  /\ m.vde \in m.vse..1023
  /\ Rows(m) * Cols(m) <= MaxChars

\* complete_modestruct: whole rows of text, and doubled lines for DoubleScan.
Struct(m) == LET scans == IF m.dscan THEN 2 ELSE 1
             IN  [active |-> m.fontHeight * Rows(m) * scans,
                  start  |-> m.vss * scans,
                  stop   |-> m.vse * scans,
                  total  |-> m.vde * scans]

\* set_V_timings: a total that does not fit in ten bits is counted in pairs
\* of lines.
VertDouble(m) == Struct(m).total > 1023
V(m) == LET s == Struct(m)
        IN  IF ~VertDouble(m) THEN s
            ELSE [active |-> s.active \div 2,      start |-> s.start \div 2,
                  stop   |-> (s.stop + 1) \div 2,  total |-> (s.total + 1) \div 2]

\* set_H_timings, in characters.
H(m) == [active |-> Cols(m),        start |-> m.hss \div 8,
         stop   |-> m.hse \div 8,   total |-> m.hde \div 8]

MinOf(a, b) == IF a < b THEN a ELSE b
MaxOf(a, b) == IF a > b THEN a ELSE b

\* (Mutant: blanking of any length.)
BlankAll(t, border, limit) ==
  [start |-> MinOf(t.start, t.active + border), stop |-> MaxOf(t.stop, t.total - border)]

\* Where t is blanked: from after `border` lines (characters) of overscan to
\* before as many, at most `limit` of them.
Blank(t, border, limit) ==
  LET from == MinOf(t.start, t.active + border)
      to   == MaxOf(t.stop, t.total - border)
  IN  [start |-> from, stop |-> MinOf(to, from + limit)]

VBlank(m) == Blank(V(m), 8, 127)
HBlank(m) == Blank(H(m), 1, 63)
-----------------------------------------------------------------------------
(* The setters of vga_prg.h: the registers afterwards.                     *)

SetVertTotal(c, n) ==
  LET v == n - 2 IN OutBit(OutBit(Out(c, 6, v), 7, 1, Bit(v, 256)), 7, 32, Bit(v, 512))
SetVDisplEnd(c, n) ==
  LET v == n - 1 IN OutBit(OutBit(Out(c, 18, v), 7, 2, Bit(v, 256)), 7, 64, Bit(v, 512))
SetVRetraceStart(c, n) ==
  OutBit(OutBit(Out(c, 16, n), 7, 4, Bit(n, 256)), 7, 128, Bit(n, 512))
SetVRetraceEnd(c, n) == Out(c, 17, PutLow(c[17], 16, n))
SetVBlankStart(c, n) ==
  OutBit(OutBit(Out(c, 21, n), 7, 8, Bit(n, 256)), 9, 32, Bit(n, 512))
SetVBlankEnd(c, n) == Out(c, 22, n)
\* (Mutant: the upper bits of register 9 are overwritten.)
SetMaxScanlineOnly(c, n) == Out(c, 9, (n - 1) % 32)
SetMaxScanline(c, n) == Out(c, 9, PutLow(c[9], 32, n - 1))
SetCursorStart(c, n) == Out(c, 10, PutLow(c[10], 32, n))
SetCursorEnd(c, n) == Out(c, 11, PutLow(c[11], 32, n))

SetHorTotal(c, n) == Out(c, 0, n - 5)
SetHorDisplEnd(c, n) == Out(c, 1, n - 1)
SetHSyncStart(c, n) == Out(c, 4, n)
SetHSyncEnd(c, n) == Out(c, 5, PutLow(c[5], 32, n))
SetLogScreenWidth(c, n) == Out(c, 19, n \div 2)
SetHBlankStart(c, n) == Out(c, 2, n - 1)
SetHBlankEnd(c, n) ==
  LET v == n - 1 IN OutBit(Out(c, 3, PutLow(c[3], 32, v)), 5, 128, Bit(v, 32))

\* Clears bits 5 and 6 and ors the shift in.
SetHorizShift(c, n) ==
  Out(c, 5, PutBit(PutBit(c[5], 32, Bit(n, 1)), 64, Bit(n, 2)))
\* (Mutant: an earlier DoubleScan is never taken back.)
SetDoubleScanOn(c, on) == IF on THEN OutBit(c, 9, 128, 1) ELSE c
SetDoubleScan(c, on) == OutBit(c, 9, 128, IF on THEN 1 ELSE 0)
-----------------------------------------------------------------------------
(* The getters of vga_prg.c: what grabmode makes of the registers.         *)

\* ENDCALC: an end of which the registers hold only the lowest bits (mask m-1).
EndCalc(start, end, m) ==
  LET base == IF start % m > end THEN start + m ELSE start
  IN  (base - (base % m)) + end

GetVertTotal(c) == c[6] + 256 * Bit(c[7], 1) + 512 * Bit(c[7], 32) + 2
GetVertDisplEnd(c) == c[18] + 256 * Bit(c[7], 2) + 512 * Bit(c[7], 64) + 1
GetVRetraceStart(c) ==
  LET v == c[16] + 256 * Bit(c[7], 4) + 512 * Bit(c[7], 128)
  IN  IF v = 0 THEN 1024 ELSE v
GetVRetraceEnd(c) == EndCalc(GetVRetraceStart(c), c[17] % 16, 16)
GetVBlankStart(c) == c[21] + 256 * Bit(c[7], 8) + 512 * Bit(c[9], 32)
GetMaxScanline(c) == (c[9] % 32) + 1

GetHorTotal(c) == c[0] + 5
GetHorDisplEnd(c) == c[1] + 1
GetHSyncStart(c) == c[4]
GetHSyncEnd(c) == EndCalc(GetHSyncStart(c), c[5] % 32, 32)
GetHBlankStart(c) == c[2] + 1
GetHorizShift(c) == (c[5] \div 32) % 4
GetLogScreenWidth(c) == 2 * c[19]
-----------------------------------------------------------------------------
(* A run.                                                                  *)

Init == /\ crtc \in Found
        /\ mode = CHOOSE m \in Modes : TRUE
        /\ set80 = FALSE
        /\ force = FALSE
        /\ pc = "start"
        /\ left = Runs

\* The mode has been found and the parser has let it through.
Start == /\ pc = "start"
         /\ left > 0
         /\ mode' \in {m \in Modes : Accepted(m)}
         /\ set80' = FALSE
         /\ force' \in BOOLEAN
         /\ pc' = "textmode"
         /\ left' = left - 1
         /\ UNCHANGED crtc

StartSet80 == /\ pc = "start"
              /\ left > 0
              /\ mode' = Set80Line
              /\ set80' = TRUE
              /\ force' \in BOOLEAN
              /\ pc' = "set80_unlock"
              /\ left' = left - 1
              /\ UNCHANGED crtc

\* The call at `here` leaves the registers at `regs`.
Do(here, regs, there) == /\ pc = here
                         /\ crtc' = regs
                         /\ pc' = there
                         /\ UNCHANGED <<mode, set80, force, left>>

TextCrtc == <<95, 79, 80, 130, 85, 129, 191, 31, 0, 79, 13, 14, 0, 0, 5, 0,
              156, 142, 143, 40, 31, 150, 185, 163, 255>>

\* Set_Textmode: with -o all registers in the order of their numbers, so 0..7
\* are written before register 0x11, under the protection that was found.
ForceAll(c) ==
  [r \in Reg |-> Out(c, r, TextCrtc[r + 1])[r]]
SetTextmode == Do("textmode", IF force THEN ForceAll(crtc) ELSE crtc, "unlock")

\* (Mutant: the protection stays.)
UnlockNothing == Do("unlock", crtc, "max_scanline")
\* UNLOCK_STD_VGA, the first thing unlock() does.
Unlock == Do("unlock", OutBit(crtc, 17, 128, 0), "max_scanline")

\* set80 does the two in the other order, and with -a nothing more.
Set80Unlock == Do("set80_unlock", OutBit(crtc, 17, 128, 0), "set80_textmode")
Set80Textmode == Do("set80_textmode", IF force THEN ForceAll(crtc) ELSE crtc,
                    IF force THEN "done" ELSE "max_scanline")

MaxScanline == Do("max_scanline", SetMaxScanline(crtc, mode.fontHeight), "vert_double")

\* set_V_timings
VertDoubleBit == Do("vert_double",
                    OutBit(crtc, 23, 4, IF VertDouble(mode) THEN 1 ELSE 0), "vert_total")
VertTotal     == Do("vert_total", SetVertTotal(crtc, V(mode).total), "vdispl_end")
VDisplEnd     == Do("vdispl_end", SetVDisplEnd(crtc, V(mode).active), "vretrace_start")
VRetraceStart == Do("vretrace_start", SetVRetraceStart(crtc, V(mode).start), "vretrace_end")
VRetraceEnd   == Do("vretrace_end", SetVRetraceEnd(crtc, V(mode).stop), "vblank_start")
VBlankStart   == Do("vblank_start", SetVBlankStart(crtc, VBlank(mode).start), "vblank_end")
VBlankEnd     == Do("vblank_end", SetVBlankEnd(crtc, VBlank(mode).stop), "hor_total")

\* set_H_timings
HorTotal    == Do("hor_total", SetHorTotal(crtc, H(mode).total), "hor_displ_end")
HorDisplEnd == Do("hor_displ_end", SetHorDisplEnd(crtc, H(mode).active), "hsync_start")
HSyncStart  == Do("hsync_start", SetHSyncStart(crtc, H(mode).start), "hsync_end")
HSyncEnd    == Do("hsync_end", SetHSyncEnd(crtc, H(mode).stop), "log_width")
LogWidth    == Do("log_width", SetLogScreenWidth(crtc, H(mode).active), "hblank_start")
HBlankStart == Do("hblank_start", SetHBlankStart(crtc, HBlank(mode).start), "hblank_end")
HBlankEnd   == Do("hblank_end", SetHBlankEnd(crtc, HBlank(mode).stop),
                  IF set80 THEN "set80_cursor" ELSE "dscan")

DoubleScan == Do("dscan", SetDoubleScan(crtc, mode.dscan), "cursor")

\* main() has scaled the configured scan lines to the font.
Scaled(line) == (line * mode.fontHeight) \div 32
CursorLines == Do("cursor",
                  SetCursorEnd(SetCursorStart(crtc, Scaled(Cursor.start)),
                               Scaled(Cursor.end)), "underline")
Underline  == Do("underline",
                 IF UnderlineAt >= 0 THEN Out(crtc, 20, Scaled(UnderlineAt))
                 ELSE crtc,
                 "hshift")
HorizShift == Do("hshift", SetHorizShift(crtc, mode.hshift), "done")

Set80Cursor == Do("set80_cursor", SetCursorEnd(SetCursorStart(crtc, 14), 15), "done")

\* The program ends, or is killed between two calls: the registers stay.
End == /\ pc # "start"
       /\ pc' = "start"
       /\ UNCHANGED <<crtc, mode, set80, force, left>>

Next == \/ Start \/ SetTextmode \/ Unlock \/ MaxScanline
        \/ VertDoubleBit \/ VertTotal \/ VDisplEnd \/ VRetraceStart
        \/ VRetraceEnd \/ VBlankStart \/ VBlankEnd
        \/ HorTotal \/ HorDisplEnd \/ HSyncStart \/ HSyncEnd \/ LogWidth
        \/ HBlankStart \/ HBlankEnd
        \/ DoubleScan \/ CursorLines \/ Underline \/ HorizShift
        \/ StartSet80 \/ Set80Unlock \/ Set80Textmode \/ Set80Cursor \/ End

Spec == Init /\ [][Next]_vars
-----------------------------------------------------------------------------
(* Properties.                                                             *)

Steps == {"start", "textmode", "unlock", "max_scanline", "vert_double",
          "vert_total", "vdispl_end", "vretrace_start", "vretrace_end",
          "vblank_start", "vblank_end", "hor_total", "hor_displ_end",
          "hsync_start", "hsync_end", "log_width", "hblank_start", "hblank_end",
          "dscan", "cursor", "underline", "hshift", "done",
          "set80_unlock", "set80_textmode", "set80_cursor"}

\* The registers stay bytes whatever number a setter is given.
TypeOK == /\ crtc \in [Reg -> Byte]
          /\ mode \in Modes \cup {Set80Line}
          /\ set80 \in BOOLEAN
          /\ force \in BOOLEAN
          /\ pc \in Steps
          /\ left \in 0..Runs

\* A mode whose numbers fit: at least one row of text, a total of five
\* characters, and syncs whose width the end registers can hold (4 bits of
\* lines, 5 bits of characters).
Fits(m) == /\ Rows(m) > 0
           /\ H(m).total >= 5
           /\ H(m).stop - H(m).start \in 1..31
           /\ V(m).stop - V(m).start \in 1..15

Done == pc = "done" /\ Fits(mode)

\* When main() has made its last call, the getters read the mode's timings
\* from the registers, whatever these held before the run: no bit of an
\* earlier mode, of a killed run or of the BIOS survives in any of them, but
\* that set80 without -a never sets the shift.
TimingsReadBack ==
  Done => /\ GetVertTotal(crtc) = V(mode).total
          /\ GetVertDisplEnd(crtc) = V(mode).active
          /\ GetVRetraceStart(crtc) = V(mode).start
          /\ GetVRetraceEnd(crtc) = V(mode).stop
          /\ GetHorTotal(crtc) = H(mode).total
          /\ GetHorDisplEnd(crtc) = H(mode).active
          /\ GetHSyncStart(crtc) = H(mode).start % 256
          /\ GetHSyncEnd(crtc) - GetHSyncStart(crtc) = H(mode).stop - H(mode).start
          /\ ~set80 \/ force => GetHorizShift(crtc) = mode.hshift

\* The screen the registers display is the one the kernel was asked for: as
\* many lines as its rows of text take, and no displayed line is lost when
\* the lines are counted in pairs; lines of text as long as the memory of one;
\* the cursor inside the character cell.  (After set80, only with -a.)
ScreenMatchesKernel ==
  (Done /\ (~set80 \/ force)) =>
          LET double == IF Bit(crtc[23], 4) = 1 THEN 2 ELSE 1
              scans  == IF Bit(crtc[9], 128) = 1 THEN 2 ELSE 1
          IN  /\ double * GetVertDisplEnd(crtc)
                   = Rows(mode) * GetMaxScanline(crtc) * scans
              /\ GetHorDisplEnd(crtc) = Cols(mode)
              /\ GetLogScreenWidth(crtc) = Cols(mode)
              /\ Cursor.end < 32 => /\ crtc[10] % 32 <= crtc[11] % 32
                                    /\ crtc[11] % 32 < GetMaxScanline(crtc)

\* The blanking the registers describe starts with the overscan or before it
\* ends, never inside the text or after the sync has begun; it is short enough
\* for the few bits of its end, stays inside the frame, and covers the sync
\* unless it was cut short.
BlankingAroundSync ==
  Done => LET vstart == GetVBlankStart(crtc)
              vwidth == (crtc[22] - crtc[21]) % 256
              hstart == GetHBlankStart(crtc)
              hwidth == ((crtc[3] % 32) + 32 * Bit(crtc[5], 128) - crtc[2]) % 64
          IN  /\ vstart \in V(mode).active .. MinOf(V(mode).start, V(mode).active + 8)
              /\ vwidth <= 127
              /\ vstart + vwidth <= V(mode).total
              /\ vwidth = 127 \/ vstart + vwidth >= V(mode).stop
              /\ hstart \in H(mode).active .. MinOf(H(mode).start, H(mode).active + 1)
              /\ hstart + hwidth <= H(mode).total
              /\ hwidth = 63 \/ hstart + hwidth >= H(mode).stop

\* The bits no timing lives in: skew, line compare, preset row scan, addresses,
\* retrace interrupt, addressing mode (the underline register has bits of it
\* too, and main() writes all of them when an underline is configured).
OtherBits(c) ==
  <<c[3] \div 32, Bit(c[7], 16), c[8], Bit(c[9], 64),
    c[10] \div 32, c[11] \div 32, [r \in 12..15 |-> c[r]], (c[17] \div 16) % 8, PutBit(c[23], 4, 0), c[24]>>

\* No setter touches a bit that is not its own: from Set_Textmode to the next
\* one, the bits no timing lives in stay as they are.
OtherBitsKept == [][pc \notin {"textmode", "set80_textmode"} => OtherBits(crtc') = OtherBits(crtc)]_vars
-----------------------------------------------------------------------------
(* A property the code does not have.                                      *)

\* set80 "resets and resizes the console to a standard VGA 80x25 text mode"
\* (set80.c:91), whatever mode the registers were in: the screen displays 25
\* rows, from its first column.
Set80Restores ==
  (pc = "done" /\ set80) =>
     /\ GetVertDisplEnd(crtc) = 25 * GetMaxScanline(crtc) * (IF Bit(crtc[9], 128) = 1 THEN 2 ELSE 1)
     /\ GetHorizShift(crtc) = 0
=============================================================================

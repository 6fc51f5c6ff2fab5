------------------------------- MODULE GrabMode -------------------------------
(***************************************************************************)
(* grabmode and clockprobe: getmode() reads the registers of whatever mode *)
(* is shown back into a mode line, and guesses what the standard registers *)
(* do not say: timings that wrapped around, lines scanned twice,           *)
(* interlacing, several bytes per pixel.  It runs beside SVGATextMode: on a *)
(* mode that has just been programmed, on the mixture that a killed run     *)
(* leaves, or on another program's graphics mode.                          *)
(***************************************************************************)
EXTENDS CrtcTimings

CONSTANTS Adapters,   \* the bits outside the CRTC that getmode looks at
          Widths,     \* what -x may say: the width, 0 without -x
          Heights     \* what -y may say

\* In graphics mode; pixels change every second clock; CGA's 256 colour shift.
ASSUME AdaptersAssumption ==
  Adapters \subseteq [graphics : BOOLEAN, pcsDiv2 : BOOLEAN, shift256 : BOOLEAN]
ASSUME PresetAssumption == Widths \subseteq 0..4096 /\ Heights \subseteq 0..4096

VARIABLES adapter,    \* those bits
          gpc,        \* the next step of getmode, "idle" when it is not running
          opt,        \* -r, -c, -x and -y
          grab        \* its modestruct
gvars == <<crtc, mode, set80, force, pc, left, adapter, gpc, opt, grab>>
machine == <<crtc, mode, set80, force, pc, left, adapter>>

Flag   == {"DOUBLESCAN", "MULTISCAN", "VERT_DOUBLE", "PCS_DIV2", "SHIFT_CGA256C",
           "INTERLACE"}
Remark == {"VTIM_MOD", "HTIM_MOD", "BAD_VSYNC_STOP", "BAD_HSYNC_STOP",
           "PRESET_VTIM_MOD", "PRESET_HTIM_MOD", "Y_WRAP_COMPENSATE",
           "PRESET_X_WRONG", "PRESET_Y_WRONG", "CGA", "16BPP", "24BPP", "32BPP",
           "IS_INTERLACE", "INTERLACE", "GOLDENRATIO_X_CGA",
           "GOLDENRATIO_X_HICOLOR", "WEIRD", "CLOCK_MEASUREMENTS",
           "CLOCKPROBE_FAILED"}
Timing == [active : Int, start : Int, stop : Int, total : Int]
Range2 == [start : Int, stop : Int]
-----------------------------------------------------------------------------
(* Reading the registers.                                                  *)

GetVBlankEnd(c) == EndCalc(GetVBlankStart(c) - 1, c[22], 256)
\* (Mutant: the lowest bits are taken for the end.)
GetHBlankEndLow(c) == (c[3] % 32) + 32 * Bit(c[5], 128) + 1
GetHBlankEnd(c) == LET end == (c[3] % 32) + 32 * Bit(c[5], 128)
                       blk == EndCalc(GetHBlankStart(c), end, 64) + 1
                   IN  IF blk < GetHorTotal(c) THEN blk ELSE end + 1

\* All the numbers of a timing times k, or divided by k as C divides.
Mul(t, k) == [f \in DOMAIN t |-> t[f] * k]
Div(t, k) == [f \in DOMAIN t |-> t[f] \div k]

Flags(c, a) ==
  {f \in Flag : CASE f = "DOUBLESCAN"    -> Bit(c[9], 128) = 1
                  [] f = "MULTISCAN"     -> a.graphics /\ GetMaxScanline(c) > 1
                  [] f = "VERT_DOUBLE"   -> Bit(c[23], 4) = 1
                  [] f = "PCS_DIV2"      -> a.pcsDiv2
                  [] f = "SHIFT_CGA256C" -> a.shift256
                  [] OTHER               -> FALSE}

\* (The clock is unset until it is measured: 0 here, printed as ***.)
ReadMode(c, a) ==
  [h  |-> Mul([active |-> GetHorDisplEnd(c), start |-> GetHSyncStart(c),
               stop |-> GetHSyncEnd(c), total |-> GetHorTotal(c)], 8),
   v  |-> [active |-> GetVertDisplEnd(c), start |-> GetVRetraceStart(c),
           stop |-> GetVRetraceEnd(c), total |-> GetVertTotal(c)],
   hb |-> Mul([start |-> GetHBlankStart(c), stop |-> GetHBlankEnd(c)], 8),
   vb |-> [start |-> GetVBlankStart(c), stop |-> GetVBlankEnd(c)],
   font |-> GetMaxScanline(c), hshift |-> GetHorizShift(c), clock |-> 0,
   flags |-> Flags(c, a), remarks |-> {}]
-----------------------------------------------------------------------------
(* Before the clock probe: undoing wraps.                                  *)

\* The least power of two above n.
RoundUp2(n) == LET above == {p \in {2^k : k \in 0..13} : p > n}
               IN  CHOOSE p \in above : \A q \in above : p <= q

\* check2
Unwrap(low, high) == IF high < low THEN high + RoundUp2(low - high - 1) ELSE high

\* (Mutant: an end of the sync after the total is let pass.)
BadStopIgnored(start, stop, total) == FALSE
BadStop(start, stop, total) == start <= total /\ total < stop

\* wrapcheck, with the remarks `modified` and `bad`.
WrapCheck(t, b, modified, bad) ==
  LET start == Unwrap(t.active, t.start)
      stop  == Unwrap(start, t.stop)
      total == IF t.total < stop THEN Unwrap(start, t.total) ELSE t.total
      wrap  == \/ t.start < t.active \/ t.stop < start \/ b.stop < b.start
               \/ t.total < stop /\ t.total < start
  IN  [t |-> [active |-> t.active, start |-> start, stop |-> stop, total |-> total],
       b |-> [start |-> b.start, stop |-> Unwrap(b.start, b.stop)],
       remarks |-> (IF wrap THEN {modified} ELSE {})
                   \cup (IF BadStop(start, stop, t.total) THEN {bad} ELSE {})]

\* wrapcheck_preset: the known size tells how often the timings wrapped.
PresetShift(t, real) == IF real > 0 /\ real # t.active /\ real % 1024 = t.active
                        THEN real - t.active ELSE 0
Shift(t, n) == [f \in DOMAIN t |-> t[f] + n]

\* 1024 lines are added until the screen is at most ten times as wide as high.
RatioShift(width, height) ==
  IF width > 10 * height THEN 1024 * ((width - 10 * height + 10239) \div 10240) ELSE 0

\* pre_clockprobe_intelligence
Pre(m, x, y) ==
  LET vw   == WrapCheck(m.v, m.vb, "VTIM_MOD", "BAD_VSYNC_STOP")
      scan == IF "VERT_DOUBLE" \in m.flags THEN 2 ELSE 1
      v1   == Mul(vw.t, scan)
      vs   == PresetShift(v1, y)
      hw   == WrapCheck(m.h, m.hb, "HTIM_MOD", "BAD_HSYNC_STOP")
      hs   == PresetShift(hw.t, x)
      rs   == RatioShift(hw.t.active + hs, v1.active + vs)
  IN  [m EXCEPT !.v = Shift(v1, vs + rs), !.vb = Mul(vw.b, scan),
                !.h = Shift(hw.t, hs),    !.hb = hw.b,
                !.remarks = @ \cup vw.remarks \cup hw.remarks
                              \cup (IF vs # 0 THEN {"PRESET_VTIM_MOD"} ELSE {})
                              \cup (IF hs # 0 THEN {"PRESET_HTIM_MOD"} ELSE {})
                              \cup (IF rs # 0 THEN {"Y_WRAP_COMPENSATE"} ELSE {})]
-----------------------------------------------------------------------------
(* After it: lines scanned twice, bytes per pixel, interlacing.            *)

\* (Mutant: lines counted in pairs are taken for doubled lines.)
ScansAndPairs(m) == (IF {"DOUBLESCAN", "VERT_DOUBLE"} \cap m.flags # {} THEN 2 ELSE 1)
                    * (IF "VERT_DOUBLE" \in m.flags THEN 2 ELSE 1)
\* How often a line is shown.
Scans(m) == (IF "DOUBLESCAN" \in m.flags THEN 2 ELSE 1)
               * (IF "MULTISCAN" \in m.flags THEN m.font ELSE 1)

\* mul_Vtim, div_Vtim and div_Htim: the blanking goes along, and the clock.
MulV(m, k) == [m EXCEPT !.v = Mul(@, k), !.vb = Mul(@, k)]
DivV(m, k) == [m EXCEPT !.v = Div(@, k), !.vb = Div(@, k)]
DivH(m, k) == [m EXCEPT !.h = Div(@, k), !.hb = Div(@, k), !.clock = @ \div k]
\* (Mutant: the numbers stay.)
InterlacedInName(m, why) == [m EXCEPT !.flags = @ \cup {"INTERLACE"}, !.remarks = @ \cup {why}]
Interlaced(m, why) == [MulV(m, 2) EXCEPT !.flags = @ \cup {"INTERLACE"},
                                         !.remarks = @ \cup {why}]
Say(m, why) == [m EXCEPT !.remarks = @ \cup {why}]

\* How many times too wide for 4:3.  A display of no lines makes the float
\* infinite and its conversion to int negative, which no test below tells
\* from 0.
RatioDiv(m) ==
  IF m.v.active = 0 THEN 0
  ELSE (2000 * m.h.active + 1333 * m.v.active) \div (2666 * m.v.active)

Cga(m) == /\ {"PCS_DIV2", "SHIFT_CGA256C"} \subseteq m.flags
          /\ {"DOUBLESCAN", "MULTISCAN"} \cap m.flags # {}

\* A step of the guessing: the mode, and the ratio that is left to explain.
Near(value, percent) == value \in (percent - 1)..(percent + 1)

WithWidth(g, x) ==
  LET ratio == (g.m.h.active * 100) \div x
      k     == {n \in 1..4 : Near(ratio, 100 * n)}
      why(n) == CASE n = 2 -> IF Cga(g.m) /\ g.div = 2 THEN "CGA" ELSE "16BPP"
                  [] n = 3 -> "24BPP"
                  [] n = 4 -> "32BPP"
  IN  IF x = 0 \/ k = {1} THEN g
      ELSE IF k = {} THEN [m |-> Say(g.m, "PRESET_X_WRONG"), div |-> g.div]
      ELSE LET n == CHOOSE i \in k : TRUE
           IN  [m |-> Say(DivH(g.m, n), why(n)), div |-> g.div \div n]

WithHeight(g, y) ==
  LET ratio == (g.m.v.active * 100) \div y
  IN  IF y = 0 \/ Near(ratio, 100) THEN g
      ELSE IF Near(ratio, 50) THEN [m |-> Interlaced(g.m, "IS_INTERLACE"), div |-> g.div \div 2]
      ELSE [m |-> Say(g.m, "PRESET_Y_WRONG"), div |-> g.div]

\* Heights of well known modes, halved by interlacing.
HalfHeights == {240, 300, 384, 450, 455, 512, 600}

GuessHeight(g, y) ==
  IF y = 0 /\ g.m.v.active \in HalfHeights /\ g.div % 2 = 0
  THEN [m |-> Interlaced(g.m, "INTERLACE"), div |-> g.div \div 2]
  ELSE g

GuessWidth(g, x) ==
  IF x = 0 /\ g.div = 2
  THEN [m |-> Say(DivH(g.m, 2), IF Cga(g.m) THEN "GOLDENRATIO_X_CGA"
                                            ELSE "GOLDENRATIO_X_HICOLOR"),
        div |-> 1]
  ELSE g

\* post_clockprobe_intelligence
Post(m, a, x, y) ==
  LET m1 == DivV(m, Scans(m))
      g1 == WithHeight(WithWidth([m |-> m1, div |-> RatioDiv(m1)], x), y)
      g2 == GuessWidth(GuessHeight(g1, y), x)
  IN  IF ~(a.graphics /\ g1.div > 1) THEN g1.m
      ELSE IF g2.div > 1 THEN Say(g2.m, "WEIRD") ELSE g2.m
-----------------------------------------------------------------------------
(* A run of grabmode.                                                      *)

NoGrab == ReadMode([r \in Reg |-> 0], [graphics |-> FALSE, pcsDiv2 |-> FALSE,
                                      shift256 |-> FALSE])
NoOpt  == [raw |-> FALSE, probe |-> FALSE, x |-> 0, y |-> 0]

GInit == /\ Init
         /\ adapter \in Adapters
         /\ gpc = "idle"
         /\ opt = NoOpt
         /\ grab = NoGrab

\* main() has read its switches; getmode unlocks the registers and reads them.
GetMode == /\ gpc = "idle"
           /\ pc \in {"start", "done"}
           /\ opt' \in [raw : BOOLEAN, probe : BOOLEAN, x : Widths, y : Heights]
           /\ crtc' = OutBit(crtc, 17, 128, 0)
           /\ grab' = ReadMode(crtc', adapter)
           /\ gpc' = "pre"
           /\ UNCHANGED <<mode, set80, force, pc, left, adapter>>

PreClockprobe == /\ gpc = "pre"
                 /\ grab' = IF opt.raw THEN grab ELSE Pre(grab, opt.x, opt.y)
                 /\ gpc' = "probe"
                 /\ UNCHANGED <<machine, opt>>

\* measure_pixclock (in VsyncWait): the clock is the measured frame rate times
\* the size of a frame, in characters here; without vertical sync it is 0, on a
\* loaded system it may be wrong.
MeasurePixclock ==
  /\ gpc = "probe"
  /\ gpc' = "post"
  /\ IF ~opt.probe THEN UNCHANGED grab
     ELSE \/ grab' = Say(grab, "CLOCKPROBE_FAILED")
          \/ \E why \in {{}, {"CLOCK_MEASUREMENTS"}} :
               grab' = [grab EXCEPT !.clock = (grab.h.total \div 8) * grab.v.total,
                                    !.remarks = @ \cup why]
  /\ UNCHANGED <<machine, opt>>

PostClockprobe ==
  /\ gpc = "post"
  /\ grab' = IF opt.raw THEN grab ELSE Post(grab, adapter, opt.x, opt.y)
  /\ gpc' = "print"
  /\ UNCHANGED <<machine, opt>>

\* The mode line has been printed, with the remarks.
Exit == /\ gpc = "print"
        /\ gpc' = "idle"
        /\ opt' = NoOpt
        /\ grab' = NoGrab
        /\ UNCHANGED machine

\* SVGATextMode and set80 are run from a text screen.
Program == /\ gpc = "idle"
           /\ ~adapter.graphics
           /\ Next
           /\ UNCHANGED <<adapter, gpc, opt, grab>>

GNext == GetMode \/ PreClockprobe \/ MeasurePixclock \/ PostClockprobe \/ Exit \/ Program

GSpec == GInit /\ [][GNext]_gvars
-----------------------------------------------------------------------------
(* Properties.                                                             *)

Ordered(t) == t.active <= t.start /\ t.start <= t.stop /\ t.stop <= t.total

\* A mode line whose numbers are out of order is never printed without a remark
\* ("Grabbed mode could be wrong"), whatever is in the registers: neither the
\* undoing of wraps nor any later scaling turns timings round silently.
OrderedOrRemarked ==
  gpc = "print" /\ ~opt.raw /\ grab.remarks = {} => Ordered(grab.h) /\ Ordered(grab.v)

\* The mode line grabmode prints for a TextConfig file.
Printed == [hds |-> grab.h.active, hss |-> grab.h.start,
            hse |-> grab.h.stop,   hde |-> grab.h.total,
            vds |-> grab.v.active, vss |-> grab.v.start,
            vse |-> grab.v.stop,   vde |-> grab.v.total,
            fontHeight |-> grab.font, dscan |-> "DOUBLESCAN" \in grab.flags,
            hshift |-> grab.hshift]

\* A text mode that SVGATextMode has set (or set80 -a: without -a it leaves the
\* double scan bit and the shift), grabbed without presets or with its own size,
\* has to come back.
OwnMode == /\ gpc = "print" /\ ~opt.raw /\ Done
           /\ ~set80 \/ force
           /\ opt.x \in {0, 8 * Cols(mode)}
           /\ opt.y \in {0, mode.fontHeight * Rows(mode)}
ProbeRemarks == {"CLOCK_MEASUREMENTS", "CLOCKPROBE_FAILED"}

\* A mode line that is printed for such a mode programs, put into TextConfig,
\* the same timings: what complete_modestruct and set_V_timings doubled and
\* halved, pre_ and post_clockprobe_intelligence undo, unless the screen is so
\* low that 1024 lines were added.
RoundTrip ==
  OwnMode /\ "Y_WRAP_COMPENSATE" \notin grab.remarks =>
    /\ V(Printed) = V(mode) /\ VertDouble(Printed) = VertDouble(mode)
    /\ H(Printed) = H(mode)
    /\ Rows(Printed) = Rows(mode) /\ Cols(Printed) = Cols(mode)
    /\ Printed.fontHeight = mode.fontHeight /\ Printed.dscan = mode.dscan
    /\ Printed.hshift = mode.hshift

\* Such a mode raises no remark about its timings: no sync, blanking or total
\* that SVGATextMode programs is taken for a wrapped one.  (But for two kinds of
\* modes: more than ten times as wide as high, where 1024 lines are added, and
\* with a sync up to the very end of the line, where Get_HBLANK_END's test
\* endblk < htot fails.)
NoFalseAlarm ==
  OwnMode /\ 8 * Cols(mode) <= 10 * Struct(mode).active /\ H(mode).stop < H(mode).total
    => grab.remarks \subseteq ProbeRemarks

\* With -x and -y the printed size is the given one to within three per cent,
\* or a remark says that it is not.
PresetHonoured ==
  gpc = "print" /\ ~opt.raw =>
    /\ \/ opt.x = 0 \/ "PRESET_X_WRONG" \in grab.remarks
       \/ (grab.h.active * 100) \div opt.x \in 97..103
    /\ \/ opt.y = 0 \/ "PRESET_Y_WRONG" \in grab.remarks
       \/ (grab.v.active * 100) \div opt.y \in 97..103
=============================================================================

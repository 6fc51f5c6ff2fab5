---------------------------- MODULE GrabModeProofs ----------------------------
(***************************************************************************)
(* CrtcTimings and GrabMode, which reads what CrtcTimings programs.        *)
(*                                                                         *)
(* CrtcTimings for all mode lines the parser may be given, all cursors,    *)
(* and all contents the registers may have at first: every register stays  *)
(* a byte, no setter touches a bit that is not its own, and at the end of  *)
(* a run the registers hold the mode's timings, its blanking and the       *)
(* screen the kernel is told of.  The registers are seen as fields (Show), *)
(* one for each call and one for the bits of no timing.  A setter gives    *)
(* its field a value and leaves the others (Sets); so by induction the     *)
(* fields of the calls made so far show what they should (Inv), and        *)
(* arithmetic does the rest.                                               *)
(*                                                                         *)
(* What grabmode prints, for all register contents, mode lines and         *)
(* presets: numbers out of order never without a remark; a mode that       *)
(* SVGATextMode programmed, as it was programmed and without false         *)
(* remarks; and a size that was given, or a remark that it is wrong.       *)
(***************************************************************************)
EXTENDS GrabMode, TLAPS

Regs == [Reg -> Byte]

\* Bits and fields of integers are integers.
LEMMA BitType == ASSUME NEW x \in Int, NEW w \in Nat, w # 0 PROVE Bit(x, w) \in 0..1
  BY DEF Bit

LEMMA PutBitType ==
  ASSUME NEW x \in Int, NEW w \in Nat, w # 0, NEW b, b \in 0..1
  PROVE  PutBit(x, w, b) \in Int
  BY BitType DEF PutBit

LEMMA PutLowType ==
  ASSUME NEW x \in Int, NEW k \in Nat, k # 0, NEW v \in Int
  PROVE  PutLow(x, k, v) \in Int
  BY DEF PutLow

\* Changing bit 4 of a byte leaves a byte.
LEMMA Bit4OfByte ==
  ASSUME NEW x \in Byte, NEW b, b \in 0..1
  PROVE  PutBit(x, 16, b) \in Byte
  BY DEF PutBit, Bit, Byte

\* Outb_CRTC puts a byte into a register whatever number it is given.
LEMMA OutType ==
  ASSUME NEW c \in Regs, NEW r \in Reg, NEW v \in Int
  PROVE  Out(c, r, v) \in Regs
  <1>1. v % 256 \in Byte
    BY DEF Byte
  <1>2. r = 7 => PutBit(c[r], 16, Bit(v, 16)) \in Byte
    BY Bit4OfByte, BitType DEF Regs, Reg
  <1>3. c[r] \in Byte
    BY DEF Regs
  <1> QED
    BY <1>1, <1>2, <1>3 DEF Out, Regs

\* Outbit_CRTC likewise.
LEMMA OutBitType ==
  ASSUME NEW c \in Regs, NEW r \in Reg, NEW w \in Nat, w # 0, NEW b, b \in 0..1
  PROVE  OutBit(c, r, w, b) \in Regs
  <1>1. c[r] \in Int
    BY DEF Regs, Byte
  <1> QED
    BY <1>1, PutBitType, OutType DEF OutBit

\* The setters that write one register.
LEMMA FieldType ==
  ASSUME NEW c \in Regs, NEW r \in Reg, NEW k \in Nat, k # 0, NEW n \in Int
  PROVE  Out(c, r, PutLow(c[r], k, n)) \in Regs
  <1>1. c[r] \in Int
    BY DEF Regs, Byte
  <1> QED
    BY <1>1, PutLowType, OutType

LEMMA SetterType ==
  ASSUME NEW c \in Regs, NEW n \in Int
  PROVE  /\ SetVertTotal(c, n) \in Regs   /\ SetVDisplEnd(c, n) \in Regs
         /\ SetVRetraceStart(c, n) \in Regs /\ SetVRetraceEnd(c, n) \in Regs
         /\ SetVBlankStart(c, n) \in Regs /\ SetVBlankEnd(c, n) \in Regs
         /\ SetMaxScanline(c, n) \in Regs /\ SetCursorStart(c, n) \in Regs
         /\ SetCursorEnd(c, n) \in Regs   /\ SetHorTotal(c, n) \in Regs
         /\ SetHorDisplEnd(c, n) \in Regs /\ SetHSyncStart(c, n) \in Regs
         /\ SetHSyncEnd(c, n) \in Regs    /\ SetLogScreenWidth(c, n) \in Regs
         /\ SetHBlankStart(c, n) \in Regs /\ SetHBlankEnd(c, n) \in Regs
         /\ SetHorizShift(c, n) \in Regs
  <1>1. n - 1 \in Int /\ n - 2 \in Int /\ n - 5 \in Int /\ n \div 2 \in Int
    OBVIOUS
  <1>2. \A v \in Int, w \in {1, 2, 32, 256, 512} : Bit(v, w) \in 0..1
    BY BitType
  <1> USE <1>1, <1>2 DEF Reg
  <1>3. SetVertTotal(c, n) \in Regs
    <2>1. Out(c, 6, n - 2) \in Regs
      BY OutType
    <2>2. OutBit(Out(c, 6, n - 2), 7, 1, Bit(n - 2, 256)) \in Regs
      BY <2>1, OutBitType
    <2> QED
      BY <2>2, OutBitType DEF SetVertTotal
  <1>4. SetVDisplEnd(c, n) \in Regs
    <2>1. Out(c, 18, n - 1) \in Regs
      BY OutType
    <2>2. OutBit(Out(c, 18, n - 1), 7, 2, Bit(n - 1, 256)) \in Regs
      BY <2>1, OutBitType
    <2> QED
      BY <2>2, OutBitType DEF SetVDisplEnd
  <1>5. SetVRetraceStart(c, n) \in Regs
    <2>1. Out(c, 16, n) \in Regs
      BY OutType
    <2>2. OutBit(Out(c, 16, n), 7, 4, Bit(n, 256)) \in Regs
      BY <2>1, OutBitType
    <2> QED
      BY <2>2, OutBitType DEF SetVRetraceStart
  <1>6. SetVBlankStart(c, n) \in Regs
    <2>1. Out(c, 21, n) \in Regs
      BY OutType
    <2>2. OutBit(Out(c, 21, n), 7, 8, Bit(n, 256)) \in Regs
      BY <2>1, OutBitType
    <2> QED
      BY <2>2, OutBitType DEF SetVBlankStart
  <1>7. SetHBlankEnd(c, n) \in Regs
    <2>1. Out(c, 3, PutLow(c[3], 32, n - 1)) \in Regs
      BY FieldType
    <2> QED
      BY <2>1, OutBitType DEF SetHBlankEnd
  <1>8. SetHorizShift(c, n) \in Regs
    <2>1. c[5] \in Int
      BY DEF Regs, Byte
    <2>2. PutBit(c[5], 32, Bit(n, 1)) \in Int
      BY <2>1, PutBitType
    <2>3. PutBit(PutBit(c[5], 32, Bit(n, 1)), 64, Bit(n, 2)) \in Int
      BY <2>2, PutBitType
    <2> QED
      BY <2>3, OutType DEF SetHorizShift
  <1>9. SetVRetraceEnd(c, n) \in Regs
    BY FieldType DEF SetVRetraceEnd
  <1>10. SetMaxScanline(c, n) \in Regs
    BY FieldType DEF SetMaxScanline
  <1>11. SetCursorStart(c, n) \in Regs
    BY FieldType DEF SetCursorStart
  <1>12. SetCursorEnd(c, n) \in Regs
    BY FieldType DEF SetCursorEnd
  <1>13. SetHSyncEnd(c, n) \in Regs
    BY FieldType DEF SetHSyncEnd
  <1>14. SetVBlankEnd(c, n) \in Regs
    BY OutType DEF SetVBlankEnd
  <1>15. SetHorTotal(c, n) \in Regs
    BY OutType DEF SetHorTotal
  <1>16. SetHorDisplEnd(c, n) \in Regs
    BY OutType DEF SetHorDisplEnd
  <1>17. SetHSyncStart(c, n) \in Regs
    BY OutType DEF SetHSyncStart
  <1>18. SetLogScreenWidth(c, n) \in Regs
    BY OutType DEF SetLogScreenWidth
  <1>19. SetHBlankStart(c, n) \in Regs
    BY OutType DEF SetHBlankStart
  <1> QED
    BY <1>3, <1>4, <1>5, <1>6, <1>7, <1>8, <1>9, <1>10, <1>11, <1>12, <1>13,
       <1>14, <1>15, <1>16, <1>17, <1>18, <1>19
-----------------------------------------------------------------------------
(* The numbers of a mode line.                                             *)

TimingNumbers(t) == t.active \in Int /\ t.start \in Int /\ t.stop \in Int /\ t.total \in Int
BlankNumbers(b) == b.start \in Int /\ b.stop \in Int

LEMMA ModeNumbers ==
  ASSUME NEW m \in ModeLine
  PROVE  TimingNumbers(V(m)) /\ TimingNumbers(H(m))
  <1>1. Rows(m) \in Int /\ Cols(m) \in Int
    BY DEF ModeLine, Rows, Cols
  <1>2. TimingNumbers(H(m))
    BY <1>1 DEF ModeLine, H, TimingNumbers
  <1>3. m.fontHeight * Rows(m) \in Int
    BY <1>1 DEF ModeLine
  <1>4. TimingNumbers(Struct(m))
    BY <1>3 DEF ModeLine, Struct, TimingNumbers
  <1>5. TimingNumbers(V(m))
    BY <1>4 DEF V, TimingNumbers
  <1> QED
    BY <1>2, <1>5

LEMMA BlankingNumbers ==
  ASSUME NEW m \in ModeLine
  PROVE  BlankNumbers(VBlank(m)) /\ BlankNumbers(HBlank(m))
  <1>1. \A t, k, l : TimingNumbers(t) /\ k \in Int /\ l \in Int => BlankNumbers(Blank(t, k, l))
    BY DEF TimingNumbers, BlankNumbers, Blank, MinOf, MaxOf
  <1> QED
    BY <1>1, ModeNumbers DEF VBlank, HBlank

\* Set_Textmode with all registers writes bytes.
LEMMA ForceAllType == ASSUME NEW c \in Regs PROVE ForceAll(c) \in Regs
  <1>1. \A r \in Reg : TextCrtc[r + 1] \in Int
    BY DEF TextCrtc, Reg
  <1>2. \A r \in Reg : Out(c, r, TextCrtc[r + 1])[r] \in Byte
    BY <1>1, OutType DEF Regs
  <1> QED
    BY <1>2 DEF ForceAll, Regs
-----------------------------------------------------------------------------
(* The two facts of the induction.                                         *)

LEMMA Set80IsModeLine == Set80Line \in ModeLine
  BY DEF Set80Line, ModeLine

LEMMA TypeInit == Init => TypeOK
  <1> SUFFICES ASSUME Init PROVE TypeOK
    OBVIOUS
  <1>1. mode \in Modes
    BY ModesAssumption DEF Init
  <1>2. crtc \in [Reg -> Byte]
    BY FoundAssumption DEF Init
  <1>3. left \in 0..Runs
    BY RunsAssumption DEF Init
  <1>4. pc \in Steps /\ force \in BOOLEAN /\ set80 \in BOOLEAN
    BY DEF Init, Steps
  <1> QED
    BY <1>1, <1>2, <1>3, <1>4 DEF TypeOK

LEMMA TypeStep == TypeOK /\ [Next]_vars => TypeOK'
  <1> SUFFICES ASSUME TypeOK, [Next]_vars PROVE TypeOK'
    OBVIOUS
  <1>1. /\ crtc \in Regs /\ mode \in ModeLine
        /\ TimingNumbers(V(mode)) /\ TimingNumbers(H(mode))
        /\ BlankNumbers(VBlank(mode)) /\ BlankNumbers(HBlank(mode))
    BY ModesAssumption, Set80IsModeLine, ModeNumbers, BlankingNumbers DEF TypeOK, Regs
  <1>2. ASSUME NEW regs \in Regs, NEW here, NEW there \in Steps, Do(here, regs, there)
        PROVE  TypeOK'
    BY <1>2 DEF Do, TypeOK, Regs
  <1> USE DEF Steps
  <1>3. CASE Start
    <2>1. left' \in 0..Runs /\ crtc' \in [Reg -> Byte]
      BY <1>3, RunsAssumption DEF Start, TypeOK
    <2>2. /\ mode' \in Modes \cup {Set80Line} /\ set80' \in BOOLEAN
          /\ force' \in BOOLEAN /\ pc' \in Steps
      BY <1>3 DEF Start
    <2> QED
      BY <2>1, <2>2 DEF TypeOK
  <1>4. CASE SetTextmode
    <2>1. (IF force THEN ForceAll(crtc) ELSE crtc) \in Regs
      BY <1>1, ForceAllType
    <2> QED
      BY <1>2, <1>4, <2>1 DEF SetTextmode
  <1>5. CASE Unlock
    <2>1. OutBit(crtc, 17, 128, 0) \in Regs
      BY <1>1, OutBitType DEF Reg
    <2> QED
      BY <1>2, <1>5, <2>1 DEF Unlock
  <1>6. CASE MaxScanline
    <2>1. mode.fontHeight \in Int
      BY <1>1 DEF ModeLine
    <2>2. SetMaxScanline(crtc, mode.fontHeight) \in Regs
      BY <1>1, <2>1, SetterType
    <2> QED
      BY <1>2, <1>6, <2>2 DEF MaxScanline
  <1>7. CASE VertDoubleBit
    <2>1. OutBit(crtc, 23, 4, IF VertDouble(mode) THEN 1 ELSE 0) \in Regs
      BY <1>1, OutBitType DEF Reg
    <2> QED
      BY <1>2, <1>7, <2>1 DEF VertDoubleBit
  <1>8. CASE VertTotal \/ VDisplEnd \/ VRetraceStart \/ VRetraceEnd
    <2>1. /\ SetVertTotal(crtc, V(mode).total) \in Regs
          /\ SetVDisplEnd(crtc, V(mode).active) \in Regs
          /\ SetVRetraceStart(crtc, V(mode).start) \in Regs
          /\ SetVRetraceEnd(crtc, V(mode).stop) \in Regs
      BY <1>1, SetterType DEF TimingNumbers
    <2> QED
      BY <1>2, <1>8, <2>1 DEF VertTotal, VDisplEnd, VRetraceStart, VRetraceEnd
  <1>9. CASE VBlankStart \/ VBlankEnd \/ HBlankStart \/ HBlankEnd
    <2>1. /\ SetVBlankStart(crtc, VBlank(mode).start) \in Regs
          /\ SetVBlankEnd(crtc, VBlank(mode).stop) \in Regs
          /\ SetHBlankStart(crtc, HBlank(mode).start) \in Regs
          /\ SetHBlankEnd(crtc, HBlank(mode).stop) \in Regs
      BY <1>1, SetterType DEF BlankNumbers
    <2> QED
      BY <1>2, <1>9, <2>1 DEF VBlankStart, VBlankEnd, HBlankStart, HBlankEnd
  <1>10. CASE HorTotal \/ HorDisplEnd \/ HSyncStart \/ HSyncEnd \/ LogWidth
    <2>1. /\ SetHorTotal(crtc, H(mode).total) \in Regs
          /\ SetHorDisplEnd(crtc, H(mode).active) \in Regs
          /\ SetHSyncStart(crtc, H(mode).start) \in Regs
          /\ SetHSyncEnd(crtc, H(mode).stop) \in Regs
          /\ SetLogScreenWidth(crtc, H(mode).active) \in Regs
      BY <1>1, SetterType DEF TimingNumbers
    <2> QED
      BY <1>2, <1>10, <2>1 DEF HorTotal, HorDisplEnd, HSyncStart, HSyncEnd, LogWidth
  <1>11. CASE DoubleScan
    <2>1. SetDoubleScan(crtc, mode.dscan) \in Regs
      BY <1>1, OutBitType DEF SetDoubleScan, Reg
    <2> QED
      BY <1>2, <1>11, <2>1 DEF DoubleScan
  <1>12. CASE CursorLines
    <2>1. Scaled(Cursor.start) \in Int /\ Scaled(Cursor.end) \in Int
      <3>1. \A a \in Nat : a * mode.fontHeight \in Int
        BY <1>1 DEF ModeLine
      <3> QED
        BY <3>1, CursorAssumption DEF Scaled
    <2>2. SetCursorStart(crtc, Scaled(Cursor.start)) \in Regs
      BY <1>1, <2>1, SetterType
    <2>3. SetCursorEnd(SetCursorStart(crtc, Scaled(Cursor.start)), Scaled(Cursor.end)) \in Regs
      BY <2>1, <2>2, SetterType
    <2> QED
      BY <1>2, <1>12, <2>3 DEF CursorLines
  <1>13. CASE Underline
    <2>1. (IF UnderlineAt >= 0 THEN Out(crtc, 20, Scaled(UnderlineAt)) ELSE crtc) \in Regs
      <3>1. UnderlineAt * mode.fontHeight \in Int
        BY <1>1, UnderlineAssumption DEF ModeLine
      <3>2. Scaled(UnderlineAt) \in Int
        BY <3>1 DEF Scaled
      <3> QED
        BY <1>1, <3>2, OutType DEF Reg
    <2> QED
      BY <1>2, <1>13, <2>1 DEF Underline
  <1>14. CASE HorizShift
    <2>1. mode.hshift \in Int
      BY <1>1 DEF ModeLine
    <2>2. SetHorizShift(crtc, mode.hshift) \in Regs
      BY <1>1, <2>1, SetterType
    <2> QED
      BY <1>2, <1>14, <2>2 DEF HorizShift
  <1>15. CASE End
    BY <1>15 DEF End, TypeOK
  <1>16. CASE UNCHANGED vars
    BY <1>16 DEF vars, TypeOK
  <1>17. CASE StartSet80
    <2>1. left' \in 0..Runs /\ crtc' \in [Reg -> Byte]
      BY <1>17, RunsAssumption DEF StartSet80, TypeOK
    <2>2. /\ mode' \in Modes \cup {Set80Line} /\ set80' \in BOOLEAN
          /\ force' \in BOOLEAN /\ pc' \in Steps
      BY <1>17 DEF StartSet80
    <2> QED
      BY <2>1, <2>2 DEF TypeOK
  <1>18. CASE Set80Unlock
    <2>1. OutBit(crtc, 17, 128, 0) \in Regs
      BY <1>1, OutBitType DEF Reg
    <2> QED
      BY <1>2, <1>18, <2>1 DEF Set80Unlock
  <1>19. CASE Set80Textmode
    <2>1. (IF force THEN ForceAll(crtc) ELSE crtc) \in Regs
      BY <1>1, ForceAllType
    <2>2. (IF force THEN "done" ELSE "max_scanline") \in Steps
      OBVIOUS
    <2> QED
      BY <1>2, <1>19, <2>1, <2>2 DEF Set80Textmode
  <1>20. CASE Set80Cursor
    <2>1. SetCursorEnd(SetCursorStart(crtc, 14), 15) \in Regs
      BY <1>1, SetterType
    <2> QED
      BY <1>2, <1>20, <2>1 DEF Set80Cursor
  <1> QED
    BY <1>3, <1>4, <1>5, <1>6, <1>7, <1>8, <1>9, <1>10, <1>11, <1>12, <1>13, <1>14, <1>15,
       <1>16, <1>17, <1>18, <1>19, <1>20 DEF Next

\* Whatever mode lines and registers the program meets, every register holds
\* a byte after every call, killed or not (src/vga_prg.h, Outb_CRTC).
THEOREM RegistersStayBytes == Spec => []TypeOK
  BY TypeInit, TypeStep, PTL DEF Spec
-----------------------------------------------------------------------------
(* What a setter does to the registers: it gives one field its value and   *)
(* leaves the other fields, and the bits of no field, alone.               *)

Weights == {1, 2, 4, 8, 16, 32, 64, 128}

LEMMA PutBitBit ==
  ASSUME NEW x \in Byte, NEW w \in Weights, NEW b \in 0..1
  PROVE  /\ PutBit(x, w, b) \in Byte
         /\ \A u \in Weights : Bit(PutBit(x, w, b), u) = IF u = w THEN b ELSE Bit(x, u)
  <1> USE DEF Byte, Bit, PutBit, Weights
  <1>1. CASE w = 1
    <2>1. Bit(x, 1) = x % 2
      OBVIOUS
    <2>2. PutBit(x, 1, b) = (x - (x % 2)) + b
      BY <2>1
    <2>3. \A u \in Weights \ {1} : PutBit(x, 1, b) \div u = x \div u
      BY <2>2, SMTT(30)
    <2>4. PutBit(x, 1, b) \in Byte /\ PutBit(x, 1, b) % 2 = b
      BY <2>2, SMTT(30)
    <2>5. \A u \in Weights \ {1} : Bit(PutBit(x, 1, b), u) = Bit(x, u)
      BY <2>3
    <2>6. Bit(PutBit(x, 1, b), 1) = b
      BY <2>4
    <2> QED
      BY <1>1, <2>4, <2>5, <2>6
  <1>2. CASE w = 2
    BY <1>2, SMTT(60)
  <1>3. CASE w = 4
    BY <1>3, SMTT(60)
  <1>4. CASE w = 8
    BY <1>4, SMTT(60)
  <1>5. CASE w = 16
    BY <1>5, SMTT(60)
  <1>6. CASE w = 32
    BY <1>6
  <1>7. CASE w = 64
    BY <1>7
  <1>8. CASE w = 128
    BY <1>8
  <1> QED
    BY <1>1, <1>2, <1>3, <1>4, <1>5, <1>6, <1>7, <1>8

LEMMA PutBitField ==
  ASSUME NEW x \in Byte, NEW k \in {16, 32}, NEW w \in {32, 64, 128}, NEW b \in 0..1
  PROVE  PutBit(x, w, b) % k = x % k
  BY DEF Byte, Bit, PutBit

LEMMA PutLowField ==
  ASSUME NEW x \in Byte, NEW k \in {16, 32}, NEW v \in Int
  PROVE  /\ PutLow(x, k, v) \in Byte
         /\ PutLow(x, k, v) % k = v % k
         /\ PutLow(x, k, v) \div k = x \div k
         /\ \A u \in Weights : u >= k => Bit(PutLow(x, k, v), u) = Bit(x, u)
  <1> USE DEF Byte, Bit, PutLow, Weights
  <1>1. v % k \in 0..(k - 1)
    OBVIOUS
  <1>2. CASE k = 16
    BY <1>1, <1>2, SMTT(30)
  <1>3. CASE k = 32
    BY <1>1, <1>3
  <1> QED
    BY <1>2, <1>3

TenBits(n) == <<n % 256, Bit(n, 256), Bit(n, 512)>>

\* The bits of the registers, by the call that sets them, and the rest.
Show(c, f) ==
  CASE f = "max_scanline"   -> c[9] % 32
    [] f = "vert_double"    -> Bit(c[23], 4)
    [] f = "vert_total"     -> <<c[6], Bit(c[7], 1), Bit(c[7], 32)>>
    [] f = "vdispl_end"     -> <<c[18], Bit(c[7], 2), Bit(c[7], 64)>>
    [] f = "vretrace_start" -> <<c[16], Bit(c[7], 4), Bit(c[7], 128)>>
    [] f = "vretrace_end"   -> c[17] % 16
    [] f = "vblank_start"   -> <<c[21], Bit(c[7], 8), Bit(c[9], 32)>>
    [] f = "vblank_end"     -> c[22]
    [] f = "hor_total"      -> c[0]
    [] f = "hor_displ_end"  -> c[1]
    [] f = "hsync_start"    -> c[4]
    [] f = "hsync_end"      -> c[5] % 32
    [] f = "log_width"      -> c[19]
    [] f = "hblank_start"   -> c[2]
    [] f = "hblank_end"     -> <<c[3] % 32, Bit(c[5], 128)>>
    [] f = "dscan"          -> Bit(c[9], 128)
    [] f = "cursor"         -> <<c[10] % 32, c[11] % 32>>
    [] f = "hshift"         -> <<Bit(c[5], 32), Bit(c[5], 64)>>
    [] f = "protection"     -> Bit(c[17], 128)
    [] OTHER                 -> OtherBits(c)

Field == {"max_scanline", "vert_double", "vert_total", "vdispl_end", "vretrace_start",
          "vretrace_end", "vblank_start", "vblank_end", "hor_total", "hor_displ_end",
          "hsync_start", "hsync_end", "log_width", "hblank_start", "hblank_end", "dscan",
          "cursor", "hshift", "protection", "other"}

\* d is c with field x made v.
Sets(c, d, x, v) == /\ d \in Regs
                    /\ Show(d, x) = v
                    /\ \A f \in Field \ {x} : Show(d, f) = Show(c, f)

\* d is c but for register r, which is v.
Puts(c, d, r, v) == d \in Regs /\ d[r] = v /\ \A s \in Reg \ {r} : d[s] = c[s]

Free(c, r) == r >= 8 \/ Bit(c[17], 128) = 0

LEMMA OutFree ==
  ASSUME NEW c \in Regs, NEW r \in Reg, NEW v \in Int, Free(c, r)
  PROVE  Puts(c, Out(c, r, v), r, v % 256)
  <1>1. v % 256 \in Byte
    BY DEF Byte
  <1>2. ~Protected(c, r)
    BY DEF Protected, Reg, Free
  <1> QED
    BY <1>1, <1>2 DEF Out, Regs, Puts

LEMMA OutBitFree ==
  ASSUME NEW c \in Regs, NEW r \in Reg, NEW w \in Weights, NEW b \in 0..1, Free(c, r)
  PROVE  Puts(c, OutBit(c, r, w, b), r, PutBit(c[r], w, b))
  <1>1. c[r] \in Byte
    BY DEF Regs
  <1>2. PutBit(c[r], w, b) \in Byte
    BY <1>1, PutBitBit
  <1>3. PutBit(c[r], w, b) % 256 = PutBit(c[r], w, b) /\ PutBit(c[r], w, b) \in Int
    BY <1>2 DEF Byte
  <1> QED
    BY <1>3, OutFree DEF OutBit

\* The setters of ten bit numbers: eight bits in a register of their own,
\* the others as single bits of two more, which may be the same.
Spread(c, d, r0, v, r1, w1, b1, r2, w2, b2) ==
  /\ d \in Regs
  /\ d[r0] = v % 256
  /\ \A r \in Reg \ {r0, r1, r2} : d[r] = c[r]
  /\ \A r \in {r1, r2}, u \in Weights :
       Bit(d[r], u) = IF r = r2 /\ u = w2 THEN b2
                      ELSE IF r = r1 /\ u = w1 THEN b1 ELSE Bit(c[r], u)
  /\ r1 # r2 /\ w2 \in {32, 64, 128} => d[r2] % 32 = c[r2] % 32

LEMMA SpreadBits ==
  ASSUME NEW c \in Regs, NEW r0 \in Reg, NEW r1 \in Reg, NEW r2 \in Reg, NEW v \in Int,
         NEW w1 \in Weights, NEW w2 \in Weights, NEW b1 \in 0..1, NEW b2 \in 0..1,
         Bit(c[17], 128) = 0, r0 \notin {r1, r2, 17}, 17 \notin {r1, r2}, r1 # r2 \/ w1 # w2,
         NEW d, d = OutBit(OutBit(Out(c, r0, v), r1, w1, b1), r2, w2, b2)
  PROVE  Spread(c, d, r0, v, r1, w1, b1, r2, w2, b2)
  <1> DEFINE e == Out(c, r0, v)
             f == OutBit(e, r1, w1, b1)
  <1>1. Puts(c, e, r0, v % 256)
    BY OutFree DEF Free
  <1>2. e \in Regs /\ Free(e, r1)
    BY <1>1 DEF Puts, Free, Reg
  <1>3. Puts(e, f, r1, PutBit(e[r1], w1, b1))
    BY <1>2, OutBitFree
  <1>4. f \in Regs /\ Free(f, r2)
    BY <1>1, <1>3 DEF Puts, Free, Reg
  <1>5. Puts(f, d, r2, PutBit(f[r2], w2, b2))
    BY <1>4, OutBitFree
  <1> HIDE DEF e, f
  <1>6. /\ d \in Regs /\ d[r0] = v % 256 /\ d[r2] = PutBit(f[r2], w2, b2)
        /\ r1 # r2 => f[r2] = c[r2] /\ d[r1] = f[r1]
        /\ \A r \in Reg \ {r0, r1, r2} : d[r] = c[r]
        /\ f[r1] = PutBit(c[r1], w1, b1)
    BY <1>1, <1>3, <1>5 DEF Puts
  <1>7. c[r1] \in Byte /\ c[r2] \in Byte /\ f[r1] \in Byte /\ f[r2] \in Byte
    BY <1>4 DEF Regs
  <1>8. \A u \in Weights : Bit(f[r1], u) = IF u = w1 THEN b1 ELSE Bit(c[r1], u)
    <2>1. c[r1] \in Byte /\ f[r1] = PutBit(c[r1], w1, b1)
      BY <1>6, <1>7
    <2> QED
      BY <2>1, PutBitBit
  <1>9. \A u \in Weights : Bit(d[r2], u) = IF u = w2 THEN b2 ELSE Bit(f[r2], u)
    <2>1. f[r2] \in Byte /\ d[r2] = PutBit(f[r2], w2, b2)
      BY <1>6, <1>7
    <2> QED
      BY <2>1, PutBitBit
  <1>10. r1 # r2 /\ w2 \in {32, 64, 128} => d[r2] % 32 = c[r2] % 32
    BY <1>6, <1>7, PutBitField
  <1> QED
    BY <1>6, <1>8, <1>9, <1>10 DEF Spread

LEMMA SetsVertTotal ==
  ASSUME NEW c \in Regs, Bit(c[17], 128) = 0, NEW n \in Int
  PROVE  Sets(c, SetVertTotal(c, n), "vert_total", TenBits(n - 2))
  <1> DEFINE v == n - 2
             d == SetVertTotal(c, n)
  <1>1. v \in Int /\ Bit(v, 256) \in 0..1 /\ Bit(v, 512) \in 0..1
    BY BitType
  <1>2. /\ d \in Regs /\ d[6] = v % 256 /\ \A r \in Reg \ {6, 7} : d[r] = c[r]
        /\ \A u \in Weights : Bit(d[7], u) = IF u = 32 THEN Bit(v, 512) ELSE IF u = 1 THEN Bit(v, 256) ELSE Bit(c[7], u)
    <2>1. 6 \in Reg /\ 7 \in Reg /\ 1 \in Weights /\ 32 \in Weights
      BY DEF Reg, Weights
    <2>2. d = OutBit(OutBit(Out(c, 6, v), 7, 1, Bit(v, 256)), 7, 32, Bit(v, 512))
      BY DEF SetVertTotal
    <2>3. 6 \notin {7, 17} /\ 17 # 7
      OBVIOUS
    <2> HIDE DEF v, d
    <2>4. Spread(c, d, 6, v, 7, 1, Bit(v, 256), 7, 32, Bit(v, 512))
      BY <1>1, <2>1, <2>2, <2>3, SpreadBits
    <2> QED
      BY <2>4 DEF Spread
  <1> HIDE DEF v, d
  <1> USE DEF Reg, Weights
  <1>3. Show(d, "vert_total") = TenBits(v)
    BY <1>2 DEF Show, TenBits
  <1>4. OtherBits(d) = OtherBits(c)
    BY <1>2 DEF OtherBits
  <1>5. \A f \in Field \ {"vert_total"} : Show(d, f) = Show(c, f)
    BY <1>2, <1>4 DEF Show, Field
  <1> QED
    BY <1>2, <1>3, <1>5 DEF Sets, v, d

LEMMA SetsVDisplEnd ==
  ASSUME NEW c \in Regs, Bit(c[17], 128) = 0, NEW n \in Int
  PROVE  Sets(c, SetVDisplEnd(c, n), "vdispl_end", TenBits(n - 1))
  <1> DEFINE v == n - 1
             d == SetVDisplEnd(c, n)
  <1>1. v \in Int /\ Bit(v, 256) \in 0..1 /\ Bit(v, 512) \in 0..1
    BY BitType
  <1>2. /\ d \in Regs /\ d[18] = v % 256 /\ \A r \in Reg \ {18, 7} : d[r] = c[r]
        /\ \A u \in Weights : Bit(d[7], u) = IF u = 64 THEN Bit(v, 512) ELSE IF u = 2 THEN Bit(v, 256) ELSE Bit(c[7], u)
    <2>1. 18 \in Reg /\ 7 \in Reg /\ 2 \in Weights /\ 64 \in Weights
      BY DEF Reg, Weights
    <2>2. d = OutBit(OutBit(Out(c, 18, v), 7, 2, Bit(v, 256)), 7, 64, Bit(v, 512))
      BY DEF SetVDisplEnd
    <2>3. 18 \notin {7, 17} /\ 17 # 7
      OBVIOUS
    <2> HIDE DEF v, d
    <2>4. Spread(c, d, 18, v, 7, 2, Bit(v, 256), 7, 64, Bit(v, 512))
      BY <1>1, <2>1, <2>2, <2>3, SpreadBits
    <2> QED
      BY <2>4 DEF Spread
  <1> HIDE DEF v, d
  <1> USE DEF Reg, Weights
  <1>3. Show(d, "vdispl_end") = TenBits(v)
    BY <1>2 DEF Show, TenBits
  <1>4. OtherBits(d) = OtherBits(c)
    BY <1>2 DEF OtherBits
  <1>5. \A f \in Field \ {"vdispl_end"} : Show(d, f) = Show(c, f)
    BY <1>2, <1>4 DEF Show, Field
  <1> QED
    BY <1>2, <1>3, <1>5 DEF Sets, v, d

LEMMA SetsVRetraceStart ==
  ASSUME NEW c \in Regs, Bit(c[17], 128) = 0, NEW n \in Int
  PROVE  Sets(c, SetVRetraceStart(c, n), "vretrace_start", TenBits(n))
  <1> DEFINE v == n
             d == SetVRetraceStart(c, n)
  <1>1. v \in Int /\ Bit(v, 256) \in 0..1 /\ Bit(v, 512) \in 0..1
    BY BitType
  <1>2. /\ d \in Regs /\ d[16] = v % 256 /\ \A r \in Reg \ {16, 7} : d[r] = c[r]
        /\ \A u \in Weights : Bit(d[7], u) = IF u = 128 THEN Bit(v, 512) ELSE IF u = 4 THEN Bit(v, 256) ELSE Bit(c[7], u)
    <2>1. 16 \in Reg /\ 7 \in Reg /\ 4 \in Weights /\ 128 \in Weights
      BY DEF Reg, Weights
    <2>2. d = OutBit(OutBit(Out(c, 16, v), 7, 4, Bit(v, 256)), 7, 128, Bit(v, 512))
      BY DEF SetVRetraceStart
    <2>3. 16 \notin {7, 17} /\ 17 # 7
      OBVIOUS
    <2> HIDE DEF v, d
    <2>4. Spread(c, d, 16, v, 7, 4, Bit(v, 256), 7, 128, Bit(v, 512))
      BY <1>1, <2>1, <2>2, <2>3, SpreadBits
    <2> QED
      BY <2>4 DEF Spread
  <1> HIDE DEF v, d
  <1> USE DEF Reg, Weights
  <1>3. Show(d, "vretrace_start") = TenBits(v)
    BY <1>2 DEF Show, TenBits
  <1>4. OtherBits(d) = OtherBits(c)
    BY <1>2 DEF OtherBits
  <1>5. \A f \in Field \ {"vretrace_start"} : Show(d, f) = Show(c, f)
    BY <1>2, <1>4 DEF Show, Field
  <1> QED
    BY <1>2, <1>3, <1>5 DEF Sets, v, d

LEMMA SetsVBlankStart ==
  ASSUME NEW c \in Regs, Bit(c[17], 128) = 0, NEW n \in Int
  PROVE  Sets(c, SetVBlankStart(c, n), "vblank_start", TenBits(n))
  <1> DEFINE v == n
             d == SetVBlankStart(c, n)
  <1>1. v \in Int /\ Bit(v, 256) \in 0..1 /\ Bit(v, 512) \in 0..1
    BY BitType
  <1>2. /\ d \in Regs /\ d[21] = v % 256 /\ \A r \in Reg \ {21, 7, 9} : d[r] = c[r]
        /\ \A u \in Weights : Bit(d[7], u) = IF u = 8 THEN Bit(v, 256) ELSE Bit(c[7], u)
        /\ \A u \in Weights : Bit(d[9], u) = IF u = 32 THEN Bit(v, 512) ELSE Bit(c[9], u)
        /\ d[9] % 32 = c[9] % 32
    <2>1. 21 \in Reg /\ 7 \in Reg /\ 9 \in Reg /\ 8 \in Weights /\ 32 \in Weights
      BY DEF Reg, Weights
    <2>2. d = OutBit(OutBit(Out(c, 21, v), 7, 8, Bit(v, 256)), 9, 32, Bit(v, 512))
      BY DEF SetVBlankStart
    <2>3. 21 \notin {7, 9, 17} /\ 17 \notin {7, 9} /\ 7 # 9 /\ 32 \in {32, 64, 128}
      OBVIOUS
    <2> HIDE DEF v, d
    <2>4. Spread(c, d, 21, v, 7, 8, Bit(v, 256), 9, 32, Bit(v, 512))
      BY <1>1, <2>1, <2>2, <2>3, SpreadBits
    <2> QED
      BY <2>4 DEF Spread
  <1> HIDE DEF v, d
  <1> USE DEF Reg, Weights
  <1>3. Show(d, "vblank_start") = TenBits(v)
    BY <1>2 DEF Show, TenBits
  <1>4. OtherBits(d) = OtherBits(c)
    BY <1>2 DEF OtherBits
  <1>5. \A f \in Field \ {"vblank_start"} : Show(d, f) = Show(c, f)
    BY <1>2, <1>4 DEF Show, Field
  <1> QED
    BY <1>2, <1>3, <1>5 DEF Sets, v, d


\* Registers that hold one number and nothing else.
OneField == {<<0, "hor_total">>, <<1, "hor_displ_end">>, <<2, "hblank_start">>, <<4, "hsync_start">>,
             <<19, "log_width">>, <<22, "vblank_end">>}

LEMMA SetsRegister ==
  ASSUME NEW c \in Regs, Bit(c[17], 128) = 0, NEW r, NEW f, <<r, f>> \in OneField, NEW n \in Int
  PROVE  Sets(c, Out(c, r, n), f, n % 256)
  <1> DEFINE d == Out(c, r, n)
  <1>1. r \in Reg /\ r \in {0, 1, 2, 4, 19, 22}
    BY DEF OneField, Reg
  <1>2. Puts(c, d, r, n % 256)
    BY <1>1, OutFree DEF Free
  <1> HIDE DEF d
  <1>3. OtherBits(d) = OtherBits(c)
    BY <1>1, <1>2 DEF OtherBits, Puts, Reg
  <1>4. Show(d, f) = n % 256
    BY <1>2 DEF Show, Puts, OneField
  <1>5. \A g \in Field \ {f} : Show(d, g) = Show(c, g)
    BY <1>2, <1>3 DEF Show, Puts, OneField, Field, Reg
  <1> QED
    BY <1>2, <1>4, <1>5 DEF Sets, Puts, d

\* The lowest bits of a register.
LowBits(c, d, r, k, n) ==
  /\ d \in Regs /\ \A s \in Reg \ {r} : d[s] = c[s]
  /\ d[r] % k = n % k /\ d[r] \div k = c[r] \div k
  /\ \A u \in Weights : u >= k => Bit(d[r], u) = Bit(c[r], u)

LEMMA OutLow ==
  ASSUME NEW c \in Regs, Bit(c[17], 128) = 0, NEW r \in Reg, NEW k \in {16, 32}, NEW n \in Int,
         NEW d, d = Out(c, r, PutLow(c[r], k, n))
  PROVE  LowBits(c, d, r, k, n)
  <1>1. c[r] \in Byte
    BY DEF Regs
  <1>2. PutLow(c[r], k, n) \in Byte
    BY <1>1, PutLowField
  <1>3. PutLow(c[r], k, n) % 256 = PutLow(c[r], k, n) /\ PutLow(c[r], k, n) \in Int
    BY <1>2 DEF Byte
  <1>4. Puts(c, d, r, PutLow(c[r], k, n))
    BY <1>3, OutFree DEF Free
  <1>5. /\ PutLow(c[r], k, n) % k = n % k /\ PutLow(c[r], k, n) \div k = c[r] \div k
        /\ \A u \in Weights : u >= k => Bit(PutLow(c[r], k, n), u) = Bit(c[r], u)
    BY <1>1, PutLowField, ZenonT(60)
  <1> QED
    BY <1>4, <1>5 DEF Puts, LowBits

LEMMA SetsMaxScanline ==
  ASSUME NEW c \in Regs, Bit(c[17], 128) = 0, NEW n \in Int
  PROVE  Sets(c, SetMaxScanline(c, n), "max_scanline", (n - 1) % 32)
  <1> DEFINE d == SetMaxScanline(c, n)
  <1>1. /\ d \in Regs /\ \A s \in Reg \ {9} : d[s] = c[s]
        /\ d[9] % 32 = (n - 1) % 32
        /\ \A u \in Weights : u >= 32 => Bit(d[9], u) = Bit(c[9], u)
    <2>1. 9 \in Reg /\ n - 1 \in Int /\ d = Out(c, 9, PutLow(c[9], 32, n - 1))
      BY DEF Reg, SetMaxScanline
    <2> HIDE DEF d
    <2>2. LowBits(c, d, 9, 32, n - 1)
      BY <2>1, OutLow
    <2> QED
      BY <2>2 DEF LowBits
  <1> HIDE DEF d
  <1> USE DEF Reg, Weights
  <1>2. OtherBits(d) = OtherBits(c)
    BY <1>1 DEF OtherBits
  <1>3. \A g \in Field \ {"max_scanline"} : Show(d, g) = Show(c, g)
    BY <1>1, <1>2 DEF Show, Field
  <1> QED
    BY <1>1, <1>3 DEF Sets, Show, d

LEMMA SetsVRetraceEnd ==
  ASSUME NEW c \in Regs, Bit(c[17], 128) = 0, NEW n \in Int
  PROVE  Sets(c, SetVRetraceEnd(c, n), "vretrace_end", n % 16)
  <1> DEFINE d == SetVRetraceEnd(c, n)
  <1>1. 17 \in Reg /\ d = Out(c, 17, PutLow(c[17], 16, n))
    BY DEF Reg, SetVRetraceEnd
  <1> HIDE DEF d
  <1>2. LowBits(c, d, 17, 16, n)
    BY <1>1, OutLow
  <1> USE DEF Reg, Weights, LowBits
  <1>3. OtherBits(d) = OtherBits(c)
    BY <1>2 DEF OtherBits
  <1>4. \A g \in Field \ {"vretrace_end"} : Show(d, g) = Show(c, g)
    BY <1>2, <1>3 DEF Show, Field
  <1> QED
    BY <1>2, <1>4 DEF Sets, Show, d

LEMMA SetsHSyncEnd ==
  ASSUME NEW c \in Regs, Bit(c[17], 128) = 0, NEW n \in Int
  PROVE  Sets(c, SetHSyncEnd(c, n), "hsync_end", n % 32)
  <1> DEFINE d == SetHSyncEnd(c, n)
  <1>1. 5 \in Reg /\ d = Out(c, 5, PutLow(c[5], 32, n))
    BY DEF Reg, SetHSyncEnd
  <1> HIDE DEF d
  <1>2. LowBits(c, d, 5, 32, n)
    BY <1>1, OutLow
  <1> USE DEF Reg, Weights, LowBits
  <1>3. OtherBits(d) = OtherBits(c)
    BY <1>2 DEF OtherBits
  <1>4. \A g \in Field \ {"hsync_end"} : Show(d, g) = Show(c, g)
    BY <1>2, <1>3 DEF Show, Field
  <1> QED
    BY <1>2, <1>4 DEF Sets, Show, d

LEMMA SetsCursor ==
  ASSUME NEW c \in Regs, Bit(c[17], 128) = 0, NEW m \in Int, NEW n \in Int
  PROVE  Sets(c, SetCursorEnd(SetCursorStart(c, m), n), "cursor", <<m % 32, n % 32>>)
  <1> DEFINE e == SetCursorStart(c, m)
             d == SetCursorEnd(e, n)
  <1>1. /\ 10 \in Reg /\ e = Out(c, 10, PutLow(c[10], 32, m))
        /\ 11 \in Reg /\ d = Out(e, 11, PutLow(e[11], 32, n))
    BY DEF Reg, SetCursorStart, SetCursorEnd
  <1> HIDE DEF d, e
  <1>2. LowBits(c, e, 10, 32, m)
    BY <1>1, OutLow
  <1>3. e \in Regs /\ Bit(e[17], 128) = 0
    BY <1>2 DEF LowBits, Reg
  <1>4. LowBits(e, d, 11, 32, n)
    BY <1>1, <1>3, OutLow
  <1>5. /\ d \in Regs /\ \A r \in Reg \ {10, 11} : d[r] = c[r]
        /\ d[10] % 32 = m % 32 /\ d[11] % 32 = n % 32
        /\ d[10] \div 32 = c[10] \div 32 /\ d[11] \div 32 = c[11] \div 32
    BY <1>2, <1>4 DEF LowBits, Reg
  <1>6. OtherBits(d) = OtherBits(c)
    BY <1>5 DEF OtherBits, Reg
  <1>7. \A g \in Field \ {"cursor"} : Show(d, g) = Show(c, g)
    BY <1>5, <1>6 DEF Show, Field, Reg
  <1> QED
    BY <1>5, <1>7 DEF Sets, Show, d, e

LEMMA SetsHBlankEnd ==
  ASSUME NEW c \in Regs, Bit(c[17], 128) = 0, NEW n \in Int
  PROVE  Sets(c, SetHBlankEnd(c, n), "hblank_end", <<(n - 1) % 32, Bit(n - 1, 32)>>)
  <1> DEFINE v == n - 1
             e == Out(c, 3, PutLow(c[3], 32, v))
             d == SetHBlankEnd(c, n)
  <1>1. /\ v \in Int /\ 3 \in Reg /\ 5 \in Reg /\ Bit(v, 32) \in 0..1 /\ 128 \in Weights
        /\ d = OutBit(e, 5, 128, Bit(v, 32)) /\ c[5] \in Byte
    BY BitType DEF Reg, Regs, Weights, SetHBlankEnd
  <1> HIDE DEF v, d
  <1>2. LowBits(c, e, 3, 32, v)
    BY <1>1, OutLow
  <1> HIDE DEF e
  <1>3. e \in Regs /\ Free(e, 5) /\ e[5] = c[5]
    BY <1>2 DEF LowBits, Reg, Free
  <1>4. Puts(e, d, 5, PutBit(c[5], 128, Bit(v, 32)))
    BY <1>1, <1>3, OutBitFree
  <1>5. /\ d \in Regs /\ \A r \in Reg \ {3, 5} : d[r] = c[r]
        /\ d[3] % 32 = v % 32 /\ d[3] \div 32 = c[3] \div 32
        /\ d[5] = PutBit(c[5], 128, Bit(v, 32))
    BY <1>2, <1>4 DEF LowBits, Puts, Reg
  <1>6. /\ \A u \in Weights : Bit(d[5], u) = IF u = 128 THEN Bit(v, 32) ELSE Bit(c[5], u)
        /\ d[5] % 32 = c[5] % 32
    BY <1>1, <1>5, PutBitBit, PutBitField
  <1> USE DEF Reg, Weights
  <1>7. OtherBits(d) = OtherBits(c)
    BY <1>5 DEF OtherBits
  <1>8. \A g \in Field \ {"hblank_end"} : Show(d, g) = Show(c, g)
    BY <1>5, <1>6, <1>7 DEF Show, Field
  <1> QED
    BY <1>5, <1>6, <1>8, ZenonT(60) DEF Sets, Show, d, v

LEMMA SetsHorizShift ==
  ASSUME NEW c \in Regs, Bit(c[17], 128) = 0, NEW n \in Int
  PROVE  Sets(c, SetHorizShift(c, n), "hshift", <<Bit(n, 1), Bit(n, 2)>>)
  <1> DEFINE x == PutBit(c[5], 32, Bit(n, 1))
             y == PutBit(x, 64, Bit(n, 2))
             d == SetHorizShift(c, n)
  <1>1. /\ Bit(n, 1) \in 0..1 /\ Bit(n, 2) \in 0..1 /\ 32 \in Weights /\ 64 \in Weights
        /\ c[5] \in Byte /\ 5 \in Reg /\ Free(c, 5) /\ d = Out(c, 5, y)
    BY BitType DEF Reg, Regs, Weights, SetHorizShift, Free
  <1>2. x \in Byte /\ x % 32 = c[5] % 32
        /\ \A u \in Weights : Bit(x, u) = IF u = 32 THEN Bit(n, 1) ELSE Bit(c[5], u)
    BY <1>1, PutBitBit, PutBitField, SMTT(30)
  <1> HIDE DEF x
  <1>3. y \in Byte /\ y % 32 = x % 32
        /\ \A u \in Weights : Bit(y, u) = IF u = 64 THEN Bit(n, 2) ELSE Bit(x, u)
    BY <1>1, <1>2, PutBitBit, PutBitField, SMTT(30)
  <1> HIDE DEF y, d
  <1>4. y % 256 = y /\ y \in Int
    BY <1>3 DEF Byte
  <1>5. Puts(c, d, 5, y)
    BY <1>1, <1>4, OutFree
  <1> USE DEF Reg, Weights, Puts
  <1>6. OtherBits(d) = OtherBits(c)
    BY <1>5 DEF OtherBits
  <1>7. \A g \in Field \ {"hshift"} : Show(d, g) = Show(c, g)
    BY <1>2, <1>3, <1>5, <1>6 DEF Show, Field
  <1>8. Show(d, "hshift") = <<Bit(n, 1), Bit(n, 2)>>
    <2>1. Show(d, "hshift") = <<Bit(y, 32), Bit(y, 64)>>
      BY <1>5 DEF Show
    <2>2. Bit(y, 32) = Bit(n, 1) /\ Bit(y, 64) = Bit(n, 2)
      BY <1>2, <1>3
    <2> QED
      BY <2>1, <2>2
  <1>9. d \in Regs
    BY <1>5
  <1> QED
    BY <1>7, <1>8, <1>9 DEF Sets, d

\* Single bits: pairs of lines, lines shown twice, the write protection.
LEMMA PairsBit ==
  ASSUME NEW x \in Byte, NEW b \in 0..1
  PROVE  PutBit(PutBit(x, 4, b), 4, 0) = PutBit(x, 4, 0)
  BY DEF Byte, PutBit, Bit

LEMMA ProtectionBit ==
  ASSUME NEW x \in Byte
  PROVE  /\ (PutBit(x, 128, 0) \div 16) % 8 = (x \div 16) % 8
         /\ PutBit(x, 128, 0) % 16 = x % 16
  BY DEF Byte, PutBit, Bit

LEMMA SetsVertDouble ==
  ASSUME NEW c \in Regs, NEW b \in 0..1
  PROVE  Sets(c, OutBit(c, 23, 4, b), "vert_double", b)
  <1> DEFINE d == OutBit(c, 23, 4, b)
  <1>1. 23 \in Reg /\ 4 \in Weights /\ Free(c, 23) /\ c[23] \in Byte
    BY DEF Reg, Weights, Free, Regs
  <1>2. Puts(c, d, 23, PutBit(c[23], 4, b))
    BY <1>1, OutBitFree
  <1>3. Bit(PutBit(c[23], 4, b), 4) = b
    BY <1>1, PutBitBit
  <1>4. PutBit(PutBit(c[23], 4, b), 4, 0) = PutBit(c[23], 4, 0)
    BY <1>1, PairsBit
  <1> HIDE DEF d
  <1> USE DEF Reg, Puts
  <1>5. OtherBits(d) = OtherBits(c)
    BY <1>2, <1>4 DEF OtherBits
  <1>6. \A g \in Field \ {"vert_double"} : Show(d, g) = Show(c, g)
    BY <1>2, <1>5 DEF Show, Field
  <1> QED
    BY <1>2, <1>3, <1>6 DEF Sets, Show, d

LEMMA SetsDoubleScan ==
  ASSUME NEW c \in Regs, NEW on \in BOOLEAN
  PROVE  Sets(c, SetDoubleScan(c, on), "dscan", IF on THEN 1 ELSE 0)
  <1> DEFINE b == IF on THEN 1 ELSE 0
             d == SetDoubleScan(c, on)
  <1>1. /\ b \in 0..1 /\ 9 \in Reg /\ 128 \in Weights /\ Free(c, 9) /\ c[9] \in Byte
        /\ d = OutBit(c, 9, 128, b)
    BY DEF Reg, Weights, Free, Regs, SetDoubleScan
  <1> HIDE DEF b, d
  <1>2. Puts(c, d, 9, PutBit(c[9], 128, b))
    BY <1>1, OutBitFree
  <1>3. /\ \A u \in Weights : Bit(PutBit(c[9], 128, b), u) = IF u = 128 THEN b ELSE Bit(c[9], u)
        /\ PutBit(c[9], 128, b) % 32 = c[9] % 32
    BY <1>1, PutBitBit, PutBitField
  <1> USE DEF Reg, Weights, Puts
  <1>4. OtherBits(d) = OtherBits(c)
    BY <1>2, <1>3 DEF OtherBits
  <1>5. \A g \in Field \ {"dscan"} : Show(d, g) = Show(c, g)
    BY <1>2, <1>3, <1>4 DEF Show, Field
  <1>6. Show(d, "dscan") = b
    <2>1. Show(d, "dscan") = Bit(PutBit(c[9], 128, b), 128)
      BY <1>2 DEF Show
    <2> QED
      BY <2>1, <1>3
  <1>7. d \in Regs
    BY <1>2
  <1> QED
    BY <1>5, <1>6, <1>7 DEF Sets, d, b

LEMMA SetsProtection ==
  ASSUME NEW c \in Regs
  PROVE  Sets(c, OutBit(c, 17, 128, 0), "protection", 0)
  <1> DEFINE d == OutBit(c, 17, 128, 0)
  <1>1. 17 \in Reg /\ 128 \in Weights /\ Free(c, 17) /\ c[17] \in Byte
    BY DEF Reg, Weights, Free, Regs
  <1>2. Puts(c, d, 17, PutBit(c[17], 128, 0))
    BY <1>1, OutBitFree
  <1>3. /\ Bit(PutBit(c[17], 128, 0), 128) = 0
        /\ (PutBit(c[17], 128, 0) \div 16) % 8 = (c[17] \div 16) % 8
        /\ PutBit(c[17], 128, 0) % 16 = c[17] % 16
    BY <1>1, PutBitBit, ProtectionBit
  <1> HIDE DEF d
  <1> USE DEF Reg, Puts
  <1>4. OtherBits(d) = OtherBits(c)
    BY <1>2, <1>3 DEF OtherBits
  <1>5. \A g \in Field \ {"protection"} : Show(d, g) = Show(c, g)
    BY <1>2, <1>3, <1>4 DEF Show, Field
  <1>6. Show(d, "protection") = 0
    <2>1. Show(d, "protection") = Bit(PutBit(c[17], 128, 0), 128)
      BY <1>2 DEF Show
    <2> QED
      BY <2>1, <1>3
  <1>7. d \in Regs
    BY <1>2
  <1> QED
    BY <1>5, <1>6, <1>7 DEF Sets, d

\* The underline has a register of its own, of which no field is a part.
LEMMA UnderlineApart ==
  ASSUME NEW c \in Regs, NEW n \in Int
  PROVE  Out(c, 20, n) \in Regs /\ \A f \in Field : Show(Out(c, 20, n), f) = Show(c, f)
  <1> DEFINE d == Out(c, 20, n)
  <1>1. 20 \in Reg /\ Free(c, 20)
    BY DEF Reg, Free
  <1>2. Puts(c, d, 20, n % 256)
    BY <1>1, OutFree
  <1> HIDE DEF d
  <1> USE DEF Reg, Puts
  <1>3. OtherBits(d) = OtherBits(c)
    BY <1>2 DEF OtherBits
  <1>4. \A g \in Field : Show(d, g) = Show(c, g)
    BY <1>2, <1>3 DEF Show, Field
  <1> QED
    BY <1>2, <1>4 DEF d
-----------------------------------------------------------------------------
(* The invariant: what has been called so far still shows.                 *)

\* The calls in their order; what set80 calls has the place of main()'s call.
Place(s) ==
  CASE s = "max_scanline"   -> 1   [] s = "vert_double"    -> 2
    [] s = "vert_total"     -> 3   [] s = "vdispl_end"     -> 4
    [] s = "vretrace_start" -> 5   [] s = "vretrace_end"   -> 6
    [] s = "vblank_start"   -> 7   [] s = "vblank_end"     -> 8
    [] s = "hor_total"      -> 9   [] s = "hor_displ_end"  -> 10
    [] s = "hsync_start"    -> 11  [] s = "hsync_end"      -> 12
    [] s = "log_width"      -> 13  [] s = "hblank_start"   -> 14
    [] s = "hblank_end"     -> 15  [] s = "dscan"          -> 16
    [] s = "set80_cursor"   -> 16  [] s = "cursor"         -> 17
    [] s = "underline"      -> 18  [] s = "hshift"         -> 19
    [] s = "done"           -> 20  [] OTHER                -> 0

ScaledTo(m, line) == (line * m.fontHeight) \div 32

\* What a call makes of its field.
Want(m, f) ==
  CASE f = "max_scanline"   -> (m.fontHeight - 1) % 32
    [] f = "vert_double"    -> IF VertDouble(m) THEN 1 ELSE 0
    [] f = "vert_total"     -> TenBits(V(m).total - 2)
    [] f = "vdispl_end"     -> TenBits(V(m).active - 1)
    [] f = "vretrace_start" -> TenBits(V(m).start)
    [] f = "vretrace_end"   -> V(m).stop % 16
    [] f = "vblank_start"   -> TenBits(VBlank(m).start)
    [] f = "vblank_end"     -> VBlank(m).stop % 256
    [] f = "hor_total"      -> (H(m).total - 5) % 256
    [] f = "hor_displ_end"  -> (H(m).active - 1) % 256
    [] f = "hsync_start"    -> H(m).start % 256
    [] f = "hsync_end"      -> H(m).stop % 32
    [] f = "log_width"      -> (H(m).active \div 2) % 256
    [] f = "hblank_start"   -> (HBlank(m).start - 1) % 256
    [] f = "hblank_end"     -> <<(HBlank(m).stop - 1) % 32, Bit(HBlank(m).stop - 1, 32)>>
    [] f = "dscan"          -> IF m.dscan THEN 1 ELSE 0
    [] f = "cursor"         -> <<ScaledTo(m, Cursor.start) % 32, ScaledTo(m, Cursor.end) % 32>>
    [] f = "hshift"         -> <<Bit(m.hshift, 1), Bit(m.hshift, 2)>>
    [] OTHER                -> 0

MainOnly == {"textmode", "unlock", "dscan", "cursor", "underline", "hshift"}
Set80Only == {"set80_unlock", "set80_textmode", "set80_cursor"}

\* A run is one of main() or one of set80, with an accepted mode.
OnPath ==
  pc # "start" =>
    /\ Accepted(mode)
    /\ ~set80 => pc \notin Set80Only
    /\ set80 => mode = Set80Line /\ pc \notin MainOnly
    /\ set80 /\ force => pc \in {"set80_unlock", "set80_textmode", "done"}

\* set80 -a ends with the BIOS's registers (grabmode may lift their write
\* protection), and that is all it does.
BiosMode == set80 /\ force /\ pc = "done"
BiosText == /\ \A r \in Reg \ {17} : crtc[r] = TextCrtc[r + 1]
            /\ crtc[17] % 128 = 14

Made(f) == Place(f) \in 1..(Place(pc) - 1) /\ (set80 => Place(f) < 16)

MadeShow == \A f \in Field : Made(f) => Show(crtc, f) = Want(mode, f)

Unprotected == Place(pc) > 0 \/ pc = "set80_textmode" => Bit(crtc[17], 128) = 0

Inv == /\ TypeOK
       /\ OnPath
       /\ ~BiosMode => Unprotected /\ MadeShow
       /\ BiosMode => BiosText
-----------------------------------------------------------------------------
(* The invariant holds.                                                    *)

\* The calls that set a field, and nothing but it.
Setter == \/ MaxScanline \/ VertDoubleBit \/ VertTotal \/ VDisplEnd \/ VRetraceStart
          \/ VRetraceEnd \/ VBlankStart \/ VBlankEnd \/ HorTotal \/ HorDisplEnd
          \/ HSyncStart \/ HSyncEnd \/ LogWidth \/ HBlankStart \/ HBlankEnd
          \/ DoubleScan \/ CursorLines \/ HorizShift

\* Where a call leads to.
Onward == /\ Place(pc') = Place(pc) + 1
          /\ pc' \in Set80Only => set80
          /\ pc' \in MainOnly => ~set80
          /\ pc' # "start" /\ pc' # "set80_textmode"

Frame == UNCHANGED <<mode, set80, force, left>>

LEMMA SetterSets ==
  ASSUME TypeOK, Unprotected, OnPath, Setter
  PROVE  /\ pc \in Field \ {"other", "protection"} /\ Place(pc) > 0
         /\ Sets(crtc, crtc', pc, Want(mode, pc))
         /\ Onward /\ Frame
  <1> DEFINE Call == /\ pc \in Field \ {"other", "protection"} /\ Place(pc) > 0
                     /\ Sets(crtc, crtc', pc, Want(mode, pc))
                     /\ Onward /\ Frame
  <1>1. /\ crtc \in Regs /\ mode \in ModeLine
        /\ TimingNumbers(V(mode)) /\ TimingNumbers(H(mode))
        /\ BlankNumbers(VBlank(mode)) /\ BlankNumbers(HBlank(mode))
    BY ModesAssumption, Set80IsModeLine, ModeNumbers, BlankingNumbers DEF TypeOK, Regs
  <1>2. ASSUME NEW f, NEW regs, NEW there, Do(f, regs, there),
               f \in Field \ {"other", "protection"}, Place(f) > 0,
               Sets(crtc, regs, f, Want(mode, f)), Place(there) = Place(f) + 1,
               there \in Set80Only => set80, there \in MainOnly => ~set80,
               there \notin {"start", "set80_textmode"}
        PROVE  Call
    BY <1>2 DEF Do, Onward, Frame
  <1>3. Place(pc) > 0 => Bit(crtc[17], 128) = 0
    BY DEF Unprotected
  <1>4. ~set80 \/ pc \notin MainOnly
    BY DEF OnPath, MainOnly
  <1>5. CASE MaxScanline
    <2>1. pc = "max_scanline" /\ Place("max_scanline") > 0 /\ "max_scanline" \in Field \ {"other", "protection"}
      BY <1>5 DEF MaxScanline, Do, Place, Field
    <2>2. mode.fontHeight \in Int
      BY <1>1 DEF ModeLine
    <2>3. Sets(crtc, SetMaxScanline(crtc, mode.fontHeight), "max_scanline", Want(mode, "max_scanline"))
      BY <1>1, <1>3, <2>1, <2>2, SetsMaxScanline DEF Want
    <2>4. /\ Place("vert_double") = Place("max_scanline") + 1
          /\ "vert_double" \in Set80Only => set80
          /\ "vert_double" \in MainOnly => ~set80
          /\ "vert_double" \notin {"start", "set80_textmode"}
      BY <1>4, <2>1 DEF Place, Set80Only, MainOnly
    <2>5. Do("max_scanline", SetMaxScanline(crtc, mode.fontHeight), "vert_double")
      BY <1>5 DEF MaxScanline
    <2> QED
      BY <1>2, <2>1, <2>3, <2>4, <2>5
  <1>6. CASE VertDoubleBit
    <2>1. pc = "vert_double" /\ Place("vert_double") > 0 /\ "vert_double" \in Field \ {"other", "protection"}
      BY <1>6 DEF VertDoubleBit, Do, Place, Field
    <2>2. Sets(crtc, OutBit(crtc, 23, 4, IF VertDouble(mode) THEN 1 ELSE 0), "vert_double", Want(mode, "vert_double"))
      BY <1>1, <1>3, <2>1, SetsVertDouble DEF Want
    <2>3. /\ Place("vert_total") = Place("vert_double") + 1
          /\ "vert_total" \in Set80Only => set80
          /\ "vert_total" \in MainOnly => ~set80
          /\ "vert_total" \notin {"start", "set80_textmode"}
      BY <1>4, <2>1 DEF Place, Set80Only, MainOnly
    <2>4. Do("vert_double", OutBit(crtc, 23, 4, IF VertDouble(mode) THEN 1 ELSE 0), "vert_total")
      BY <1>6 DEF VertDoubleBit
    <2> QED
      BY <1>2, <2>1, <2>2, <2>3, <2>4
  <1>7. CASE VertTotal
    <2>1. pc = "vert_total" /\ Place("vert_total") > 0 /\ "vert_total" \in Field \ {"other", "protection"}
      BY <1>7 DEF VertTotal, Do, Place, Field
    <2>2. Sets(crtc, SetVertTotal(crtc, V(mode).total), "vert_total", Want(mode, "vert_total"))
      BY <1>1, <1>3, <2>1, SetsVertTotal DEF Want, TimingNumbers
    <2>3. /\ Place("vdispl_end") = Place("vert_total") + 1
          /\ "vdispl_end" \in Set80Only => set80
          /\ "vdispl_end" \in MainOnly => ~set80
          /\ "vdispl_end" \notin {"start", "set80_textmode"}
      BY <1>4, <2>1 DEF Place, Set80Only, MainOnly
    <2>4. Do("vert_total", SetVertTotal(crtc, V(mode).total), "vdispl_end")
      BY <1>7 DEF VertTotal
    <2> QED
      BY <1>2, <2>1, <2>2, <2>3, <2>4
  <1>8. CASE VDisplEnd
    <2>1. pc = "vdispl_end" /\ Place("vdispl_end") > 0 /\ "vdispl_end" \in Field \ {"other", "protection"}
      BY <1>8 DEF VDisplEnd, Do, Place, Field
    <2>2. Sets(crtc, SetVDisplEnd(crtc, V(mode).active), "vdispl_end", Want(mode, "vdispl_end"))
      BY <1>1, <1>3, <2>1, SetsVDisplEnd DEF Want, TimingNumbers
    <2>3. /\ Place("vretrace_start") = Place("vdispl_end") + 1
          /\ "vretrace_start" \in Set80Only => set80
          /\ "vretrace_start" \in MainOnly => ~set80
          /\ "vretrace_start" \notin {"start", "set80_textmode"}
      BY <1>4, <2>1 DEF Place, Set80Only, MainOnly
    <2>4. Do("vdispl_end", SetVDisplEnd(crtc, V(mode).active), "vretrace_start")
      BY <1>8 DEF VDisplEnd
    <2> QED
      BY <1>2, <2>1, <2>2, <2>3, <2>4
  <1>9. CASE VRetraceStart
    <2>1. pc = "vretrace_start" /\ Place("vretrace_start") > 0 /\ "vretrace_start" \in Field \ {"other", "protection"}
      BY <1>9 DEF VRetraceStart, Do, Place, Field
    <2>2. Sets(crtc, SetVRetraceStart(crtc, V(mode).start), "vretrace_start", Want(mode, "vretrace_start"))
      BY <1>1, <1>3, <2>1, SetsVRetraceStart DEF Want, TimingNumbers
    <2>3. /\ Place("vretrace_end") = Place("vretrace_start") + 1
          /\ "vretrace_end" \in Set80Only => set80
          /\ "vretrace_end" \in MainOnly => ~set80
          /\ "vretrace_end" \notin {"start", "set80_textmode"}
      BY <1>4, <2>1 DEF Place, Set80Only, MainOnly
    <2>4. Do("vretrace_start", SetVRetraceStart(crtc, V(mode).start), "vretrace_end")
      BY <1>9 DEF VRetraceStart
    <2> QED
      BY <1>2, <2>1, <2>2, <2>3, <2>4
  <1>10. CASE VRetraceEnd
    <2>1. pc = "vretrace_end" /\ Place("vretrace_end") > 0 /\ "vretrace_end" \in Field \ {"other", "protection"}
      BY <1>10 DEF VRetraceEnd, Do, Place, Field
    <2>2. Sets(crtc, SetVRetraceEnd(crtc, V(mode).stop), "vretrace_end", Want(mode, "vretrace_end"))
      BY <1>1, <1>3, <2>1, SetsVRetraceEnd DEF Want, TimingNumbers
    <2>3. /\ Place("vblank_start") = Place("vretrace_end") + 1
          /\ "vblank_start" \in Set80Only => set80
          /\ "vblank_start" \in MainOnly => ~set80
          /\ "vblank_start" \notin {"start", "set80_textmode"}
      BY <1>4, <2>1 DEF Place, Set80Only, MainOnly
    <2>4. Do("vretrace_end", SetVRetraceEnd(crtc, V(mode).stop), "vblank_start")
      BY <1>10 DEF VRetraceEnd
    <2> QED
      BY <1>2, <2>1, <2>2, <2>3, <2>4
  <1>11. CASE VBlankStart
    <2>1. pc = "vblank_start" /\ Place("vblank_start") > 0 /\ "vblank_start" \in Field \ {"other", "protection"}
      BY <1>11 DEF VBlankStart, Do, Place, Field
    <2>2. Sets(crtc, SetVBlankStart(crtc, VBlank(mode).start), "vblank_start", Want(mode, "vblank_start"))
      BY <1>1, <1>3, <2>1, SetsVBlankStart DEF Want, BlankNumbers
    <2>3. /\ Place("vblank_end") = Place("vblank_start") + 1
          /\ "vblank_end" \in Set80Only => set80
          /\ "vblank_end" \in MainOnly => ~set80
          /\ "vblank_end" \notin {"start", "set80_textmode"}
      BY <1>4, <2>1 DEF Place, Set80Only, MainOnly
    <2>4. Do("vblank_start", SetVBlankStart(crtc, VBlank(mode).start), "vblank_end")
      BY <1>11 DEF VBlankStart
    <2> QED
      BY <1>2, <2>1, <2>2, <2>3, <2>4
  <1>12. CASE VBlankEnd
    <2>1. pc = "vblank_end" /\ Place("vblank_end") > 0 /\ "vblank_end" \in Field \ {"other", "protection"}
      BY <1>12 DEF VBlankEnd, Do, Place, Field
    <2>2. <<22, "vblank_end">> \in OneField
      BY DEF OneField
    <2>3. Sets(crtc, SetVBlankEnd(crtc, VBlank(mode).stop), "vblank_end", Want(mode, "vblank_end"))
      BY <1>1, <1>3, <2>1, <2>2, SetsRegister DEF Want, BlankNumbers, SetVBlankEnd
    <2>4. /\ Place("hor_total") = Place("vblank_end") + 1
          /\ "hor_total" \in Set80Only => set80
          /\ "hor_total" \in MainOnly => ~set80
          /\ "hor_total" \notin {"start", "set80_textmode"}
      BY <1>4, <2>1 DEF Place, Set80Only, MainOnly
    <2>5. Do("vblank_end", SetVBlankEnd(crtc, VBlank(mode).stop), "hor_total")
      BY <1>12 DEF VBlankEnd
    <2> QED
      BY <1>2, <2>1, <2>3, <2>4, <2>5
  <1>13. CASE HorTotal
    <2>1. pc = "hor_total" /\ Place("hor_total") > 0 /\ "hor_total" \in Field \ {"other", "protection"}
      BY <1>13 DEF HorTotal, Do, Place, Field
    <2>2. <<0, "hor_total">> \in OneField /\ H(mode).total - 5 \in Int
      BY <1>1 DEF OneField, TimingNumbers
    <2>3. Sets(crtc, SetHorTotal(crtc, H(mode).total), "hor_total", Want(mode, "hor_total"))
      BY <1>1, <1>3, <2>1, <2>2, SetsRegister DEF Want, SetHorTotal
    <2>4. /\ Place("hor_displ_end") = Place("hor_total") + 1
          /\ "hor_displ_end" \in Set80Only => set80
          /\ "hor_displ_end" \in MainOnly => ~set80
          /\ "hor_displ_end" \notin {"start", "set80_textmode"}
      BY <1>4, <2>1 DEF Place, Set80Only, MainOnly
    <2>5. Do("hor_total", SetHorTotal(crtc, H(mode).total), "hor_displ_end")
      BY <1>13 DEF HorTotal
    <2> QED
      BY <1>2, <2>1, <2>3, <2>4, <2>5
  <1>14. CASE HorDisplEnd
    <2>1. pc = "hor_displ_end" /\ Place("hor_displ_end") > 0 /\ "hor_displ_end" \in Field \ {"other", "protection"}
      BY <1>14 DEF HorDisplEnd, Do, Place, Field
    <2>2. <<1, "hor_displ_end">> \in OneField /\ H(mode).active - 1 \in Int
      BY <1>1 DEF OneField, TimingNumbers
    <2>3. Sets(crtc, SetHorDisplEnd(crtc, H(mode).active), "hor_displ_end", Want(mode, "hor_displ_end"))
      BY <1>1, <1>3, <2>1, <2>2, SetsRegister DEF Want, SetHorDisplEnd
    <2>4. /\ Place("hsync_start") = Place("hor_displ_end") + 1
          /\ "hsync_start" \in Set80Only => set80
          /\ "hsync_start" \in MainOnly => ~set80
          /\ "hsync_start" \notin {"start", "set80_textmode"}
      BY <1>4, <2>1 DEF Place, Set80Only, MainOnly
    <2>5. Do("hor_displ_end", SetHorDisplEnd(crtc, H(mode).active), "hsync_start")
      BY <1>14 DEF HorDisplEnd
    <2> QED
      BY <1>2, <2>1, <2>3, <2>4, <2>5
  <1>15. CASE HSyncStart
    <2>1. pc = "hsync_start" /\ Place("hsync_start") > 0 /\ "hsync_start" \in Field \ {"other", "protection"}
      BY <1>15 DEF HSyncStart, Do, Place, Field
    <2>2. <<4, "hsync_start">> \in OneField
      BY DEF OneField
    <2>3. Sets(crtc, SetHSyncStart(crtc, H(mode).start), "hsync_start", Want(mode, "hsync_start"))
      BY <1>1, <1>3, <2>1, <2>2, SetsRegister DEF Want, TimingNumbers, SetHSyncStart
    <2>4. /\ Place("hsync_end") = Place("hsync_start") + 1
          /\ "hsync_end" \in Set80Only => set80
          /\ "hsync_end" \in MainOnly => ~set80
          /\ "hsync_end" \notin {"start", "set80_textmode"}
      BY <1>4, <2>1 DEF Place, Set80Only, MainOnly
    <2>5. Do("hsync_start", SetHSyncStart(crtc, H(mode).start), "hsync_end")
      BY <1>15 DEF HSyncStart
    <2> QED
      BY <1>2, <2>1, <2>3, <2>4, <2>5
  <1>16. CASE HSyncEnd
    <2>1. pc = "hsync_end" /\ Place("hsync_end") > 0 /\ "hsync_end" \in Field \ {"other", "protection"}
      BY <1>16 DEF HSyncEnd, Do, Place, Field
    <2>2. Sets(crtc, SetHSyncEnd(crtc, H(mode).stop), "hsync_end", Want(mode, "hsync_end"))
      BY <1>1, <1>3, <2>1, SetsHSyncEnd DEF Want, TimingNumbers
    <2>3. /\ Place("log_width") = Place("hsync_end") + 1
          /\ "log_width" \in Set80Only => set80
          /\ "log_width" \in MainOnly => ~set80
          /\ "log_width" \notin {"start", "set80_textmode"}
      BY <1>4, <2>1 DEF Place, Set80Only, MainOnly
    <2>4. Do("hsync_end", SetHSyncEnd(crtc, H(mode).stop), "log_width")
      BY <1>16 DEF HSyncEnd
    <2> QED
      BY <1>2, <2>1, <2>2, <2>3, <2>4
  <1>17. CASE LogWidth
    <2>1. pc = "log_width" /\ Place("log_width") > 0 /\ "log_width" \in Field \ {"other", "protection"}
      BY <1>17 DEF LogWidth, Do, Place, Field
    <2>2. <<19, "log_width">> \in OneField /\ H(mode).active \div 2 \in Int
      BY <1>1 DEF OneField, TimingNumbers
    <2>3. Sets(crtc, SetLogScreenWidth(crtc, H(mode).active), "log_width", Want(mode, "log_width"))
      BY <1>1, <1>3, <2>1, <2>2, SetsRegister DEF Want, SetLogScreenWidth
    <2>4. /\ Place("hblank_start") = Place("log_width") + 1
          /\ "hblank_start" \in Set80Only => set80
          /\ "hblank_start" \in MainOnly => ~set80
          /\ "hblank_start" \notin {"start", "set80_textmode"}
      BY <1>4, <2>1 DEF Place, Set80Only, MainOnly
    <2>5. Do("log_width", SetLogScreenWidth(crtc, H(mode).active), "hblank_start")
      BY <1>17 DEF LogWidth
    <2> QED
      BY <1>2, <2>1, <2>3, <2>4, <2>5
  <1>18. CASE HBlankStart
    <2>1. pc = "hblank_start" /\ Place("hblank_start") > 0 /\ "hblank_start" \in Field \ {"other", "protection"}
      BY <1>18 DEF HBlankStart, Do, Place, Field
    <2>2. <<2, "hblank_start">> \in OneField /\ HBlank(mode).start - 1 \in Int
      BY <1>1 DEF OneField, BlankNumbers
    <2>3. Sets(crtc, SetHBlankStart(crtc, HBlank(mode).start), "hblank_start", Want(mode, "hblank_start"))
      BY <1>1, <1>3, <2>1, <2>2, SetsRegister DEF Want, SetHBlankStart
    <2>4. /\ Place("hblank_end") = Place("hblank_start") + 1
          /\ "hblank_end" \in Set80Only => set80
          /\ "hblank_end" \in MainOnly => ~set80
          /\ "hblank_end" \notin {"start", "set80_textmode"}
      BY <1>4, <2>1 DEF Place, Set80Only, MainOnly
    <2>5. Do("hblank_start", SetHBlankStart(crtc, HBlank(mode).start), "hblank_end")
      BY <1>18 DEF HBlankStart
    <2> QED
      BY <1>2, <2>1, <2>3, <2>4, <2>5
  <1>19. CASE HBlankEnd
    <2>1. pc = "hblank_end" /\ Place("hblank_end") > 0 /\ "hblank_end" \in Field \ {"other", "protection"}
      BY <1>19 DEF HBlankEnd, Do, Place, Field
    <2>2. Sets(crtc, SetHBlankEnd(crtc, HBlank(mode).stop), "hblank_end", Want(mode, "hblank_end"))
      BY <1>1, <1>3, <2>1, SetsHBlankEnd DEF Want, BlankNumbers
    <2>3. /\ Place((IF set80 THEN "set80_cursor" ELSE "dscan")) = Place("hblank_end") + 1
          /\ (IF set80 THEN "set80_cursor" ELSE "dscan") \in Set80Only => set80
          /\ (IF set80 THEN "set80_cursor" ELSE "dscan") \in MainOnly => ~set80
          /\ (IF set80 THEN "set80_cursor" ELSE "dscan") \notin {"start", "set80_textmode"}
      BY <1>4, <2>1 DEF Place, Set80Only, MainOnly
    <2>4. Do("hblank_end", SetHBlankEnd(crtc, HBlank(mode).stop), (IF set80 THEN "set80_cursor" ELSE "dscan"))
      BY <1>19 DEF HBlankEnd
    <2> QED
      BY <1>2, <2>1, <2>2, <2>3, <2>4
  <1>20. CASE DoubleScan
    <2>1. pc = "dscan" /\ Place("dscan") > 0 /\ "dscan" \in Field \ {"other", "protection"}
      BY <1>20 DEF DoubleScan, Do, Place, Field
    <2>2. mode.dscan \in BOOLEAN
      BY <1>1 DEF ModeLine
    <2>3. Sets(crtc, SetDoubleScan(crtc, mode.dscan), "dscan", Want(mode, "dscan"))
      BY <1>1, <1>3, <2>1, <2>2, SetsDoubleScan DEF Want
    <2>4. /\ Place("cursor") = Place("dscan") + 1
          /\ "cursor" \in Set80Only => set80
          /\ "cursor" \in MainOnly => ~set80
          /\ "cursor" \notin {"start", "set80_textmode"}
      BY <1>4, <2>1 DEF Place, Set80Only, MainOnly
    <2>5. Do("dscan", SetDoubleScan(crtc, mode.dscan), "cursor")
      BY <1>20 DEF DoubleScan
    <2> QED
      BY <1>2, <2>1, <2>3, <2>4, <2>5
  <1>21. CASE CursorLines
    <2> DEFINE a == Scaled(Cursor.start)
               b == Scaled(Cursor.end)
    <2>1. pc = "cursor" /\ Place("cursor") > 0 /\ "cursor" \in Field \ {"other", "protection"}
      BY <1>21 DEF CursorLines, Do, Place, Field
    <2>2. a \in Int /\ b \in Int
      <3>1. \A i \in Nat : i * mode.fontHeight \in Int
        BY <1>1 DEF ModeLine
      <3> QED
        BY <3>1, CursorAssumption DEF Scaled
    <2>3. Want(mode, "cursor") = <<a % 32, b % 32>>
      BY DEF Want, Scaled, ScaledTo
    <2>4. crtc' = SetCursorEnd(SetCursorStart(crtc, a), b) /\ Do("cursor", crtc', "underline")
      BY <1>21 DEF CursorLines, Do
    <2> HIDE DEF a, b
    <2>5. Sets(crtc, crtc', "cursor", Want(mode, "cursor"))
      BY <1>1, <1>3, <2>1, <2>2, <2>3, <2>4, SetsCursor
    <2>6. /\ Place("underline") = Place("cursor") + 1 /\ ~set80
          /\ "underline" \notin Set80Only \cup {"start", "set80_textmode"}
      BY <1>4, <2>1 DEF Place, Set80Only, MainOnly
    <2> QED
      BY <1>2, <2>1, <2>4, <2>5, <2>6
  <1>22. CASE HorizShift
    <2>1. pc = "hshift" /\ Place("hshift") > 0 /\ "hshift" \in Field \ {"other", "protection"}
      BY <1>22 DEF HorizShift, Do, Place, Field
    <2>2. mode.hshift \in Int
      BY <1>1 DEF ModeLine
    <2>3. Sets(crtc, SetHorizShift(crtc, mode.hshift), "hshift", Want(mode, "hshift"))
      BY <1>1, <1>3, <2>1, <2>2, SetsHorizShift DEF Want
    <2>4. /\ Place("done") = Place("hshift") + 1
          /\ "done" \in Set80Only => set80
          /\ "done" \in MainOnly => ~set80
          /\ "done" \notin {"start", "set80_textmode"}
      BY <1>4, <2>1 DEF Place, Set80Only, MainOnly
    <2>5. Do("hshift", SetHorizShift(crtc, mode.hshift), "done")
      BY <1>22 DEF HorizShift
    <2> QED
      BY <1>2, <2>1, <2>3, <2>4, <2>5
  <1> QED
    BY <1>5, <1>6, <1>7, <1>8, <1>9, <1>10, <1>11, <1>12, <1>13, <1>14, <1>15, <1>16, <1>17, <1>18, <1>19, <1>20, <1>21, <1>22 DEF Setter

LEMMA InvInit == Init => Inv
  <1> SUFFICES ASSUME Init PROVE Inv
    OBVIOUS
  <1>1. TypeOK
    BY TypeInit
  <1>2. pc = "start" /\ set80 = FALSE
    BY DEF Init
  <1>3. Place("start") = 0
    BY DEF Place
  <1> QED
    BY <1>1, <1>2, <1>3 DEF Inv, OnPath, BiosMode, Unprotected, MadeShow, Made

\* The places of the calls.
LEMMA Places ==
  /\ \A s \in Steps : Place(s) \in 0..20
  /\ \A f \in Field, s \in Steps : Place(s) > 0 /\ s # "set80_cursor" /\ Place(f) = Place(s) => f = s
  /\ Place("start") = 0 /\ Place("textmode") = 0 /\ Place("unlock") = 0
  /\ Place("set80_unlock") = 0 /\ Place("set80_textmode") = 0
  /\ Place("max_scanline") = 1 /\ Place("cursor") = 17 /\ Place("underline") = 18
  /\ Place("hshift") = 19 /\ Place("set80_cursor") = 16 /\ Place("done") = 20
  /\ Place("protection") = 0 /\ Place("other") = 0
  <1>1. \A s \in Steps : Place(s) \in 0..20
    BY DEF Steps, Place
  <1>2. ASSUME NEW f \in Field, NEW s \in Steps, Place(s) > 0, s # "set80_cursor", Place(f) = Place(s)
        PROVE  f = s
    <2> DEFINE named == <<"max_scanline", "vert_double", "vert_total", "vdispl_end",
          "vretrace_start", "vretrace_end", "vblank_start", "vblank_end", "hor_total",
          "hor_displ_end", "hsync_start", "hsync_end", "log_width", "hblank_start",
          "hblank_end", "dscan", "cursor", "underline", "hshift", "done">>
    <2>1. s = named[Place(s)]
      BY <1>2 DEF Steps, Place
    <2>2. Place(f) > 0 => f = named[Place(f)]
      BY DEF Field, Place
    <2> QED
      BY <1>2, <2>1, <2>2
  <1>3. /\ Place("start") = 0 /\ Place("textmode") = 0 /\ Place("unlock") = 0
        /\ Place("set80_unlock") = 0 /\ Place("set80_textmode") = 0
        /\ Place("max_scanline") = 1 /\ Place("cursor") = 17 /\ Place("underline") = 18
        /\ Place("hshift") = 19 /\ Place("set80_cursor") = 16 /\ Place("done") = 20
        /\ Place("protection") = 0 /\ Place("other") = 0
    BY DEF Place
  <1> QED
    BY <1>1, <1>2, <1>3

\* A setter adds its field to those that show what they should.
LEMMA SetterStep == Inv /\ Setter => Inv'
  <1> SUFFICES ASSUME Inv, Setter PROVE Inv'
    OBVIOUS
  <1>1. TypeOK /\ OnPath /\ pc \in Steps
    BY DEF Inv, TypeOK
  <1>2. TypeOK'
    BY <1>1, TypeStep DEF Setter, Next
  <1>3. pc # "done"
    BY DEF Setter, MaxScanline, VertDoubleBit, VertTotal, VDisplEnd, VRetraceStart,
           VRetraceEnd, VBlankStart, VBlankEnd, HorTotal, HorDisplEnd,
           HSyncStart, HSyncEnd, LogWidth, HBlankStart, HBlankEnd,
           DoubleScan, CursorLines, HorizShift, Do
  <1>4. Unprotected /\ MadeShow
    BY <1>3 DEF Inv, BiosMode
  <1>5. /\ pc \in Field \ {"other", "protection"} /\ Place(pc) > 0
        /\ Sets(crtc, crtc', pc, Want(mode, pc))
        /\ Onward /\ Frame
    BY <1>1, <1>4, SetterSets
  <1>6. pc' \in Steps /\ Place(pc') = Place(pc) + 1
    BY <1>2, <1>5 DEF TypeOK, Onward
  <1>7. ~(set80 /\ force)
    BY <1>1, <1>3, <1>5, Places DEF OnPath
  <1>8. OnPath' /\ ~BiosMode'
    <2>1. pc # "start"
      BY <1>5, Places
    <2>2. Accepted(mode)' /\ (set80 => mode = Set80Line)'
      BY <1>1, <1>5, <2>1 DEF OnPath, Frame
    <2> QED
      BY <1>5, <1>7, <2>2 DEF OnPath, BiosMode, Frame, Onward
  <1>9. Unprotected'
    <2>1. Bit(crtc[17], 128) = 0
      BY <1>4, <1>5 DEF Unprotected
    <2>2. "protection" \in Field \ {pc}
      BY <1>5 DEF Field
    <2>3. Show(crtc', "protection") = Show(crtc, "protection")
      BY <1>5, <2>2 DEF Sets
    <2> QED
      BY <2>1, <2>3 DEF Show, Unprotected
  <1>10. MadeShow'
    <2> SUFFICES ASSUME NEW f \in Field, Made(f)' PROVE Show(crtc', f) = Want(mode', f)
      BY DEF MadeShow
    <2>1. mode' = mode /\ set80' = set80
      BY <1>5 DEF Frame
    <2>2. CASE f = pc
      BY <1>5, <2>1, <2>2 DEF Sets
    <2>3. CASE f # pc
      <3>1. pc # "set80_cursor"
        BY <1>5 DEF Field
      <3>2. Place(f) # Place(pc)
        BY <1>1, <1>5, <2>3, <3>1, Places
      <3>3. Made(f)
        BY <1>1, <1>6, <2>1, <3>2, Places DEF Made
      <3> QED
        BY <1>4, <1>5, <2>1, <2>3, <3>3 DEF MadeShow, Sets
    <2> QED
      BY <2>2, <2>3
  <1> QED
    BY <1>2, <1>8, <1>9, <1>10 DEF Inv

LEMMA InvStep == Inv /\ [Next]_vars => Inv'
  <1> SUFFICES ASSUME Inv, [Next]_vars PROVE Inv'
    OBVIOUS
  <1>1. TypeOK' /\ TypeOK /\ crtc \in Regs
    BY TypeStep DEF Inv, TypeOK, Regs
  <1> USE DEF Inv
  <1>2. CASE Setter
    BY <1>2, SetterStep
  <1>3. CASE Start
    <2>1. Accepted(mode')
      BY <1>3 DEF Start
    <2>2. pc' = "textmode" /\ set80' = FALSE
      BY <1>3 DEF Start
    <2> QED
      BY <1>1, <2>1, <2>2, Places
      DEF OnPath, BiosMode, Unprotected, MadeShow, Made, Set80Only
  <1>4. CASE StartSet80
    <2>1. mode' = Set80Line /\ pc' = "set80_unlock" /\ set80' = TRUE
      BY <1>4 DEF StartSet80
    <2>2. Accepted(Set80Line)
      BY DEF Set80Line, Accepted, Rows, Cols, MaxChars
    <2> QED
      BY <1>1, <2>1, <2>2, Places
      DEF OnPath, BiosMode, Unprotected, MadeShow, Made, MainOnly
  <1>5. CASE SetTextmode
    <2>1. pc = "textmode" /\ pc' = "unlock" /\ UNCHANGED <<mode, set80, force>>
      BY <1>5 DEF SetTextmode, Do
    <2> QED
      BY <1>1, <2>1, Places
      DEF OnPath, BiosMode, Unprotected, MadeShow, Made, MainOnly, Set80Only
  <1>6. CASE Unlock
    <2>1. /\ pc = "unlock" /\ pc' = "max_scanline" /\ UNCHANGED <<mode, set80, force>>
          /\ crtc' = OutBit(crtc, 17, 128, 0)
      BY <1>6 DEF Unlock, Do
    <2>2. Bit(crtc'[17], 128) = 0
      BY <1>1, <2>1, SetsProtection, ZenonT(60) DEF Sets, Show
    <2> QED
      BY <1>1, <2>1, <2>2, Places
      DEF OnPath, BiosMode, Unprotected, MadeShow, Made, MainOnly, Set80Only
  <1>7. CASE Set80Unlock
    <2>1. /\ pc = "set80_unlock" /\ pc' = "set80_textmode" /\ UNCHANGED <<mode, set80, force>>
          /\ crtc' = OutBit(crtc, 17, 128, 0)
      BY <1>7 DEF Set80Unlock, Do
    <2>2. Bit(crtc'[17], 128) = 0
      BY <1>1, <2>1, SetsProtection, ZenonT(60) DEF Sets, Show
    <2> QED
      BY <1>1, <2>1, <2>2, Places
      DEF OnPath, BiosMode, Unprotected, MadeShow, Made, MainOnly, Set80Only
  <1>8. CASE Set80Textmode
    <2>1. /\ pc = "set80_textmode" /\ UNCHANGED <<mode, set80, force>>
          /\ pc' = (IF force THEN "done" ELSE "max_scanline")
          /\ crtc' = (IF force THEN ForceAll(crtc) ELSE crtc)
      BY <1>8 DEF Set80Textmode, Do
    <2>2. set80 /\ Bit(crtc[17], 128) = 0
      BY <1>1, <2>1 DEF OnPath, Set80Only, BiosMode, Unprotected, TypeOK
    <2>3. ASSUME force PROVE \A r \in Reg : crtc'[r] = TextCrtc[r + 1]
      <3> TAKE r \in Reg
      <3>1. TextCrtc[r + 1] \in Int /\ TextCrtc[r + 1] % 256 = TextCrtc[r + 1]
        BY DEF TextCrtc, Reg
      <3>2. Out(crtc, r, TextCrtc[r + 1])[r] = TextCrtc[r + 1]
        BY <1>1, <2>2, <3>1, OutFree DEF Free, Puts
      <3> QED
        BY <2>1, <2>3, <3>2 DEF ForceAll
    <2>4. CASE force
      <3>1. BiosText'
        BY <2>3, <2>4 DEF BiosText, Reg, TextCrtc
      <3> QED
        BY <1>1, <2>1, <2>2, <2>4, <3>1 DEF OnPath, BiosMode, MainOnly, Set80Only
    <2>5. CASE ~force
      BY <1>1, <2>1, <2>2, <2>5, Places
      DEF OnPath, BiosMode, Unprotected, MadeShow, Made, MainOnly, Set80Only
    <2> QED
      BY <2>4, <2>5
  <1>9. CASE Set80Cursor
    <2>1. /\ pc = "set80_cursor" /\ pc' = "done" /\ UNCHANGED <<mode, set80, force>>
          /\ crtc' = SetCursorEnd(SetCursorStart(crtc, 14), 15)
      BY <1>9 DEF Set80Cursor, Do
    <2>2. /\ OnPath /\ set80 /\ ~force /\ Unprotected /\ MadeShow
          /\ Bit(crtc[17], 128) = 0
      BY <1>1, <2>1, Places DEF OnPath, Set80Only, BiosMode, Unprotected, TypeOK
    <2>3. Sets(crtc, crtc', "cursor", <<14 % 32, 15 % 32>>)
      BY <1>1, <2>1, <2>2, SetsCursor
    <2>4. ASSUME NEW f \in Field, Made(f)' PROVE Show(crtc', f) = Want(mode', f)
      <3>1. Made(f) /\ f # "cursor"
        BY <1>1, <2>1, <2>2, <2>4, Places DEF Made
      <3> QED
        BY <2>1, <2>2, <2>3, <3>1 DEF MadeShow, Sets
    <2>5. "protection" \in Field \ {"cursor"}
      BY DEF Field
    <2>6. Unprotected'
      BY <2>2, <2>3, <2>5 DEF Sets, Show, Unprotected
    <2> QED
      BY <1>1, <2>1, <2>2, <2>4, <2>6 DEF OnPath, BiosMode, MadeShow, MainOnly, Set80Only
  <1>10. CASE Underline
    <2>1. /\ pc = "underline" /\ pc' = "hshift" /\ UNCHANGED <<mode, set80, force>>
          /\ crtc' = IF UnderlineAt >= 0 THEN Out(crtc, 20, Scaled(UnderlineAt)) ELSE crtc
      BY <1>10 DEF Underline, Do
    <2>2. Scaled(UnderlineAt) \in Int
      <3>1. mode.fontHeight \in Int /\ UnderlineAt \in Int
        BY <1>1, ModesAssumption, UnderlineAssumption, Set80IsModeLine DEF TypeOK, ModeLine
      <3>2. UnderlineAt * mode.fontHeight \in Int
        BY <3>1
      <3> QED
        BY <3>2 DEF Scaled
    <2>3. \A f \in Field : Show(crtc', f) = Show(crtc, f)
      BY <1>1, <2>1, <2>2, UnderlineApart
    <2>4. OnPath /\ ~set80 /\ Unprotected /\ MadeShow /\ Bit(crtc[17], 128) = 0
      BY <1>1, <2>1, Places DEF OnPath, MainOnly, BiosMode, Unprotected
    <2>5. ASSUME NEW f \in Field, Made(f)' PROVE Show(crtc', f) = Want(mode', f)
      <3>1. f # "underline" /\ Place(f) # 18
        BY Places DEF Field, Steps
      <3>2. Made(f)
        BY <1>1, <2>1, <2>5, <3>1, Places DEF Made
      <3> QED
        BY <2>1, <2>3, <2>4, <3>2 DEF MadeShow
    <2>6. Unprotected'
      <3>1. "protection" \in Field
        BY DEF Field
      <3> QED
        BY <2>3, <2>4, <3>1 DEF Show, Unprotected
    <2> QED
      BY <1>1, <2>1, <2>4, <2>5, <2>6 DEF OnPath, BiosMode, MadeShow, MainOnly, Set80Only
  <1>11. CASE End
    <2>1. pc' = "start"
      BY <1>11 DEF End
    <2> QED
      BY <1>1, <2>1, Places DEF OnPath, BiosMode, Unprotected, MadeShow, Made
  <1>12. CASE UNCHANGED vars
    BY <1>1, <1>12
    DEF vars, TypeOK, OnPath, BiosMode, BiosText, Unprotected, MadeShow, Made
  <1> QED
    BY <1>2, <1>3, <1>4, <1>5, <1>6, <1>7, <1>8, <1>9, <1>10, <1>11, <1>12 DEF Next, Setter

\* Every call but Set_Textmode keeps the bits no timing lives in.
LEMMA OtherBitsStep ==
  ASSUME Inv, Next, pc \notin {"textmode", "set80_textmode"}
  PROVE  OtherBits(crtc') = OtherBits(crtc)
  <1>1. TypeOK /\ OnPath /\ crtc \in Regs
    BY DEF Inv, TypeOK, Regs
  <1>2. ASSUME NEW x \in Field \ {"other"}, NEW d, NEW v, Sets(crtc, d, x, v)
        PROVE  OtherBits(d) = OtherBits(crtc)
    <2>1. "other" \in Field \ {x}
      BY DEF Field
    <2>2. Show(d, "other") = Show(crtc, "other")
      BY <1>2, <2>1 DEF Sets
    <2> QED
      BY <2>2 DEF Show
  <1>3. CASE Setter
    <2>1. pc # "done"
      BY <1>3 DEF Setter, MaxScanline, VertDoubleBit, VertTotal, VDisplEnd, VRetraceStart,
             VRetraceEnd, VBlankStart, VBlankEnd, HorTotal, HorDisplEnd,
             HSyncStart, HSyncEnd, LogWidth, HBlankStart, HBlankEnd,
             DoubleScan, CursorLines, HorizShift, Do
    <2>2. Unprotected
      BY <2>1 DEF Inv, BiosMode
    <2> QED
      BY <1>1, <1>2, <1>3, <2>2, SetterSets
  <1>4. CASE Unlock \/ Set80Unlock
    <2>1. crtc' = OutBit(crtc, 17, 128, 0)
      BY <1>4 DEF Unlock, Set80Unlock, Do
    <2>2. "protection" \in Field \ {"other"}
      BY DEF Field
    <2> QED
      BY <1>1, <1>2, <2>1, <2>2, SetsProtection
  <1>5. CASE Set80Cursor
    <2>1. pc = "set80_cursor" /\ crtc' = SetCursorEnd(SetCursorStart(crtc, 14), 15)
      BY <1>5 DEF Set80Cursor, Do
    <2>2. Bit(crtc[17], 128) = 0
      BY <2>1, Places DEF Inv, BiosMode, Unprotected
    <2>3. "cursor" \in Field \ {"other"}
      BY DEF Field
    <2> QED
      <3>1. Sets(crtc, crtc', "cursor", <<14 % 32, 15 % 32>>)
        BY <1>1, <2>1, <2>2, SetsCursor
      <3> QED
        BY <1>2, <2>3, <3>1
  <1>6. CASE Underline
    <2>1. crtc' = IF UnderlineAt >= 0 THEN Out(crtc, 20, Scaled(UnderlineAt)) ELSE crtc
      BY <1>6 DEF Underline, Do
    <2>2. Scaled(UnderlineAt) \in Int
      <3>1. mode.fontHeight \in Int /\ UnderlineAt \in Int
        BY <1>1, ModesAssumption, UnderlineAssumption, Set80IsModeLine DEF TypeOK, ModeLine
      <3>2. UnderlineAt * mode.fontHeight \in Int
        BY <3>1
      <3> QED
        BY <3>2 DEF Scaled
    <2>3. "other" \in Field
      BY DEF Field
    <2>4. Show(crtc', "other") = Show(crtc, "other")
      BY <1>1, <2>1, <2>2, <2>3, UnderlineApart
    <2> QED
      BY <2>4 DEF Show
  <1>7. CASE SetTextmode \/ Set80Textmode
    BY <1>7 DEF SetTextmode, Set80Textmode, Do
  <1>8. CASE Start \/ StartSet80 \/ End
    BY <1>8 DEF Start, StartSet80, End
  <1> QED
    BY <1>3, <1>4, <1>5, <1>6, <1>7, <1>8 DEF Next, Setter

LEMMA Always == Spec => []Inv
  BY InvInit, InvStep, PTL DEF Spec

\* No setter of src/vga_prg.h touches a bit outside its own field, whatever
\* number it is given and whatever the registers held.
THEOREM OtherBitsAreKept == Spec => OtherBitsKept
  <1> DEFINE Keeps == pc \notin {"textmode", "set80_textmode"} => OtherBits(crtc') = OtherBits(crtc)
  <1>1. Inv /\ [Next]_vars => [Keeps]_vars
    BY OtherBitsStep
  <1>2. Spec => [][Keeps]_vars
    BY <1>1, Always, PTL DEF Spec
  <1> QED
    BY <1>2 DEF OtherBitsKept
-----------------------------------------------------------------------------
(* The arithmetic of the timings.                                          *)

\* Active, sync and total in their order.
InOrder(t) == /\ t.active \in Int /\ t.start \in Int /\ t.stop \in Int /\ t.total \in Int
              /\ t.active <= t.start /\ t.start <= t.stop /\ t.stop <= t.total

LEMMA TenBitsBack ==
  ASSUME NEW n \in Int, 0 <= n, n <= 1023
  PROVE  (n % 256) + 256 * Bit(n, 256) + 512 * Bit(n, 512) = n
  BY DEF Bit

\* An end is read back if it is less than a full turn of its bits after the start.
LEMMA EndCalcBack ==
  ASSUME NEW k \in {16, 32}, NEW start \in Nat, NEW stop \in Nat, start < stop, stop < start + k
  PROVE  EndCalc(start, stop % k, k) = stop
  <1>1. CASE k = 16
    BY <1>1, SMTT(30) DEF EndCalc
  <1>2. CASE k = 32
    BY <1>2, SMTT(30) DEF EndCalc
  <1> QED
    BY <1>1, <1>2

LEMMA Characters ==
  ASSUME NEW a \in Int, a >= 16, a <= 2048
  PROVE  /\ a \div 8 \in Int /\ a \div 8 >= 2 /\ a \div 8 <= 256
         /\ a \div 16 \in Int /\ a \div 16 >= 1 /\ a \div 16 <= 128
         /\ 2 * (a \div 16) <= a \div 8
  OBVIOUS

LEMMA CharactersInOrder == ASSUME NEW a \in Int, NEW b \in Int, a <= b PROVE a \div 8 <= b \div 8
  OBVIOUS

LEMMA HorizontalBounds ==
  ASSUME NEW m \in ModeLine, Accepted(m)
  PROVE  /\ InOrder(H(m)) /\ H(m).active >= 2 /\ H(m).total <= 256
         /\ H(m).active = Cols(m) /\ H(m).active = 2 * (H(m).active \div 2)
  <1> DEFINE hds == m.hds
             hss == m.hss
             hse == m.hse
             hde == m.hde
  <1>1. hds \in Int /\ hss \in Int /\ hse \in Int /\ hde \in Int
    BY DEF ModeLine
  <1>2. hds >= 16 /\ hds <= hss
    <2>1. hds \in 16..2048 /\ hss \in hds..2048
      BY DEF Accepted
    <2> HIDE DEF hds, hss
    <2> QED
      BY <1>1, <2>1
  <1>3. hss <= hse
    BY <1>1 DEF Accepted
  <1>4. hse <= hde /\ hde <= 2048
    <2>1. hde \in hse..2048
      BY DEF Accepted
    <2> HIDE DEF hse, hde
    <2> QED
      BY <1>1, <2>1
  <1>5. H(m) = [active |-> 2 * (hds \div 16), start |-> hss \div 8,
                stop |-> hse \div 8, total |-> hde \div 8]
    BY DEF H, Cols
  <1> HIDE DEF hds, hss, hse, hde
  <1>6. /\ hds <= 2048 /\ hss >= 16 /\ hss <= 2048 /\ hse >= 16 /\ hse <= 2048 /\ hde >= 16
    BY <1>1, <1>2, <1>3, <1>4
  <1> DEFINE a == hds \div 16
             b == hds \div 8
             s == hss \div 8
             e == hse \div 8
             t == hde \div 8
  <1>7. a \in Int /\ a >= 1 /\ a <= 128 /\ 2 * a <= b
    BY <1>1, <1>2, <1>6, Characters
  <1>8. /\ b \in Int /\ s \in Int /\ e \in Int /\ t \in Int
        /\ b >= 2 /\ s >= 2 /\ e >= 2 /\ t >= 2 /\ b <= 256 /\ s <= 256 /\ e <= 256 /\ t <= 256
    BY <1>1, <1>2, <1>3, <1>4, <1>6, Characters
  <1>9. b <= s /\ s <= e /\ e <= t
    BY <1>1, <1>2, <1>3, <1>4, CharactersInOrder
  <1>10. H(m).active = 2 * a /\ H(m).start = s /\ H(m).stop = e /\ H(m).total = t
    BY <1>5
  <1>11. H(m).active = Cols(m)
    BY DEF H
  <1> HIDE DEF a, b, s, e, t
  <1> QED
    BY <1>7, <1>8, <1>9, <1>10, <1>11 DEF InOrder

LEMMA Quotient ==
  ASSUME NEW v \in Int, NEW h \in Nat, h # 0
  PROVE  h * (v \div h) <= v
  BY SMTT(30)

\* Whole rows of text take no more lines than there are.
LEMMA WholeRows ==
  ASSUME NEW v \in 16..1023, NEW h \in 1..32
  PROVE  /\ v \div h \in Nat /\ h * (v \div h) \in 0..v
         /\ v \div h > 0 => h * (v \div h) > 0
  <1> DEFINE q == v \div h
  <1>1. q \in Nat
    BY SMT
  <1>2. h * q <= v
    BY Quotient
  <1> HIDE DEF q
  <1>3. h * q \in Nat /\ (q > 0 => h * q > 0)
    BY <1>1
  <1> QED
    BY <1>1, <1>2, <1>3 DEF q

LEMMA VerticalBounds ==
  ASSUME NEW m \in ModeLine, Accepted(m)
  PROVE  /\ InOrder(V(m)) /\ V(m).active >= 0 /\ V(m).start >= 16
         /\ V(m).start < V(m).stop /\ V(m).total <= 1023
         /\ Rows(m) > 0 => V(m).active > 0
         /\ (IF VertDouble(m) THEN 2 ELSE 1) * V(m).active
              = Rows(m) * m.fontHeight * (IF m.dscan THEN 2 ELSE 1)
  <1> DEFINE vds == m.vds
             vss == m.vss
             vse == m.vse
             vde == m.vde
             font == m.fontHeight
             rows == Rows(m)
             p == font * rows
             scans == IF m.dscan THEN 2 ELSE 1
  <1>1. /\ vds \in Int /\ vss \in Int /\ vse \in Int /\ vde \in Int
        /\ font \in 1..32 /\ m.dscan \in BOOLEAN
    BY DEF ModeLine
  <1>2. vds \in 16..1023 /\ vds <= vss
    <2>1. vds \in 16..1023 /\ vss \in vds..1023
      BY DEF Accepted
    <2> HIDE DEF vds, vss
    <2> QED
      BY <1>1, <2>1
  <1>3. vss < vse
    <2>1. vse \in (vss + 1)..(vss + 16)
      BY DEF Accepted
    <2> HIDE DEF vss, vse
    <2> QED
      BY <1>1, <2>1
  <1>4. vse <= vde /\ vde <= 1023
    <2>1. vde \in vse..1023
      BY DEF Accepted
    <2> HIDE DEF vse, vde
    <2> QED
      BY <1>1, <2>1
  <1>5. p \in Int /\ 0 <= p /\ p <= vds /\ rows \in Nat /\ (rows > 0 => p > 0)
    <2>1. rows = vds \div font
      BY DEF Rows
    <2> HIDE DEF vds, font, rows
    <2>2. /\ vds \div font \in Nat /\ font * (vds \div font) \in 0..vds
          /\ vds \div font > 0 => font * (vds \div font) > 0
      BY <1>1, <1>2, WholeRows, ZenonT(60)
    <2>3. vds \in Int /\ font \in Int
      BY <1>1
    <2> QED
      BY <2>1, <2>2, <2>3
  <1>6. Struct(m) = [active |-> p * scans, start |-> vss * scans,
                     stop |-> vse * scans, total |-> vde * scans]
    BY DEF Struct
  <1>7. rows * font = p
    <2> HIDE DEF rows, font
    <2> QED
      BY <1>1, <1>5
  <1> HIDE DEF vds, vss, vse, vde, font, rows, p
  <1>8. CASE ~VertDouble(m)
    <2>1. /\ V(m).active = p * scans /\ V(m).start = vss * scans
          /\ V(m).stop = vse * scans /\ V(m).total = vde * scans
      BY <1>6, <1>8 DEF V
    <2>2. vde * scans <= 1023
      BY <1>1, <1>6, <1>8 DEF VertDouble
    <2>3. p * scans = rows * font * scans
      BY <1>7
    <2>4. scans \in {1, 2}
      OBVIOUS
    <2> HIDE DEF scans
    <2>5. /\ p * scans \in Int /\ vss * scans \in Int /\ vse * scans \in Int /\ vde * scans \in Int
          /\ 0 <= p * scans /\ p * scans <= vss * scans /\ vss * scans >= 16
          /\ vss * scans < vse * scans /\ vse * scans <= vde * scans
          /\ rows > 0 => p * scans > 0
      BY <1>1, <1>2, <1>3, <1>4, <1>5, <2>4
    <2>6. /\ InOrder(V(m)) /\ V(m).active >= 0 /\ V(m).start >= 16
          /\ V(m).start < V(m).stop /\ V(m).total <= 1023
          /\ rows > 0 => V(m).active > 0
      <3> DEFINE a == p * scans
                 b == vss * scans
                 e == vse * scans
                 t == vde * scans
      <3>1. V(m).active = a /\ V(m).start = b /\ V(m).stop = e /\ V(m).total = t
        BY <2>1
      <3>2. /\ a \in Int /\ b \in Int /\ e \in Int /\ t \in Int
            /\ 0 <= a /\ a <= b /\ b >= 16 /\ b < e /\ e <= t /\ t <= 1023
            /\ rows > 0 => a > 0
        BY <2>2, <2>5
      <3> HIDE DEF a, b, e, t
      <3> QED
        BY <3>1, <3>2 DEF InOrder
    <2> QED
      BY <1>8, <2>1, <2>3, <2>5, <2>6 DEF rows, font, scans
  <1>9. CASE VertDouble(m)
    <2>1. scans = 2 /\ m.dscan
      BY <1>1, <1>4, <1>6, <1>9 DEF VertDouble
    <2>2. /\ V(m).active = (p * 2) \div 2 /\ V(m).start = (vss * 2) \div 2
          /\ V(m).stop = (vse * 2 + 1) \div 2 /\ V(m).total = (vde * 2 + 1) \div 2
      BY <1>6, <1>9, <2>1 DEF V
    <2>3. /\ V(m).active = p /\ V(m).start = vss /\ V(m).stop = vse /\ V(m).total = vde
      BY <1>1, <1>5, <2>2
    <2>4. 2 * p = rows * font * 2
      BY <1>5, <1>7
    <2>5. /\ InOrder(V(m)) /\ V(m).active >= 0 /\ V(m).start >= 16
          /\ V(m).start < V(m).stop /\ V(m).total <= 1023
          /\ rows > 0 => V(m).active > 0
      BY <1>1, <1>2, <1>3, <1>4, <1>5, <2>3 DEF InOrder
    <2> QED
      BY <1>9, <2>1, <2>3, <2>4, <2>5 DEF rows, font
  <1> QED
    BY <1>8, <1>9

\* The blanking is where it was asked for, whatever the timings are.
Blanks(b, t, border, limit) ==
  /\ b.start \in Int /\ b.stop \in Int
  /\ b.start >= t.active /\ b.start <= MinOf(t.start, t.active + border)
  /\ b.start <= t.start
  /\ b.stop >= b.start /\ b.stop <= b.start + limit /\ b.stop <= t.total
  /\ b.stop = b.start + limit \/ b.stop >= t.stop

LEMMA BlankBounds ==
  ASSUME NEW t, InOrder(t), NEW border \in Nat, NEW limit \in Nat
  PROVE  Blanks(Blank(t, border, limit), t, border, limit)
  <1> DEFINE active == t.active
             start == t.start
             stop == t.stop
             total == t.total
             from == MinOf(start, active + border)
             to == MaxOf(stop, total - border)
             end == MinOf(to, from + limit)
  <1>1. /\ active \in Int /\ start \in Int /\ stop \in Int /\ total \in Int
        /\ active <= start /\ start <= stop /\ stop <= total
    BY DEF InOrder
  <1>2. Blank(t, border, limit) = [start |-> from, stop |-> end]
    BY DEF Blank
  <1>3. from = MinOf(t.start, t.active + border) /\ t.start = start /\ t.active = active
        /\ t.stop = stop /\ t.total = total
    OBVIOUS
  <1> HIDE DEF active, start, stop, total
  <1>4. from \in Int /\ from >= active /\ from <= start
    BY <1>1 DEF MinOf
  <1>5. to \in Int /\ to >= stop /\ to <= total
    BY <1>1 DEF MaxOf
  <1> HIDE DEF from, to
  <1>6. end \in Int /\ end >= from /\ end <= from + limit /\ end <= total
        /\ (end = from + limit \/ end >= stop)
    BY <1>1, <1>4, <1>5 DEF MinOf
  <1> HIDE DEF end
  <1> QED
    BY <1>2, <1>3, <1>4, <1>6 DEF Blanks

-----------------------------------------------------------------------------
(* At the end of a run.                                                    *)

LEMMA AtTheEnd ==
  ASSUME Inv, pc = "done", ~BiosMode
  PROVE  /\ \A f \in Field : Place(f) \in 1..15 => Show(crtc, f) = Want(mode, f)
         /\ ~set80 => \A f \in {"dscan", "cursor", "hshift"} : Show(crtc, f) = Want(mode, f)
  <1>1. MadeShow /\ TypeOK
    BY DEF Inv
  <1>2. \A f \in Field : Place(f) \in 1..15 => Made(f)
    BY Places DEF Made
  <1>3. ~set80 => \A f \in {"dscan", "cursor", "hshift"} : Made(f) /\ f \in Field
    <2>1. Place("dscan") = 16 /\ Place("cursor") = 17 /\ Place("hshift") = 19 /\ Place("done") = 20
      BY DEF Place
    <2> QED
      BY <2>1 DEF Made, Field
  <1> QED
    BY <1>1, <1>2, <1>3 DEF MadeShow

\* The getters on the vertical registers.
LEMMA VerticalRead ==
  ASSUME Inv, pc = "done", ~BiosMode, Rows(mode) > 0
  PROVE  /\ GetVertTotal(crtc) = V(mode).total
         /\ GetVertDisplEnd(crtc) = V(mode).active
         /\ GetVRetraceStart(crtc) = V(mode).start
         /\ V(mode).stop < V(mode).start + 16 => GetVRetraceEnd(crtc) = V(mode).stop
         /\ GetVBlankStart(crtc) = VBlank(mode).start
         /\ crtc[22] = VBlank(mode).stop % 256 /\ crtc[21] = VBlank(mode).start % 256
         /\ GetMaxScanline(crtc) = mode.fontHeight
         /\ Bit(crtc[23], 4) = IF VertDouble(mode) THEN 1 ELSE 0
  <1>1. mode \in ModeLine /\ Accepted(mode)
    BY ModesAssumption, Set80IsModeLine DEF Inv, TypeOK, OnPath
  <1> DEFINE total == V(mode).total
             active == V(mode).active
             start == V(mode).start
             stop == V(mode).stop
             blank == VBlank(mode).start
             bounded == /\ active \in Int /\ start \in Int /\ stop \in Int /\ total \in Int
                        /\ active <= start /\ start <= stop /\ stop <= total
                        /\ active > 0 /\ start >= 16 /\ start < stop /\ total <= 1023
                        /\ blank \in Int /\ 0 <= blank /\ blank <= start
  <1>2. bounded
    <2>1. InOrder(V(mode)) /\ V(mode).active > 0 /\ V(mode).start >= 16
          /\ V(mode).start < V(mode).stop /\ V(mode).total <= 1023
      BY <1>1, VerticalBounds
    <2>2. Blanks(VBlank(mode), V(mode), 8, 127)
      BY <2>1, BlankBounds DEF VBlank
    <2> QED
      BY <2>1, <2>2 DEF InOrder, Blanks
  <1>3. \A f \in {"max_scanline", "vert_double", "vert_total", "vdispl_end", "vretrace_start",
                  "vretrace_end", "vblank_start", "vblank_end"} : Show(crtc, f) = Want(mode, f)
    BY AtTheEnd DEF Place, Field
  <1>4. /\ crtc[6] = (total - 2) % 256
        /\ Bit(crtc[7], 1) = Bit(total - 2, 256) /\ Bit(crtc[7], 32) = Bit(total - 2, 512)
    BY <1>3 DEF Show, Want, TenBits
  <1>5. /\ crtc[18] = (active - 1) % 256
        /\ Bit(crtc[7], 2) = Bit(active - 1, 256) /\ Bit(crtc[7], 64) = Bit(active - 1, 512)
    BY <1>3 DEF Show, Want, TenBits
  <1>6. /\ crtc[16] = start % 256
        /\ Bit(crtc[7], 4) = Bit(start, 256) /\ Bit(crtc[7], 128) = Bit(start, 512)
    BY <1>3 DEF Show, Want, TenBits
  <1>7. crtc[17] % 16 = stop % 16 /\ crtc[22] = VBlank(mode).stop % 256
    BY <1>3 DEF Show, Want
  <1>8. /\ crtc[21] = blank % 256
        /\ Bit(crtc[7], 8) = Bit(blank, 256) /\ Bit(crtc[9], 32) = Bit(blank, 512)
    BY <1>3 DEF Show, Want, TenBits
  <1>9. crtc[9] % 32 = (mode.fontHeight - 1) % 32 /\ Bit(crtc[23], 4) = IF VertDouble(mode) THEN 1 ELSE 0
    BY <1>3 DEF Show, Want
  <1> HIDE DEF total, active, start, stop, blank
  <1>10. GetVertTotal(crtc) = total
    BY <1>2, <1>4, TenBitsBack DEF GetVertTotal
  <1>11. GetVertDisplEnd(crtc) = active
    BY <1>2, <1>5, TenBitsBack DEF GetVertDisplEnd
  <1>12. GetVRetraceStart(crtc) = start
    BY <1>2, <1>6, TenBitsBack DEF GetVRetraceStart
  <1>13. stop < start + 16 => GetVRetraceEnd(crtc) = stop
    BY <1>2, <1>7, <1>12, EndCalcBack DEF GetVRetraceEnd
  <1>14. GetVBlankStart(crtc) = blank
    BY <1>2, <1>8, TenBitsBack DEF GetVBlankStart
  <1>15. GetMaxScanline(crtc) = mode.fontHeight
    BY <1>1, <1>9 DEF GetMaxScanline, ModeLine
  <1> QED
    BY <1>7, <1>8, <1>9, <1>10, <1>11, <1>12, <1>13, <1>14, <1>15
    DEF total, active, start, stop, blank

LEMMA HorizontalRead ==
  ASSUME Inv, pc = "done", ~BiosMode
  PROVE  /\ H(mode).total >= 5 => GetHorTotal(crtc) = H(mode).total
         /\ GetHorDisplEnd(crtc) = H(mode).active
         /\ GetHSyncStart(crtc) = H(mode).start % 256
         /\ H(mode).start < H(mode).stop /\ H(mode).stop < H(mode).start + 32 =>
              GetHSyncEnd(crtc) - GetHSyncStart(crtc) = H(mode).stop - H(mode).start
         /\ GetLogScreenWidth(crtc) = H(mode).active
         /\ GetHBlankStart(crtc) = HBlank(mode).start
         /\ ((crtc[3] % 32) + 32 * Bit(crtc[5], 128) - crtc[2]) % 64
              = HBlank(mode).stop - HBlank(mode).start
  <1>1. mode \in ModeLine /\ Accepted(mode)
    BY ModesAssumption, Set80IsModeLine DEF Inv, TypeOK, OnPath
  <1> DEFINE total == H(mode).total
             active == H(mode).active
             start == H(mode).start
             stop == H(mode).stop
             from == HBlank(mode).start
             to == HBlank(mode).stop
  <1>2. /\ active \in Int /\ start \in Int /\ stop \in Int /\ total \in Int
        /\ active <= start /\ start <= stop /\ stop <= total
        /\ active >= 2 /\ total <= 256 /\ active = 2 * (active \div 2)
    BY <1>1, HorizontalBounds DEF InOrder
  <1>3. from \in Int /\ to \in Int /\ active <= from /\ from <= to /\ to <= from + 63 /\ to <= total
    <2>1. Blanks(HBlank(mode), H(mode), 1, 63)
      BY <1>1, HorizontalBounds, BlankBounds DEF HBlank
    <2> QED
      BY <2>1 DEF Blanks
  <1>4. \A f \in {"hor_total", "hor_displ_end", "hsync_start", "hsync_end", "log_width",
                  "hblank_start", "hblank_end"} : Show(crtc, f) = Want(mode, f)
    BY AtTheEnd DEF Place, Field
  <1>5. /\ crtc[0] = (total - 5) % 256 /\ crtc[1] = (active - 1) % 256 /\ crtc[4] = start % 256
        /\ crtc[5] % 32 = stop % 32 /\ crtc[19] = (active \div 2) % 256 /\ crtc[2] = (from - 1) % 256
        /\ crtc[3] % 32 = (to - 1) % 32 /\ Bit(crtc[5], 128) = Bit(to - 1, 32)
    BY <1>4 DEF Show, Want
  <1> HIDE DEF total, active, start, stop, from, to
  <1>6. total >= 5 => GetHorTotal(crtc) = total
    BY <1>2, <1>5 DEF GetHorTotal
  <1>7. GetHorDisplEnd(crtc) = active
    BY <1>2, <1>5 DEF GetHorDisplEnd
  <1>8. GetHSyncStart(crtc) = start % 256
    BY <1>5 DEF GetHSyncStart
  <1>9. ASSUME start < stop, stop < start + 32 PROVE GetHSyncEnd(crtc) - GetHSyncStart(crtc) = stop - start
    <2> DEFINE low == start % 256
               end == low + (stop - start)
    <2>1. low \in Nat /\ end \in Nat /\ low < end /\ end < low + 32 /\ end % 32 = stop % 32
      BY <1>2, <1>9
    <2>2. EndCalc(low, end % 32, 32) = end
      <3> HIDE DEF low, end
      <3> QED
        BY <2>1, EndCalcBack
    <2>3. GetHSyncEnd(crtc) = end
      BY <1>5, <1>8, <2>1, <2>2 DEF GetHSyncEnd
    <2> QED
      BY <1>2, <1>8, <2>1, <2>3
  <1>10. GetLogScreenWidth(crtc) = active
    BY <1>2, <1>5 DEF GetLogScreenWidth
  <1>11. GetHBlankStart(crtc) = from
    BY <1>2, <1>3, <1>5 DEF GetHBlankStart
  <1>12. ((crtc[3] % 32) + 32 * Bit(crtc[5], 128) - crtc[2]) % 64 = to - from
    <2>1. ((to - 1) % 32) + 32 * Bit(to - 1, 32) = (to - 1) % 64
      BY <1>3 DEF Bit
    <2>2. (from - 1) % 256 = from - 1
      BY <1>2, <1>3
    <2>3. (((to - 1) % 64) - (from - 1)) % 64 = to - from
      BY <1>3
    <2> DEFINE x == crtc[3] % 32
               y == 32 * Bit(crtc[5], 128)
               z == crtc[2]
    <2>4. x = (to - 1) % 32 /\ y = 32 * Bit(to - 1, 32) /\ z = from - 1
      BY <1>5, <2>2
    <2>5. Bit(to - 1, 32) \in Int
      BY <1>3 DEF Bit
    <2> HIDE DEF x, y, z
    <2>6. (x + (y - z)) % 64 = to - from
      <3>1. x \in Int /\ y \in Int /\ z \in Int /\ x + y = (to - 1) % 64
        BY <1>3, <2>1, <2>4, <2>5
      <3>2. x + (y - z) = ((to - 1) % 64) - (from - 1)
        BY <1>3, <2>4, <3>1
      <3> QED
        BY <2>3, <3>2
    <2> QED
      BY <2>6 DEF x, y, z
  <1> QED
    BY <1>6, <1>7, <1>8, <1>9, <1>10, <1>11, <1>12 DEF total, active, start, stop, from, to


-----------------------------------------------------------------------------
\* set80 -a leaves the BIOS's registers, which hold set80's own mode.
LEMMA BiosRegisters ==
  ASSUME Inv, BiosMode
  PROVE  /\ mode = Set80Line
         /\ crtc[0] = 95 /\ crtc[1] = 79 /\ crtc[2] = 80 /\ crtc[3] = 130 /\ crtc[4] = 85
         /\ crtc[5] = 129 /\ crtc[6] = 191 /\ crtc[7] = 31 /\ crtc[9] = 79 /\ crtc[10] = 13
         /\ crtc[11] = 14 /\ crtc[16] = 156 /\ crtc[17] % 16 = 14 /\ crtc[18] = 143 /\ crtc[19] = 40
         /\ crtc[21] = 150 /\ crtc[22] = 185 /\ crtc[23] = 163
  <1>1. mode = Set80Line
    BY DEF Inv, OnPath, BiosMode
  <1>2. \A r \in Reg \ {17} : crtc[r] = TextCrtc[r + 1]
    BY DEF Inv, BiosText
  <1>3. crtc[17] % 16 = 14
    <2>1. crtc[17] \in Byte /\ crtc[17] % 128 = 14
      BY DEF Inv, TypeOK, Reg, BiosText
    <2> QED
      BY <2>1 DEF Byte
  <1> QED
    BY <1>1, <1>2, <1>3 DEF TextCrtc, Reg

LEMMA Set80Timings ==
  /\ ~VertDouble(Set80Line) /\ Rows(Set80Line) = 25 /\ Cols(Set80Line) = 80
  /\ V(Set80Line) = [active |-> 400, start |-> 412, stop |-> 414, total |-> 449]
  /\ H(Set80Line) = [active |-> 80, start |-> 85, stop |-> 97, total |-> 100]
  BY DEF Set80Line, V, H, VertDouble, Struct, Rows, Cols

LEMMA ReadBack == Inv => TimingsReadBack
  <1> SUFFICES ASSUME Inv, Done PROVE TimingsReadBack
    BY DEF TimingsReadBack
  <1>1. /\ pc = "done" /\ Rows(mode) > 0 /\ H(mode).total >= 5
        /\ H(mode).stop - H(mode).start \in 1..31 /\ V(mode).stop - V(mode).start \in 1..15
    BY DEF Done, Fits
  <1>2. CASE ~BiosMode
    <2>1. mode \in ModeLine /\ Accepted(mode)
      BY <1>1, ModesAssumption, Set80IsModeLine DEF Inv, TypeOK, OnPath
    <2>2. /\ H(mode).start < H(mode).stop /\ H(mode).stop < H(mode).start + 32
          /\ V(mode).stop < V(mode).start + 16
      BY <1>1, <2>1, VerticalBounds, HorizontalBounds DEF InOrder
    <2>3. ~set80 \/ force => GetHorizShift(crtc) = mode.hshift
      <3> SUFFICES ASSUME ~set80 PROVE GetHorizShift(crtc) = mode.hshift
        BY <1>1, <1>2 DEF BiosMode
      <3>1. Show(crtc, "hshift") = Want(mode, "hshift")
        BY <1>1, <1>2, AtTheEnd
      <3>2. Bit(crtc[5], 32) = Bit(mode.hshift, 1) /\ Bit(crtc[5], 64) = Bit(mode.hshift, 2)
        BY <3>1 DEF Show, Want
      <3>3. crtc[5] \in Byte /\ mode.hshift \in 0..3
        BY <2>1 DEF Inv, TypeOK, Reg, ModeLine
      <3>4. \A x \in Byte : (x \div 32) % 4 = Bit(x, 32) + 2 * Bit(x, 64)
        BY DEF Byte, Bit
      <3>5. \A x \in 0..3 : Bit(x, 1) + 2 * Bit(x, 2) = x
        BY DEF Bit
      <3> QED
        BY <3>2, <3>3, <3>4, <3>5 DEF GetHorizShift
    <2> QED
      BY <1>1, <1>2, <2>2, <2>3, VerticalRead, HorizontalRead DEF TimingsReadBack
  <1>3. CASE BiosMode
    <2>1. /\ Bit(31, 1) = 1 /\ Bit(31, 32) = 0 /\ Bit(31, 2) = 1 /\ Bit(31, 64) = 0
          /\ Bit(31, 4) = 1 /\ Bit(31, 128) = 0
      BY DEF Bit
    <2>2. GetVertTotal(crtc) = 449 /\ GetVertDisplEnd(crtc) = 400 /\ GetVRetraceStart(crtc) = 412
      BY <1>3, <2>1, BiosRegisters DEF GetVertTotal, GetVertDisplEnd, GetVRetraceStart
    <2>3. GetVRetraceEnd(crtc) = 414
      BY <1>3, <2>2, BiosRegisters DEF GetVRetraceEnd, EndCalc
    <2>4. /\ GetHorTotal(crtc) = 100 /\ GetHorDisplEnd(crtc) = 80 /\ GetHSyncStart(crtc) = 85
          /\ GetHorizShift(crtc) = 0
      BY <1>3, BiosRegisters DEF GetHorTotal, GetHorDisplEnd, GetHSyncStart, GetHorizShift
    <2>5. GetHSyncEnd(crtc) = 97
      BY <1>3, <2>4, BiosRegisters DEF GetHSyncEnd, EndCalc
    <2>6. /\ V(mode).total = 449 /\ V(mode).active = 400 /\ V(mode).start = 412
          /\ V(mode).stop = 414 /\ H(mode).total = 100 /\ H(mode).active = 80
          /\ H(mode).start = 85 /\ H(mode).stop = 97
      BY <1>3, BiosRegisters, Set80Timings
    <2>7. mode.hshift = 0
      BY <1>3, BiosRegisters DEF Set80Line
    <2> QED
      BY <2>2, <2>3, <2>4, <2>5, <2>6, <2>7 DEF TimingsReadBack
  <1> QED
    BY <1>2, <1>3

LEMMA BlankingRight == Inv => BlankingAroundSync
  <1> SUFFICES ASSUME Inv, Done PROVE BlankingAroundSync
    BY DEF BlankingAroundSync
  <1>1. pc = "done" /\ Rows(mode) > 0
    BY DEF Done, Fits
  <1>2. CASE ~BiosMode
    <2>1. mode \in ModeLine /\ Accepted(mode)
      BY <1>1, ModesAssumption, Set80IsModeLine DEF Inv, TypeOK, OnPath
    <2> DEFINE v == V(mode)
               h == H(mode)
               vb == VBlank(mode)
               hb == HBlank(mode)
    <2>2. InOrder(v) /\ v.active >= 0 /\ v.total <= 1023 /\ Blanks(vb, v, 8, 127)
      BY <2>1, VerticalBounds, BlankBounds DEF VBlank
    <2>3. InOrder(h) /\ h.active >= 0 /\ h.total <= 1023 /\ Blanks(hb, h, 1, 63)
      BY <2>1, HorizontalBounds, BlankBounds DEF HBlank, InOrder
    <2>4. /\ GetVBlankStart(crtc) = vb.start
          /\ crtc[22] = vb.stop % 256 /\ crtc[21] = vb.start % 256
      BY <1>1, <1>2, VerticalRead
    <2>5. /\ GetHBlankStart(crtc) = hb.start
          /\ ((crtc[3] % 32) + 32 * Bit(crtc[5], 128) - crtc[2]) % 64 = hb.stop - hb.start
      BY <1>1, <1>2, HorizontalRead
    <2> HIDE DEF v, h, vb, hb
    <2>6. (crtc[22] - crtc[21]) % 256 = vb.stop - vb.start
      <3>1. vb.start \in Int /\ vb.stop \in Int /\ vb.start <= vb.stop /\ vb.stop <= vb.start + 127
        BY <2>2 DEF Blanks
      <3>2. \A a, b \in Int : a <= b /\ b <= a + 127 => ((b % 256) - (a % 256)) % 256 = b - a
        OBVIOUS
      <3> QED
        BY <2>4, <3>1, <3>2
    <2>7. ASSUME NEW b, NEW t, NEW k \in Nat, NEW l \in Nat, InOrder(t), Blanks(b, t, k, l)
          PROVE  /\ b.start \in t.active .. MinOf(t.start, t.active + k)
                 /\ b.stop - b.start <= l
                 /\ b.start + (b.stop - b.start) <= t.total
                 /\ b.stop - b.start = l \/ b.start + (b.stop - b.start) >= t.stop
      BY <2>7 DEF InOrder, Blanks, MinOf
    <2>8. /\ vb.start \in v.active .. MinOf(v.start, v.active + 8)
          /\ vb.stop - vb.start <= 127 /\ vb.start + (vb.stop - vb.start) <= v.total
          /\ vb.stop - vb.start = 127 \/ vb.start + (vb.stop - vb.start) >= v.stop
      BY <2>2, <2>7, ZenonT(60)
    <2>9. /\ hb.start \in h.active .. MinOf(h.start, h.active + 1)
          /\ hb.start + (hb.stop - hb.start) <= h.total
          /\ hb.stop - hb.start = 63 \/ hb.start + (hb.stop - hb.start) >= h.stop
      BY <2>3, <2>7
    <2> QED
      BY <2>4, <2>5, <2>6, <2>8, <2>9 DEF BlankingAroundSync, v, h
  <1>3. CASE BiosMode
    <2>1. Bit(31, 8) = 1 /\ Bit(79, 32) = 0 /\ Bit(129, 128) = 1
      BY DEF Bit
    <2>2. /\ GetVBlankStart(crtc) = 406 /\ GetHBlankStart(crtc) = 81
          /\ (crtc[22] - crtc[21]) % 256 = 35
          /\ ((crtc[3] % 32) + 32 * Bit(crtc[5], 128) - crtc[2]) % 64 = 18
      BY <1>3, <2>1, BiosRegisters DEF GetVBlankStart, GetHBlankStart
    <2> QED
      BY <1>3, <2>2, BiosRegisters, Set80Timings DEF BlankingAroundSync, MinOf
  <1> QED
    BY <1>2, <1>3

LEMMA ScreenRight == Inv => ScreenMatchesKernel
  <1> SUFFICES ASSUME Inv, Done, ~set80 \/ force PROVE ScreenMatchesKernel
    BY DEF ScreenMatchesKernel
  <1>1. pc = "done" /\ Rows(mode) > 0
    BY DEF Done, Fits
  <1>2. CASE ~BiosMode
    <2>1. mode \in ModeLine /\ Accepted(mode) /\ ~set80
      BY <1>1, <1>2, ModesAssumption, Set80IsModeLine DEF Inv, TypeOK, OnPath, BiosMode
    <2>2. \A f \in {"dscan", "cursor"} : Show(crtc, f) = Want(mode, f)
      BY <1>1, <1>2, <2>1, AtTheEnd
    <2>3. Bit(crtc[9], 128) = (IF mode.dscan THEN 1 ELSE 0)
      BY <2>2 DEF Show, Want
    <2> DEFINE a == ScaledTo(mode, Cursor.start)
               b == ScaledTo(mode, Cursor.end)
    <2>4. crtc[10] % 32 = a % 32 /\ crtc[11] % 32 = b % 32
      BY <2>2 DEF Show, Want
    <2>5. Cursor.end < 32 => 0 <= a /\ a <= b /\ b < mode.fontHeight /\ a \in Int /\ b \in Int
      <3>1. /\ Cursor.start \in Nat /\ Cursor.end \in Nat /\ Cursor.start <= Cursor.end
            /\ mode.fontHeight \in 1..32
        BY <2>1, CursorAssumption DEF ModeLine
      <3>2. \A x, y \in Nat, f \in 1..32 : x <= y /\ y < 32 =>
               /\ x * f \in Nat /\ y * f \in Nat /\ x * f <= y * f /\ y * f < 32 * f
        OBVIOUS
      <3>3. \A p, q \in Nat, f \in 1..32 : p <= q /\ q < 32 * f =>
               /\ p \div 32 \in Nat /\ q \div 32 \in Nat
               /\ p \div 32 <= q \div 32 /\ q \div 32 < f
        OBVIOUS
      <3> QED
        BY <3>1, <3>2, <3>3 DEF ScaledTo
    <2>6. mode.fontHeight \in 1..32
      BY <2>1 DEF ModeLine
    <2>7. Cursor.end < 32 => /\ crtc[10] % 32 <= crtc[11] % 32
                             /\ crtc[11] % 32 < mode.fontHeight
      <3> HIDE DEF a, b
      <3> QED
        BY <2>4, <2>5, <2>6
    <2>8. (IF VertDouble(mode) THEN 2 ELSE 1) * V(mode).active
              = Rows(mode) * mode.fontHeight * (IF mode.dscan THEN 2 ELSE 1)
      BY <2>1, VerticalBounds
    <2>9. H(mode).active = Cols(mode)
      BY <2>1, HorizontalBounds
    <2>10. /\ GetVertDisplEnd(crtc) = V(mode).active /\ GetMaxScanline(crtc) = mode.fontHeight
           /\ Bit(crtc[23], 4) = IF VertDouble(mode) THEN 1 ELSE 0
      BY <1>1, <1>2, VerticalRead
    <2>11. /\ GetHorDisplEnd(crtc) = H(mode).active /\ GetLogScreenWidth(crtc) = H(mode).active
      BY <1>1, <1>2, HorizontalRead
    <2>12. /\ (IF Bit(crtc[23], 4) = 1 THEN 2 ELSE 1) = (IF VertDouble(mode) THEN 2 ELSE 1)
           /\ (IF Bit(crtc[9], 128) = 1 THEN 2 ELSE 1) = (IF mode.dscan THEN 2 ELSE 1)
      BY <2>3, <2>10
    <2> QED
      BY <2>7, <2>8, <2>9, <2>10, <2>11, <2>12 DEF ScreenMatchesKernel
  <1>3. CASE BiosMode
    <2>1. /\ Bit(31, 2) = 1 /\ Bit(31, 64) = 0 /\ Bit(79, 128) = 0 /\ Bit(163, 4) = 0
      BY DEF Bit
    <2> QED
      BY <1>3, <2>1, BiosRegisters, Set80Timings
      DEF ScreenMatchesKernel, GetVertDisplEnd, GetMaxScanline, GetHorDisplEnd, GetLogScreenWidth
  <1> QED
    BY <1>2, <1>3
-----------------------------------------------------------------------------
(* What the registers hold at the end of a run.                            *)

\* When the last call has been made, the getters of src/vga_prg.c read every
\* timing of the mode back, for all mode lines and whatever the registers held.
THEOREM TimingsAreReadBack == Spec => []TimingsReadBack
  BY Always, ReadBack, PTL

\* The blanking starts and ends where set_V_timings and set_H_timings
\* (src/vga_prg.c) should have put it.
THEOREM BlankingIsAroundSync == Spec => []BlankingAroundSync
  BY Always, BlankingRight, PTL

\* The lines, columns and cursor displayed are those the kernel is told of.
THEOREM ScreenIsTheKernels == Spec => []ScreenMatchesKernel
  BY Always, ScreenRight, PTL
-----------------------------------------------------------------------------
(* grabmode.                                                               *)

\* m has the fields of a modestruct.
Fields == {"h", "v", "hb", "vb", "font", "hshift", "clock", "flags", "remarks"}
Shape(m) == m = [f \in Fields |-> m[f]]

\* What has been settled when the guessing before the clock probe is over.
Settled(m) == m.remarks = {} => /\ m.h \in Timing /\ m.v \in Timing
                                /\ Ordered(m.h) /\ Ordered(m.v)

GInv == /\ TypeOK
        /\ gpc \in {"idle", "pre", "probe", "post", "print"}
        /\ gpc = "pre" => Shape(grab) /\ grab.h \in Timing /\ grab.v \in Timing
        /\ gpc \in {"pre", "probe", "post"} => grab.font \in 1..32
        /\ gpc \in {"probe", "post"} => Shape(grab) /\ (opt.raw \/ Settled(grab))
        /\ gpc = "print" /\ ~opt.raw /\ grab.remarks = {} => Ordered(grab.h) /\ Ordered(grab.v)
-----------------------------------------------------------------------------
(* The getters.                                                            *)

LEMMA GettersInt ==
  ASSUME NEW c \in Regs
  PROVE  /\ GetHorDisplEnd(c) \in Int   /\ GetHSyncStart(c) \in Int
         /\ GetHSyncEnd(c) \in Int      /\ GetHorTotal(c) \in Int
         /\ GetVertDisplEnd(c) \in Int  /\ GetVRetraceStart(c) \in Int
         /\ GetVRetraceEnd(c) \in Int   /\ GetVertTotal(c) \in Int
         /\ GetMaxScanline(c) \in 1..32
  <1>1. \A r \in {0, 1, 4, 5, 6, 7, 9, 16, 17, 18} : c[r] \in Int
    BY DEF Regs, Byte, Reg
  <1>2. \A w \in {1, 2, 4, 32, 64, 128} : Bit(c[7], w) \in 0..1
    BY <1>1, BitType
  <1>3. /\ GetHorDisplEnd(c) \in Int   /\ GetHSyncStart(c) \in Int
        /\ GetHorTotal(c) \in Int      /\ GetMaxScanline(c) \in 1..32
    BY <1>1 DEF GetHorDisplEnd, GetHSyncStart, GetHorTotal, GetMaxScanline
  <1>4. GetVertDisplEnd(c) \in Int /\ GetVertTotal(c) \in Int
    BY <1>1, <1>2 DEF GetVertDisplEnd, GetVertTotal
  <1>5. GetVRetraceStart(c) \in Int
    BY <1>1, <1>2 DEF GetVRetraceStart
  <1>6. GetVRetraceEnd(c) \in Int
    BY <1>1, <1>5 DEF GetVRetraceEnd, EndCalc
  <1>7. GetHSyncEnd(c) \in Int
    BY <1>1, <1>3 DEF GetHSyncEnd, EndCalc
  <1> QED
    BY <1>3, <1>4, <1>5, <1>6, <1>7

\* getmode's modestruct holds numbers.
LEMMA ReadModeType ==
  ASSUME NEW c \in Regs, NEW a
  PROVE  /\ Shape(ReadMode(c, a)) /\ ReadMode(c, a).font \in 1..32
         /\ ReadMode(c, a).h \in Timing /\ ReadMode(c, a).v \in Timing
  <1> DEFINE t == [active |-> GetHorDisplEnd(c), start |-> GetHSyncStart(c),
                   stop |-> GetHSyncEnd(c), total |-> GetHorTotal(c)]
             u == [active |-> GetVertDisplEnd(c), start |-> GetVRetraceStart(c),
                   stop |-> GetVRetraceEnd(c), total |-> GetVertTotal(c)]
             b == Mul([start |-> GetHBlankStart(c), stop |-> GetHBlankEnd(c)], 8)
             d == [start |-> GetVBlankStart(c), stop |-> GetVBlankEnd(c)]
  <1>1. ReadMode(c, a) = [h |-> Mul(t, 8), v |-> u, hb |-> b, vb |-> d,
                          font |-> GetMaxScanline(c), hshift |-> GetHorizShift(c),
                          clock |-> 0, flags |-> Flags(c, a), remarks |-> {}]
    BY DEF ReadMode
  <1>2. t \in Timing /\ u \in Timing
    BY GettersInt DEF Timing
  <1> HIDE DEF t, u, b, d
  <1>3. Mul(t, 8) \in Timing
    BY <1>2 DEF Mul, Timing
  <1>4. Shape(ReadMode(c, a))
    BY <1>1 DEF Shape, Fields
  <1> QED
    BY <1>1, <1>2, <1>3, <1>4, GettersInt
-----------------------------------------------------------------------------
(* Before the clock probe.                                                 *)

\* Without a remark wrapcheck changes nothing and finds the numbers in order.
LEMMA WrapCheckOrder ==
  ASSUME NEW t \in Timing, NEW b, NEW modified, NEW bad,
         WrapCheck(t, b, modified, bad).remarks = {}
  PROVE  WrapCheck(t, b, modified, bad).t = t /\ Ordered(t)
  <1> DEFINE start == Unwrap(t.active, t.start)
             stop  == Unwrap(start, t.stop)
             total == IF t.total < stop THEN Unwrap(start, t.total) ELSE t.total
             wrap  == \/ t.start < t.active \/ t.stop < start \/ b.stop < b.start
                      \/ t.total < stop /\ t.total < start
  <1>1. ~wrap /\ ~BadStop(start, stop, t.total)
    BY DEF WrapCheck
  <1>2. start = t.start /\ t.active <= t.start
    BY <1>1 DEF Unwrap, Timing
  <1>3. stop = t.stop /\ t.start <= t.stop
    BY <1>1, <1>2 DEF Unwrap, Timing
  <1>4. total = t.total /\ t.stop <= t.total
    BY <1>1, <1>2, <1>3 DEF BadStop, Timing
  <1>5. WrapCheck(t, b, modified, bad).t
          = [active |-> t.active, start |-> start, stop |-> stop, total |-> total]
    BY DEF WrapCheck
  <1> QED
    BY <1>2, <1>3, <1>4, <1>5 DEF Ordered, Timing

\* Scaling up by 1 or 2 and shifting by 0 keep the order.
LEMMA MulOrder ==
  ASSUME NEW t \in Timing, NEW k \in {1, 2}, Ordered(t)
  PROVE  Mul(t, k) \in Timing /\ Ordered(Mul(t, k))
  BY DEF Mul, Timing, Ordered

LEMMA ShiftByNothing == ASSUME NEW t \in Timing PROVE Shift(t, 0) = t
  BY DEF Shift, Timing

\* pre_clockprobe_intelligence, for any registers and presets.
LEMMA PreOrder ==
  ASSUME NEW m, Shape(m), m.h \in Timing, m.v \in Timing, NEW x, NEW y
  PROVE  Shape(Pre(m, x, y)) /\ Pre(m, x, y).font = m.font /\ Settled(Pre(m, x, y))
  <1> DEFINE vw   == WrapCheck(m.v, m.vb, "VTIM_MOD", "BAD_VSYNC_STOP")
             scan == IF "VERT_DOUBLE" \in m.flags THEN 2 ELSE 1
             v1   == Mul(vw.t, scan)
             vs   == PresetShift(v1, y)
             hw   == WrapCheck(m.h, m.hb, "HTIM_MOD", "BAD_HSYNC_STOP")
             hs   == PresetShift(hw.t, x)
             rs   == RatioShift(hw.t.active + hs, v1.active + vs)
             says == m.remarks \cup vw.remarks \cup hw.remarks
                     \cup (IF vs # 0 THEN {"PRESET_VTIM_MOD"} ELSE {})
                     \cup (IF hs # 0 THEN {"PRESET_HTIM_MOD"} ELSE {})
                     \cup (IF rs # 0 THEN {"Y_WRAP_COMPENSATE"} ELSE {})
  <1>1. Pre(m, x, y) = [m EXCEPT !.v = Shift(v1, vs + rs), !.vb = Mul(vw.b, scan),
                                 !.h = Shift(hw.t, hs), !.hb = hw.b, !.remarks = says]
    BY DEF Pre
  <1> HIDE DEF vw, scan, v1, vs, hw, hs, rs, says
  <1>2. /\ Shape(Pre(m, x, y)) /\ Pre(m, x, y).font = m.font
        /\ Pre(m, x, y).h = Shift(hw.t, hs) /\ Pre(m, x, y).v = Shift(v1, vs + rs)
        /\ Pre(m, x, y).remarks = says
    BY <1>1 DEF Shape, Fields
  <1>3. ASSUME says = {}
        PROVE  /\ Shift(hw.t, hs) \in Timing /\ Ordered(Shift(hw.t, hs))
               /\ Shift(v1, vs + rs) \in Timing /\ Ordered(Shift(v1, vs + rs))
    <2>1. vw.remarks = {} /\ hw.remarks = {} /\ vs = 0 /\ hs = 0 /\ rs = 0
      BY <1>3 DEF says
    <2>2. hw.t = m.h /\ Ordered(m.h)
      BY <2>1, WrapCheckOrder DEF hw
    <2>3. vw.t = m.v /\ Ordered(m.v)
      BY <2>1, WrapCheckOrder DEF vw
    <2>4. v1 \in Timing /\ Ordered(v1)
      BY <2>3, MulOrder DEF v1, scan
    <2>5. Shift(hw.t, hs) = m.h
      BY <2>1, <2>2, ShiftByNothing
    <2>6. Shift(v1, vs + rs) = v1
      BY <2>1, <2>4, ShiftByNothing
    <2> QED
      BY <2>2, <2>4, <2>5, <2>6
  <1> QED
    BY <1>2, <1>3 DEF Settled
-----------------------------------------------------------------------------
(* After it.                                                               *)

\* Division by a positive number keeps the order.
LEMMA DivMono ==
  ASSUME NEW a \in Int, NEW b \in Int, NEW k \in Nat, k # 0, a <= b
  PROVE  a \div k <= b \div k
  <1> DEFINE p == a \div k
             q == b \div k
  <1>1. p \in Int /\ q \in Int
    OBVIOUS
  <1>2. k * p <= a /\ b < k * q + k
    OBVIOUS
  <1> HIDE DEF p, q
  <1>3. SUFFICES ASSUME q + 1 <= p PROVE FALSE
    BY <1>1 DEF p, q
  <1>4. k * (q + 1) <= k * p
    BY <1>1, <1>3
  <1>5. k * (q + 1) = k * q + k
    BY <1>1
  <1> QED
    BY <1>1, <1>2, <1>4, <1>5

LEMMA DivOrder ==
  ASSUME NEW t \in Timing, NEW k \in Nat, k # 0, Ordered(t)
  PROVE  Ordered(Div(t, k))
  <1>1. /\ t.active \div k <= t.start \div k /\ t.start \div k <= t.stop \div k
        /\ t.stop \div k <= t.total \div k
    BY DivMono DEF Ordered, Timing
  <1>2. /\ Div(t, k).active = t.active \div k /\ Div(t, k).start = t.start \div k
        /\ Div(t, k).stop = t.stop \div k     /\ Div(t, k).total = t.total \div k
    BY DEF Div, Timing
  <1> QED
    BY <1>1, <1>2 DEF Ordered

\* The steps of the guessing keep the fields and never take a remark back.
LEMMA SayShape ==
  ASSUME NEW m, Shape(m), NEW why
  PROVE  Shape(Say(m, why)) /\ Say(m, why).remarks = m.remarks \cup {why}
  BY DEF Shape, Fields, Say

LEMMA DivHShape ==
  ASSUME NEW m, Shape(m), NEW k
  PROVE  Shape(DivH(m, k)) /\ DivH(m, k).remarks = m.remarks
  BY DEF Shape, Fields, DivH

LEMMA DivVShape ==
  ASSUME NEW m, Shape(m), NEW k
  PROVE  /\ Shape(DivV(m, k)) /\ DivV(m, k).remarks = m.remarks
         /\ DivV(m, k).h = m.h /\ DivV(m, k).v = Div(m.v, k)
  BY DEF Shape, Fields, DivV

LEMMA InterlacedShape ==
  ASSUME NEW m, Shape(m), NEW why
  PROVE  /\ Shape(Interlaced(m, why))
         /\ Interlaced(m, why).remarks = m.remarks \cup {why}
  <1>1. Shape(MulV(m, 2)) /\ MulV(m, 2).remarks = m.remarks
    BY DEF Shape, Fields, MulV
  <1> QED
    BY <1>1 DEF Shape, Fields, Interlaced

\* A step that leaves no remark has changed nothing.
Silent(g, r) == Shape(r.m) /\ (r.m.remarks = {} => r.m = g.m)

LEMMA SaidIsSilent ==
  ASSUME NEW g, NEW m, Shape(m), NEW why, NEW d
  PROVE  Silent(g, [m |-> Say(m, why), div |-> d])
  <1>1. [m |-> Say(m, why), div |-> d].m = Say(m, why)
    OBVIOUS
  <1> QED
    BY <1>1, SayShape DEF Silent

LEMMA InterlacedIsSilent ==
  ASSUME NEW g, NEW m, Shape(m), NEW why, NEW d
  PROVE  Silent(g, [m |-> Interlaced(m, why), div |-> d])
  <1>1. [m |-> Interlaced(m, why), div |-> d].m = Interlaced(m, why)
    OBVIOUS
  <1> QED
    BY <1>1, InterlacedShape DEF Silent

LEMMA WithWidthSilent ==
  ASSUME NEW g, Shape(g.m), NEW x
  PROVE  Silent(g, WithWidth(g, x))
  <1> DEFINE k == {n \in 1..4 : Near((g.m.h.active * 100) \div x, 100 * n)}
             why(n) == CASE n = 2 -> IF Cga(g.m) /\ g.div = 2 THEN "CGA" ELSE "16BPP"
                         [] n = 3 -> "24BPP"
                         [] n = 4 -> "32BPP"
             n0 == CHOOSE i \in k : TRUE
             r1 == [m |-> Say(g.m, "PRESET_X_WRONG"), div |-> g.div]
             r2 == [m |-> Say(DivH(g.m, n0), why(n0)), div |-> g.div \div n0]
  <1>1. WithWidth(g, x) = IF x = 0 \/ k = {1} THEN g ELSE IF k = {} THEN r1 ELSE r2
    BY DEF WithWidth
  <1>2. Silent(g, g)
    BY DEF Silent
  <1>3. Silent(g, r1)
    BY SaidIsSilent
  <1>4. Silent(g, r2)
    <2> HIDE DEF n0, why
    <2>1. Shape(DivH(g.m, n0))
      BY DivHShape
    <2> QED
      BY <2>1, SaidIsSilent
  <1> QED
    BY <1>1, <1>2, <1>3, <1>4

LEMMA WithHeightSilent ==
  ASSUME NEW g, Shape(g.m), NEW y
  PROVE  Silent(g, WithHeight(g, y))
  <1>1. Silent(g, g)
    BY DEF Silent
  <1>2. Silent(g, [m |-> Interlaced(g.m, "IS_INTERLACE"), div |-> g.div \div 2])
    BY InterlacedIsSilent
  <1>3. Silent(g, [m |-> Say(g.m, "PRESET_Y_WRONG"), div |-> g.div])
    BY SaidIsSilent
  <1> QED
    BY <1>1, <1>2, <1>3 DEF WithHeight

LEMMA GuessSilent ==
  ASSUME NEW g, Shape(g.m), NEW x, NEW y
  PROVE  Silent(g, GuessWidth(GuessHeight(g, y), x))
  <1>1. Silent(g, GuessHeight(g, y))
    <2>1. Silent(g, g)
      BY DEF Silent
    <2>2. Silent(g, [m |-> Interlaced(g.m, "INTERLACE"), div |-> g.div \div 2])
      BY InterlacedIsSilent
    <2> QED
      BY <2>1, <2>2 DEF GuessHeight
  <1>2. ASSUME NEW r, Shape(r.m) PROVE Silent(r, GuessWidth(r, x))
    <2> DEFINE why == IF Cga(r.m) THEN "GOLDENRATIO_X_CGA" ELSE "GOLDENRATIO_X_HICOLOR"
    <2>1. Silent(r, r)
      BY <1>2 DEF Silent
    <2>2. GuessWidth(r, x) = IF x = 0 /\ r.div = 2
                             THEN [m |-> Say(DivH(r.m, 2), why), div |-> 1] ELSE r
      BY DEF GuessWidth
    <2> HIDE DEF why
    <2>3. Shape(DivH(r.m, 2))
      BY <1>2, DivHShape
    <2>4. Silent(r, [m |-> Say(DivH(r.m, 2), why), div |-> 1])
      BY <2>3, SaidIsSilent
    <2> QED
      BY <2>1, <2>2, <2>4
  <1> QED
    BY <1>1, <1>2 DEF Silent

\* post_clockprobe_intelligence, when it leaves no remark, has done no more
\* than divide the lines by how often each is shown.
LEMMA PostSilent ==
  ASSUME NEW m, Shape(m), NEW a, NEW x, NEW y, Post(m, a, x, y).remarks = {}
  PROVE  m.remarks = {} /\ Post(m, a, x, y).h = m.h
         /\ Post(m, a, x, y).v = Div(m.v, Scans(m))
  <1> DEFINE m1 == DivV(m, Scans(m))
             g0 == [m |-> m1, div |-> RatioDiv(m1)]
             ga == WithWidth(g0, x)
             g1 == WithHeight(ga, y)
             g2 == GuessWidth(GuessHeight(g1, y), x)
             res == IF ~(a.graphics /\ g1.div > 1) THEN g1.m
                    ELSE IF g2.div > 1 THEN Say(g2.m, "WEIRD") ELSE g2.m
  <1>1. Post(m, a, x, y) = res
    BY DEF Post
  <1>2. Shape(m1) /\ m1.remarks = m.remarks /\ m1.h = m.h /\ m1.v = Div(m.v, Scans(m))
    BY DivVShape
  <1>3. g0.m = m1
    OBVIOUS
  <1> HIDE DEF m1, g0
  <1>4. Silent(g0, ga)
    BY <1>2, <1>3, WithWidthSilent
  <1> HIDE DEF ga
  <1>5. Silent(ga, g1)
    BY <1>4, WithHeightSilent DEF Silent
  <1> HIDE DEF g1
  <1>6. Silent(g1, g2)
    BY <1>5, GuessSilent DEF Silent
  <1> HIDE DEF g2
  <1>7. Say(g2.m, "WEIRD").remarks # {}
    BY <1>6, SayShape DEF Silent
  <1>8. res = g1.m \/ res = g2.m
    BY <1>1, <1>7
  <1>9. res = m1
    BY <1>1, <1>3, <1>4, <1>5, <1>6, <1>8 DEF Silent
  <1> QED
    BY <1>1, <1>2, <1>9
-----------------------------------------------------------------------------
LEMMA GInvInit == GInit => GInv
  <1> SUFFICES ASSUME GInit PROVE GInv
    OBVIOUS
  <1>1. TypeOK
    BY TypeInit DEF GInit
  <1> QED
    BY <1>1 DEF GInit, GInv

LEMMA GInvStep == GInv /\ [GNext]_gvars => GInv'
  <1> SUFFICES ASSUME GInv, [GNext]_gvars PROVE GInv'
    OBVIOUS
  <1>t. ASSUME UNCHANGED machine PROVE TypeOK'
    BY <1>t DEF GInv, machine, TypeOK
  <1>1. CASE GetMode
    <2>1. crtc' \in Regs
      <3>1. crtc \in Regs
        BY DEF GInv, TypeOK, Regs
      <3> QED
        BY <1>1, <3>1, OutBitType DEF GetMode, Reg
    <2>2. TypeOK'
      BY <1>1, <2>1 DEF GetMode, GInv, TypeOK, Regs
    <2>3. grab' = ReadMode(crtc', adapter) /\ gpc' = "pre"
      BY <1>1 DEF GetMode
    <2>4. Shape(grab') /\ grab'.font \in 1..32 /\ grab'.h \in Timing /\ grab'.v \in Timing
      BY <2>1, <2>3, ReadModeType
    <2> QED
      BY <2>2, <2>3, <2>4 DEF GInv, Shape, Fields
  <1>2. CASE PreClockprobe
    <2>1. TypeOK' /\ gpc' = "probe" /\ opt' = opt
      BY <1>t, <1>2 DEF PreClockprobe
    <2>2. Shape(grab) /\ grab.h \in Timing /\ grab.v \in Timing /\ grab.font \in 1..32
      BY <1>2 DEF PreClockprobe, GInv
    <2>3. CASE opt.raw
      BY <1>2, <2>1, <2>2, <2>3 DEF PreClockprobe, GInv, Shape, Fields
    <2>4. CASE ~opt.raw
      <3>1. grab' = Pre(grab, opt.x, opt.y)
        BY <1>2, <2>4 DEF PreClockprobe
      <3>2. Shape(grab') /\ grab'.font = grab.font /\ Settled(grab')
        BY <2>2, <3>1, PreOrder
      <3> QED
        BY <2>1, <2>2, <3>2 DEF GInv, Shape, Fields, Settled
    <2> QED
      BY <2>3, <2>4
  <1>3. CASE MeasurePixclock
    <2>1. TypeOK' /\ gpc' = "post" /\ opt' = opt
      BY <1>t, <1>3 DEF MeasurePixclock
    <2>2. Shape(grab) /\ (opt.raw \/ Settled(grab)) /\ grab.font \in 1..32
      BY <1>3 DEF MeasurePixclock, GInv
    <2> DEFINE Keeps(r) == /\ Shape(r) /\ r.h = grab.h /\ r.v = grab.v /\ r.font = grab.font
                           /\ r.remarks = {} => grab.remarks = {}
    <2>3. Keeps(grab)
      BY <2>2
    <2>4. Keeps(Say(grab, "CLOCKPROBE_FAILED"))
      BY <2>2 DEF Say, Shape
    <2>5. ASSUME NEW n, NEW why,
                 grab' = [grab EXCEPT !.clock = n, !.remarks = @ \cup why]
          PROVE  Keeps(grab')
      BY <2>2, <2>5 DEF Shape, Fields
    <2>6. Keeps(grab')
      BY <1>3, <2>3, <2>4, <2>5 DEF MeasurePixclock
    <2>7. opt.raw \/ Settled(grab')
      BY <2>2, <2>6 DEF Settled
    <2> QED
      BY <2>1, <2>2, <2>6, <2>7 DEF GInv, Shape, Fields, Settled
  <1>4. CASE PostClockprobe
    <2>1. TypeOK' /\ gpc' = "print" /\ opt' = opt
      BY <1>t, <1>4 DEF PostClockprobe
    <2>2. ASSUME ~opt.raw, grab'.remarks = {}
          PROVE  Ordered(grab'.h) /\ Ordered(grab'.v)
      <3>1. Shape(grab) /\ Settled(grab) /\ grab.font \in 1..32
        BY <1>4, <2>2 DEF PostClockprobe, GInv
      <3>2. grab' = Post(grab, adapter, opt.x, opt.y)
        BY <1>4, <2>2 DEF PostClockprobe
      <3>3. grab.remarks = {} /\ grab'.h = grab.h /\ grab'.v = Div(grab.v, Scans(grab))
        BY <2>2, <3>1, <3>2, PostSilent
      <3>4. Scans(grab) \in Nat /\ Scans(grab) # 0
        BY <3>1 DEF Scans
      <3> QED
        BY <3>1, <3>3, <3>4, DivOrder DEF Settled
    <2> QED
      BY <2>1, <2>2 DEF GInv, Ordered
  <1>5. CASE Exit
    <2>1. TypeOK' /\ gpc' = "idle"
      BY <1>t, <1>5 DEF Exit
    <2> QED
      BY <2>1 DEF GInv
  <1>6. CASE Program
    <2>1. TypeOK'
      BY <1>6, TypeStep DEF Program, GInv
    <2>2. gpc = "idle" /\ gpc' = "idle"
      BY <1>6 DEF Program
    <2> QED
      BY <2>1, <2>2 DEF GInv
  <1>7. CASE UNCHANGED gvars
    <2>1. TypeOK'
      BY <1>7, <1>t DEF gvars, machine
    <2> QED
      BY <1>7, <2>1 DEF gvars, GInv, Shape, Fields, Settled, Ordered
  <1> QED
    BY <1>1, <1>2, <1>3, <1>4, <1>5, <1>6, <1>7 DEF GNext

\* Whatever the registers hold, a mode line grabmode prints without a remark
\* has its numbers in order (wrapcheck and the scaling in src/modedata.c).
THEOREM NumbersInOrder == GSpec => []OrderedOrRemarked
  <1>1. GInv => OrderedOrRemarked
    BY DEF GInv, OrderedOrRemarked
  <1> QED
    BY GInvInit, GInvStep, <1>1, PTL DEF GSpec
-----------------------------------------------------------------------------
(* From the registers to the line that is printed.                         *)

\* What grabmode has before the clock probe, and after it.
Prepared == LET m == ReadMode(crtc, adapter)
            IN  IF opt.raw THEN m ELSE Pre(m, opt.x, opt.y)
Clocked(m, n, why) == [m EXCEPT !.clock = n, !.remarks = @ \cup why]
ProbedFrom(m) == {Clocked(m, n, why) : n \in {m.clock, (m.h.total \div 8) * m.v.total},
                                       why \in SUBSET ProbeRemarks}

\* The registers and the adapter stay while grabmode runs, so its modestruct is
\* a function of them at every step.
Follows ==
  /\ Inv
  /\ pc # "start" => ~adapter.graphics
  /\ gpc \in {"idle", "pre", "probe", "post", "print"}
  /\ gpc # "idle" => opt.x \in Nat /\ opt.y \in Nat /\ opt.raw \in BOOLEAN
  /\ gpc = "pre" => grab = ReadMode(crtc, adapter)
  /\ gpc = "probe" => grab = Prepared
  /\ gpc = "post" => grab \in ProbedFrom(Prepared)
  /\ gpc = "print" /\ ~opt.raw =>
       \E m \in ProbedFrom(Prepared) : grab = Post(m, adapter, opt.x, opt.y)

LEMMA FollowsInit == GInit => Follows
  BY InvInit DEF GInit, Follows, Init

LEMMA ClockedNothing ==
  ASSUME NEW m, Shape(m)
  PROVE  m = Clocked(m, m.clock, {})
  <1>1. Clocked(m, m.clock, {}) = [f \in Fields |-> m[f]]
    BY DEF Shape, Fields, Clocked
  <1> QED
    BY <1>1 DEF Shape

LEMMA PreparedShape == ASSUME Inv PROVE Shape(Prepared)
  <1>1. crtc \in Regs
    BY DEF Inv, TypeOK, Regs
  <1> DEFINE m == ReadMode(crtc, adapter)
  <1>2. Shape(m) /\ m.h \in Timing /\ m.v \in Timing
    BY <1>1, ReadModeType
  <1>3. Prepared = IF opt.raw THEN m ELSE Pre(m, opt.x, opt.y)
    BY DEF Prepared
  <1> HIDE DEF m
  <1> QED
    BY <1>2, <1>3, PreOrder

\* grabmode itself unlocks the registers, and that is all it does to them.
LEMMA InvUnlocks ==
  ASSUME Inv, pc \in {"start", "done"}, crtc' = OutBit(crtc, 17, 128, 0),
         UNCHANGED <<mode, set80, force, pc, left>>
  PROVE  Inv'
  <1>1. crtc \in Regs /\ pc \in Steps
    BY DEF Inv, TypeOK, Regs
  <1>2. /\ crtc' \in Regs
        /\ Show(crtc', "protection") = 0
        /\ \A f \in Field \ {"protection"} : Show(crtc', f) = Show(crtc, f)
    BY <1>1, SetsProtection DEF Sets
  <1>3. TypeOK'
    BY <1>2 DEF Inv, TypeOK, Regs
  <1>4. OnPath' /\ BiosMode' = BiosMode
    BY DEF Inv, OnPath, BiosMode
  <1>5. Unprotected'
    BY <1>2 DEF Unprotected, Show
  <1>6. MadeShow => MadeShow'
    <2>1. \A f : Made(f)' = Made(f)
      BY DEF Made
    <2>2. \A f \in Field : Made(f) => f # "protection"
      BY Places DEF Made
    <2> QED
      BY <1>2, <2>1, <2>2 DEF MadeShow
  <1>7. BiosText => BiosText'
    <2>1. /\ \A r \in Reg \ {17} : crtc'[r] = crtc[r]
          /\ crtc'[17] % 128 = crtc[17] % 128
      <3>1. Puts(crtc, crtc', 17, PutBit(crtc[17], 128, 0))
        BY <1>1, OutBitFree DEF Free, Reg, Weights
      <3>2. \A x \in Byte : PutBit(x, 128, 0) % 128 = x % 128
        BY DEF Byte, Bit, PutBit
      <3> QED
        BY <1>1, <3>1, <3>2 DEF Puts, Regs, Reg
    <2> QED
      BY <2>1 DEF BiosText
  <1> QED
    BY <1>3, <1>4, <1>5, <1>6, <1>7 DEF Inv

LEMMA FollowsStep == Follows /\ [GNext]_gvars => Follows'
  <1> SUFFICES ASSUME Follows, [GNext]_gvars PROVE Follows'
    OBVIOUS
  <1>i. ASSUME UNCHANGED machine PROVE Inv' /\ (pc # "start" => ~adapter.graphics)'
    <2>1. UNCHANGED vars
      BY <1>i DEF machine, vars
    <2>2. Inv'
      BY <2>1, InvStep DEF Follows
    <2> QED
      BY <1>i, <2>2 DEF machine, Follows
  <1>p. ASSUME UNCHANGED machine, UNCHANGED opt PROVE Prepared' = Prepared
    BY <1>p DEF machine, Prepared
  <1>1. CASE GetMode
    <2>1. Inv'
      BY <1>1, InvUnlocks DEF GetMode, Follows
    <2>2. opt' \in [raw : BOOLEAN, probe : BOOLEAN, x : Widths, y : Heights]
      BY <1>1 DEF GetMode
    <2>3. opt'.x \in Nat /\ opt'.y \in Nat /\ opt'.raw \in BOOLEAN
      <3>1. opt'.x \in Widths /\ opt'.y \in Heights /\ opt'.raw \in BOOLEAN
        BY <2>2
      <3>2. \A n \in Widths \cup Heights : n \in Nat
        BY PresetAssumption
      <3> QED
        BY <3>1, <3>2
    <2>4. gpc' = "pre" /\ grab' = ReadMode(crtc', adapter) /\ adapter' = adapter /\ pc' = pc
      BY <1>1 DEF GetMode
    <2> QED
      BY <2>1, <2>3, <2>4 DEF Follows
  <1>2. CASE PreClockprobe
    <2>1. UNCHANGED machine /\ opt' = opt /\ gpc = "pre" /\ gpc' = "probe"
      BY <1>2 DEF PreClockprobe
    <2>2. grab' = Prepared
      BY <1>2, <2>1 DEF PreClockprobe, Prepared, Follows
    <2> QED
      BY <1>i, <1>p, <2>1, <2>2 DEF Follows
  <1>3. CASE MeasurePixclock
    <2>1. UNCHANGED machine /\ opt' = opt /\ gpc = "probe" /\ gpc' = "post" /\ grab = Prepared
      BY <1>3 DEF MeasurePixclock, Follows
    <2>2. Shape(grab)
      BY <2>1, PreparedShape DEF Follows
    <2>3. \/ grab' = grab \/ grab' = Say(grab, "CLOCKPROBE_FAILED")
          \/ \E why \in {{}, {"CLOCK_MEASUREMENTS"}} :
               grab' = Clocked(grab, (grab.h.total \div 8) * grab.v.total, why)
      BY <1>3 DEF MeasurePixclock, Clocked
    <2>4. /\ {} \in SUBSET ProbeRemarks /\ {"CLOCKPROBE_FAILED"} \in SUBSET ProbeRemarks
          /\ {"CLOCK_MEASUREMENTS"} \in SUBSET ProbeRemarks
      BY DEF ProbeRemarks
    <2>5. Say(grab, "CLOCKPROBE_FAILED") = Clocked(grab, grab.clock, {"CLOCKPROBE_FAILED"})
      BY <2>2 DEF Shape, Fields, Say, Clocked
    <2>6. grab = Clocked(grab, grab.clock, {})
      BY <2>2, ClockedNothing
    <2>7. grab' \in ProbedFrom(grab)
      <3>1. CASE grab' = grab
        BY <2>4, <2>6, <3>1 DEF ProbedFrom
      <3>2. CASE grab' = Say(grab, "CLOCKPROBE_FAILED")
        BY <2>4, <2>5, <3>2 DEF ProbedFrom
      <3>3. CASE \E why \in {{}, {"CLOCK_MEASUREMENTS"}} :
                    grab' = Clocked(grab, (grab.h.total \div 8) * grab.v.total, why)
        BY <2>4, <3>3 DEF ProbedFrom
      <3> QED
        BY <2>3, <3>1, <3>2, <3>3
    <2>8. grab' \in ProbedFrom(Prepared)'
      <3>1. ProbedFrom(Prepared)' = ProbedFrom(Prepared)
        BY <1>p, <2>1 DEF ProbedFrom
      <3> QED
        BY <2>1, <2>7, <3>1
    <2> QED
      BY <1>i, <2>1, <2>8 DEF Follows
  <1>4. CASE PostClockprobe
    <2>1. UNCHANGED machine /\ opt' = opt /\ gpc = "post" /\ gpc' = "print"
      BY <1>4 DEF PostClockprobe
    <2>2. ~opt.raw => grab' = Post(grab, adapter, opt.x, opt.y) /\ grab \in ProbedFrom(Prepared)
      BY <1>4, <2>1 DEF PostClockprobe, Follows
    <2>3. ProbedFrom(Prepared)' = ProbedFrom(Prepared)
      BY <1>p, <2>1 DEF ProbedFrom
    <2>4. adapter' = adapter
      BY <2>1 DEF machine
    <2>5. ~opt.raw => \E m \in ProbedFrom(Prepared)' : grab' = Post(m, adapter', opt'.x, opt'.y)
      BY <2>1, <2>2, <2>3, <2>4
    <2> QED
      BY <1>i, <2>1, <2>5 DEF Follows
  <1>5. CASE Exit
    <2>1. UNCHANGED machine /\ gpc' = "idle"
      BY <1>5 DEF Exit
    <2> QED
      BY <1>i, <2>1 DEF Follows
  <1>6. CASE Program
    <2>1. Inv'
      BY <1>6, InvStep DEF Program, Follows
    <2>2. gpc' = "idle" /\ ~adapter'.graphics
      BY <1>6 DEF Program
    <2> QED
      BY <2>1, <2>2 DEF Follows
  <1>7. CASE UNCHANGED gvars
    <2>1. UNCHANGED machine /\ opt' = opt /\ gpc' = gpc /\ grab' = grab
          /\ crtc' = crtc /\ adapter' = adapter
      BY <1>7 DEF gvars, machine
    <2>2. Prepared' = Prepared
      BY <1>p, <2>1
    <2>3. ProbedFrom(Prepared)' = ProbedFrom(Prepared)
      BY <2>2 DEF ProbedFrom
    <2> QED
      BY <1>i, <2>1, <2>2, <2>3 DEF Follows
  <1> QED
    BY <1>1, <1>2, <1>3, <1>4, <1>5, <1>6, <1>7 DEF GNext
-----------------------------------------------------------------------------
(* The size that is printed.                                               *)

\* -x: what the width that was found is divided by, and what is said.
LEMMA WidthStep ==
  ASSUME NEW g, Shape(g.m), g.m.h.active \in Int, NEW x \in Nat,
         NEW r, r = WithWidth(g, x),
         NEW ratio, ratio = (g.m.h.active * 100) \div x
  PROVE  /\ Shape(r.m) /\ r.m.v = g.m.v /\ r.m.flags = g.m.flags
         /\ g.m.remarks \subseteq r.m.remarks
         /\ \/ r = g /\ (x = 0 \/ Near(ratio, 100))
            \/ x # 0 /\ "PRESET_X_WRONG" \in r.m.remarks
            \/ x # 0 /\ \E n \in 2..4 : Near(ratio, 100 * n) /\ r.m.h = Div(g.m.h, n)
         /\ x # 0 /\ Near(ratio, 100) => r = g
  <1> DEFINE k == {n \in 1..4 : Near(ratio, 100 * n)}
             why(n) == CASE n = 2 -> IF Cga(g.m) /\ g.div = 2 THEN "CGA" ELSE "16BPP"
                         [] n = 3 -> "24BPP"
                         [] n = 4 -> "32BPP"
             n0 == CHOOSE i \in k : TRUE
             r1 == [m |-> Say(g.m, "PRESET_X_WRONG"), div |-> g.div]
             r2 == [m |-> Say(DivH(g.m, n0), why(n0)), div |-> g.div \div n0]
  <1>1. r = IF x = 0 \/ k = {1} THEN g ELSE IF k = {} THEN r1 ELSE r2
    BY DEF WithWidth
  <1>2. x # 0 => ratio \in Int
    OBVIOUS
  <1>3. x # 0 /\ Near(ratio, 100) => k = {1}
    BY <1>2 DEF Near
  <1>4. k = {1} => Near(ratio, 100)
    <2>1. k = {1} => 1 \in k
      OBVIOUS
    <2> QED
      BY <2>1
  <1>5. k # {} /\ k # {1} /\ x # 0 => n0 \in 2..4 /\ Near(ratio, 100 * n0)
    <2>1. k # {} => n0 \in k
      OBVIOUS
    <2>2. k # {1} /\ x # 0 => 1 \notin k
      BY <1>3
    <2> HIDE DEF n0
    <2> QED
      BY <2>1, <2>2
  <1> HIDE DEF k, n0, why
  <1>6. /\ r1.m = Say(g.m, "PRESET_X_WRONG") /\ r2.m = Say(DivH(g.m, n0), why(n0))
    OBVIOUS
  <1>7. Shape(DivH(g.m, n0)) /\ DivH(g.m, n0).remarks = g.m.remarks
        /\ DivH(g.m, n0).v = g.m.v /\ DivH(g.m, n0).h = Div(g.m.h, n0)
        /\ DivH(g.m, n0).flags = g.m.flags
    BY DEF Shape, Fields, DivH
  <1>8. ASSUME NEW m, Shape(m), NEW what
        PROVE  /\ Shape(Say(m, what)) /\ Say(m, what).remarks = m.remarks \cup {what}
               /\ Say(m, what).v = m.v /\ Say(m, what).h = m.h /\ Say(m, what).flags = m.flags
    BY <1>8 DEF Shape, Fields, Say
  <1>9. /\ Shape(r1.m) /\ r1.m.v = g.m.v /\ g.m.remarks \subseteq r1.m.remarks
        /\ "PRESET_X_WRONG" \in r1.m.remarks /\ r1.m.flags = g.m.flags
    BY <1>6, <1>8
  <1>10. /\ Shape(r2.m) /\ r2.m.v = g.m.v /\ g.m.remarks \subseteq r2.m.remarks
         /\ r2.m.h = Div(g.m.h, n0) /\ r2.m.flags = g.m.flags
    BY <1>6, <1>7, <1>8
  <1> HIDE DEF r1, r2
  <1> QED
    BY <1>1, <1>3, <1>4, <1>5, <1>9, <1>10

\* -y: half the lines, or what is said.
HeightDone(g, y, r) ==
  LET ratio == (g.m.v.active * 100) \div y
  IN  /\ Shape(r.m) /\ r.m.h = g.m.h /\ g.m.remarks \subseteq r.m.remarks
      /\ \/ r = g /\ (y = 0 \/ Near(ratio, 100))
         \/ y # 0 /\ "PRESET_Y_WRONG" \in r.m.remarks
         \/ y # 0 /\ Near(ratio, 50) /\ r.m.v = Mul(g.m.v, 2)
      /\ y # 0 /\ Near(ratio, 100) => r = g

LEMMA HeightStep ==
  ASSUME NEW g, Shape(g.m), NEW y \in Nat
  PROVE  HeightDone(g, y, WithHeight(g, y))
  <1> DEFINE ratio == (g.m.v.active * 100) \div y
             r == WithHeight(g, y)
  <1> DEFINE r1 == [m |-> Interlaced(g.m, "IS_INTERLACE"), div |-> g.div \div 2]
             r2 == [m |-> Say(g.m, "PRESET_Y_WRONG"), div |-> g.div]
  <1>1. r = IF y = 0 \/ Near(ratio, 100) THEN g ELSE IF Near(ratio, 50) THEN r1 ELSE r2
    BY DEF WithHeight
  <1>d. HeightDone(g, y, r) <=>
          /\ Shape(r.m) /\ r.m.h = g.m.h /\ g.m.remarks \subseteq r.m.remarks
          /\ \/ r = g /\ (y = 0 \/ Near(ratio, 100))
             \/ y # 0 /\ "PRESET_Y_WRONG" \in r.m.remarks
             \/ y # 0 /\ Near(ratio, 50) /\ r.m.v = Mul(g.m.v, 2)
          /\ y # 0 /\ Near(ratio, 100) => r = g
    BY Zenon DEF HeightDone
  <1> HIDE DEF ratio, r
  <1>2. /\ Shape(MulV(g.m, 2)) /\ MulV(g.m, 2).remarks = g.m.remarks
        /\ MulV(g.m, 2).h = g.m.h /\ MulV(g.m, 2).v = Mul(g.m.v, 2)
    BY DEF Shape, Fields, MulV
  <1>3. /\ Shape(Interlaced(g.m, "IS_INTERLACE"))
        /\ g.m.remarks \subseteq Interlaced(g.m, "IS_INTERLACE").remarks
        /\ Interlaced(g.m, "IS_INTERLACE").h = g.m.h
        /\ Interlaced(g.m, "IS_INTERLACE").v = Mul(g.m.v, 2)
    BY <1>2 DEF Shape, Fields, Interlaced
  <1>4. /\ Shape(Say(g.m, "PRESET_Y_WRONG")) /\ Say(g.m, "PRESET_Y_WRONG").h = g.m.h
        /\ Say(g.m, "PRESET_Y_WRONG").remarks = g.m.remarks \cup {"PRESET_Y_WRONG"}
    BY DEF Shape, Fields, Say
  <1>5. r1.m = Interlaced(g.m, "IS_INTERLACE") /\ r2.m = Say(g.m, "PRESET_Y_WRONG")
    OBVIOUS
  <1> HIDE DEF r1, r2
  <1> QED
    <2>1. HeightDone(g, y, r)
      BY <1>1, <1>3, <1>4, <1>5, <1>d
    <2> QED
      BY <2>1 DEF r

\* The guesses for a size that was not given keep those that were.
LEMMA GuessStep ==
  ASSUME NEW g, Shape(g.m), NEW x, NEW y,
         NEW r, r = GuessWidth(GuessHeight(g, y), x)
  PROVE  /\ Shape(r.m) /\ g.m.remarks \subseteq r.m.remarks
         /\ x # 0 => r.m.h = g.m.h
         /\ y # 0 => r.m.v = g.m.v
  <1> DEFINE i == [m |-> Interlaced(g.m, "INTERLACE"), div |-> g.div \div 2]
             e == GuessHeight(g, y)
  <1>1. /\ Shape(MulV(g.m, 2)) /\ MulV(g.m, 2).remarks = g.m.remarks /\ MulV(g.m, 2).h = g.m.h
    BY DEF Shape, Fields, MulV
  <1>2. /\ Shape(Interlaced(g.m, "INTERLACE")) /\ Interlaced(g.m, "INTERLACE").h = g.m.h
        /\ g.m.remarks \subseteq Interlaced(g.m, "INTERLACE").remarks
    BY <1>1 DEF Shape, Fields, Interlaced
  <1>3. i.m = Interlaced(g.m, "INTERLACE")
    OBVIOUS
  <1>4. e = i \/ e = g
    BY DEF GuessHeight
  <1>5. y # 0 => e = g
    BY DEF GuessHeight
  <1> HIDE DEF i
  <1>6. Shape(e.m) /\ e.m.h = g.m.h /\ g.m.remarks \subseteq e.m.remarks
    BY <1>2, <1>3, <1>4
  <1> HIDE DEF e
  <1> DEFINE why == IF Cga(e.m) THEN "GOLDENRATIO_X_CGA" ELSE "GOLDENRATIO_X_HICOLOR"
             w == [m |-> Say(DivH(e.m, 2), why), div |-> 1]
  <1>7. r = IF x = 0 /\ e.div = 2 THEN w ELSE e
    BY DEF GuessWidth, e
  <1> HIDE DEF why
  <1>8. Shape(DivH(e.m, 2)) /\ DivH(e.m, 2).v = e.m.v /\ DivH(e.m, 2).remarks = e.m.remarks
    BY <1>6 DEF Shape, Fields, DivH
  <1>9. Shape(Say(DivH(e.m, 2), why)) /\ Say(DivH(e.m, 2), why).v = e.m.v
        /\ e.m.remarks \subseteq Say(DivH(e.m, 2), why).remarks
    BY <1>8 DEF Shape, Fields, Say
  <1>10. w.m = Say(DivH(e.m, 2), why)
    OBVIOUS
  <1> HIDE DEF w
  <1> QED
    BY <1>5, <1>6, <1>7, <1>9, <1>10

\* A timing with a first number.
Sized(t) == "active" \in DOMAIN t /\ t.active \in Int

\* Undoing wraps takes the width as it was read, or makes it the given one.
LEMMA PreSize ==
  ASSUME NEW m, Shape(m), m.h \in Timing, m.v \in Timing, NEW x \in Nat, NEW y \in Nat,
         NEW r, r = Pre(m, x, y)
  PROVE  /\ Sized(r.h) /\ Sized(r.v)
         /\ r.h.active \in {m.h.active, x}
  <1> DEFINE vw   == WrapCheck(m.v, m.vb, "VTIM_MOD", "BAD_VSYNC_STOP")
             scan == IF "VERT_DOUBLE" \in m.flags THEN 2 ELSE 1
             v1   == Mul(vw.t, scan)
             vs   == PresetShift(v1, y)
             hw   == WrapCheck(m.h, m.hb, "HTIM_MOD", "BAD_HSYNC_STOP")
             hs   == PresetShift(hw.t, x)
             rs   == RatioShift(hw.t.active + hs, v1.active + vs)
  <1>1. /\ r.v = Shift(v1, vs + rs) /\ r.h = Shift(hw.t, hs)
    BY DEF Pre, Shape, Fields
  <1>2. ASSUME NEW t, Sized(t), NEW b, NEW p, NEW q
        PROVE  Sized(WrapCheck(t, b, p, q).t) /\ WrapCheck(t, b, p, q).t.active = t.active
    BY <1>2 DEF Sized, WrapCheck
  <1>3. Sized(m.h) /\ Sized(m.v)
    BY DEF Sized, Timing
  <1>4. Sized(vw.t) /\ Sized(hw.t) /\ hw.t.active = m.h.active
    BY <1>2, <1>3
  <1> HIDE DEF vw, hw
  <1>5. Sized(v1)
    BY <1>4 DEF Sized, Mul
  <1> HIDE DEF v1
  <1>6. vs \in Int /\ hs \in Int /\ (hs = 0 \/ hs = x - hw.t.active)
    BY <1>4, <1>5 DEF PresetShift, Sized
  <1> HIDE DEF vs, hs
  <1>7. rs \in Int
    <2>1. \A w, h \in Int : RatioShift(w, h) \in Int
      BY DEF RatioShift
    <2>2. hw.t.active + hs \in Int /\ v1.active + vs \in Int
      BY <1>4, <1>5, <1>6 DEF Sized
    <2> QED
      BY <2>1, <2>2
  <1> HIDE DEF rs
  <1>8. ASSUME NEW t, Sized(t), NEW n \in Int
        PROVE  Sized(Shift(t, n)) /\ Shift(t, n).active = t.active + n
    BY <1>8 DEF Sized, Shift
  <1>9. Sized(r.h) /\ r.h.active = hw.t.active + hs
    BY <1>1, <1>4, <1>6, <1>8
  <1>10. Sized(r.v)
    <2>1. vs + rs \in Int
      BY <1>6, <1>7
    <2> QED
      BY <1>1, <1>5, <1>8, <2>1
  <1>11. r.h.active \in {m.h.active, x}
    <2>1. m.h.active \in Int
      BY DEF Timing
    <2>2. \A a \in Int : a + (x - a) = x /\ a + 0 = a
      OBVIOUS
    <2> QED
      BY <1>4, <1>6, <1>9, <2>1, <2>2
  <1> QED
    BY <1>9, <1>10, <1>11

\* The division by how often a line is shown.
LEMMA ScansSize ==
  ASSUME NEW m, Shape(m), m.font \in 1..32, Sized(m.v), NEW r, r = DivV(m, Scans(m))
  PROVE  /\ Shape(r) /\ r.h = m.h /\ Sized(r.v) /\ r.flags = m.flags
         /\ r.remarks = m.remarks /\ r.v = Div(m.v, Scans(m))
  <1>1. Scans(m) \in Nat /\ Scans(m) # 0
    BY DEF Scans
  <1>2. /\ Shape(r) /\ r.h = m.h /\ r.flags = m.flags
        /\ r.remarks = m.remarks /\ r.v = Div(m.v, Scans(m))
    BY DEF Shape, Fields, DivV
  <1> DEFINE k == Scans(m)
  <1> HIDE DEF k
  <1>3. Sized(Div(m.v, k))
    <2>1. m.v.active \div k \in Int
      BY <1>1 DEF Sized, k
    <2> QED
      BY <2>1 DEF Sized, Div
  <1> QED
    BY <1>2, <1>3 DEF k

LEMMA ProbedKeeps ==
  ASSUME NEW m, Shape(m), NEW r \in ProbedFrom(m)
  PROVE  /\ Shape(r) /\ r.h = m.h /\ r.v = m.v /\ r.font = m.font /\ r.hshift = m.hshift
         /\ r.flags = m.flags
         /\ m.remarks \subseteq r.remarks /\ r.remarks \subseteq m.remarks \cup ProbeRemarks
  <1>1. PICK n \in {m.clock, (m.h.total \div 8) * m.v.total}, why \in SUBSET ProbeRemarks :
          r = Clocked(m, n, why)
    BY DEF ProbedFrom
  <1>2. r.remarks = m.remarks \cup why
    BY <1>1 DEF Shape, Fields, Clocked
  <1>3. /\ Shape(r) /\ r.h = m.h /\ r.v = m.v /\ r.font = m.font /\ r.hshift = m.hshift
        /\ r.flags = m.flags
    BY <1>1 DEF Shape, Fields, Clocked
  <1> QED
    BY <1>2, <1>3

LEMMA PreKeeps ==
  ASSUME NEW m, Shape(m), NEW x, NEW y
  PROVE  /\ Shape(Pre(m, x, y)) /\ Pre(m, x, y).font = m.font
         /\ Pre(m, x, y).hshift = m.hshift /\ Pre(m, x, y).flags = m.flags
         /\ m.remarks \subseteq Pre(m, x, y).remarks
  <1> DEFINE vw   == WrapCheck(m.v, m.vb, "VTIM_MOD", "BAD_VSYNC_STOP")
             scan == IF "VERT_DOUBLE" \in m.flags THEN 2 ELSE 1
             v1   == Mul(vw.t, scan)
             vs   == PresetShift(v1, y)
             hw   == WrapCheck(m.h, m.hb, "HTIM_MOD", "BAD_HSYNC_STOP")
             hs   == PresetShift(hw.t, x)
             rs   == RatioShift(hw.t.active + hs, v1.active + vs)
             says == m.remarks \cup vw.remarks \cup hw.remarks
                     \cup (IF vs # 0 THEN {"PRESET_VTIM_MOD"} ELSE {})
                     \cup (IF hs # 0 THEN {"PRESET_HTIM_MOD"} ELSE {})
                     \cup (IF rs # 0 THEN {"Y_WRAP_COMPENSATE"} ELSE {})
             r == Pre(m, x, y)
  <1>1. r = [m EXCEPT !.v = Shift(v1, vs + rs), !.vb = Mul(vw.b, scan),
                      !.h = Shift(hw.t, hs), !.hb = hw.b, !.remarks = says]
    BY DEF Pre
  <1>2. m.remarks \subseteq says
    OBVIOUS
  <1> HIDE DEF vw, scan, v1, vs, hw, hs, rs, says, r
  <1>3. /\ Shape(r) /\ r.font = m.font /\ r.hshift = m.hshift /\ r.flags = m.flags
        /\ r.remarks = says
    BY <1>1 DEF Shape, Fields
  <1> QED
    BY <1>2, <1>3 DEF r

\* A quotient lies between two numbers when the dividend lies between their products.
LEMMA QuotientBounds ==
  ASSUME NEW a \in Int, NEW x \in Nat, x # 0, NEW lo \in Int, NEW hi \in Int
  PROVE  a \div x \in lo..hi <=> lo * x <= a /\ a < (hi + 1) * x
  <1> DEFINE q == a \div x
  <1>1. q \in Int /\ x * q <= a /\ a < x * q + x
    BY SMTT(30)
  <1> HIDE DEF q
  <1>2. \A i \in Int, j \in Int : i <= j => i * x <= j * x
    BY SMTT(30)
  <1>3. x * q + x = (q + 1) * x /\ x * q = q * x
    BY <1>1
  <1>4. lo <= q => lo * x <= a
    BY <1>1, <1>2, <1>3
  <1>5. q <= hi => a < (hi + 1) * x
    <2>1. q <= hi => (q + 1) * x <= (hi + 1) * x
      BY <1>1, <1>2
    <2> QED
      BY <1>1, <1>3, <2>1
  <1>6. lo * x <= a => lo <= q
    <2>1. q + 1 <= lo => (q + 1) * x <= lo * x
      BY <1>1, <1>2
    <2> QED
      BY <1>1, <1>3, <2>1
  <1>7. a < (hi + 1) * x => q <= hi
    <2>1. hi + 1 <= q => (hi + 1) * x <= q * x
      BY <1>1, <1>2
    <2> QED
      BY <1>1, <1>3, <2>1
  <1> QED
    BY <1>1, <1>4, <1>5, <1>6, <1>7 DEF q

\* Three per cent.
LEMMA WidthExact ==
  ASSUME NEW a \in Int, NEW x \in Nat, x # 0, \E b \in Int : a = 8 * b,
         NEW n \in 2..4, Near((a * 100) \div x, 100 * n)
  PROVE  ((a \div n) * 100) \div x \in 97..103
  <1>0. \A c \in Int, lo \in Int, hi \in Int : c \div x \in lo..hi <=> lo * x <= c /\ c < (hi + 1) * x
    BY QuotientBounds
  <1>1. PICK b \in Int : a = 8 * b
    OBVIOUS
  <1>2. (a * 100) \div x \in (100 * n - 1)..(100 * n + 1)
    BY DEF Near
  <1>3. SUFFICES 97 * x <= (a \div n) * 100 /\ (a \div n) * 100 < 104 * x
    <2>1. (a \div n) * 100 \in Int
      OBVIOUS
    <2> QED
      BY <1>0, <2>1
  <1>5. CASE n = 2
    <2>1. 199 * x <= a * 100 /\ a * 100 < 202 * x
      <3>1. (a * 100) \div x \in 199..201
        BY <1>2, <1>5
      <3> QED
        BY <1>0, <3>1
    <2> QED
      BY <1>1, <1>5, <2>1
  <1>6. CASE n = 3
    <2>1. 299 * x <= a * 100 /\ a * 100 < 302 * x
      <3>1. (a * 100) \div x \in 299..301
        BY <1>2, <1>6
      <3> QED
        BY <1>0, <3>1
    <2>2. 3 * (a \div 3) <= a /\ a <= 3 * (a \div 3) + 2 /\ a \div 3 \in Int
      OBVIOUS
    <2>3. CASE x >= 25
      BY <1>6, <2>1, <2>2, <2>3
    <2>4. CASE x < 25
      <3>1. a = 3 * x
        BY <1>1, <2>1, <2>4
      <3> QED
        BY <1>6, <3>1
    <2> QED
      BY <2>3, <2>4
  <1>7. CASE n = 4
    <2>1. 399 * x <= a * 100 /\ a * 100 < 402 * x
      <3>1. (a * 100) \div x \in 399..401
        BY <1>2, <1>7
      <3> QED
        BY <1>0, <3>1
    <2> QED
      BY <1>1, <1>7, <2>1
  <1> QED
    BY <1>5, <1>6, <1>7

LEMMA HeightDoubled ==
  ASSUME NEW a \in Int, NEW y \in Nat, y # 0, Near((a * 100) \div y, 50)
  PROVE  ((a * 2) * 100) \div y \in 97..103
  <1>1. \A c \in Int, lo \in Int, hi \in Int : c \div y \in lo..hi <=> lo * y <= c /\ c < (hi + 1) * y
    BY QuotientBounds
  <1>2. (a * 100) \div y \in 49..51
    BY DEF Near
  <1>3. 49 * y <= a * 100 /\ a * 100 < 52 * y
    BY <1>1, <1>2
  <1>4. 97 * y <= (a * 2) * 100 /\ (a * 2) * 100 < 104 * y
    BY <1>3
  <1> QED
    BY <1>1, <1>4

\* The width and height that are left after the guessing: when they were given,
\* they are those, or a remark says that they are not.
LEMMA PostSize ==
  ASSUME NEW m, Shape(m), m.font \in 1..32, Sized(m.h), Sized(m.v),
         NEW a, NEW x \in Nat, NEW y \in Nat,
         m.h.active = x \/ \E b \in Int : m.h.active = 8 * b,
         NEW r, r = Post(m, a, x, y)
  PROVE  /\ \/ x = 0 \/ "PRESET_X_WRONG" \in r.remarks
            \/ (r.h.active * 100) \div x \in 97..103
         /\ \/ y = 0 \/ "PRESET_Y_WRONG" \in r.remarks
            \/ (r.v.active * 100) \div y \in 97..103
  <1> DEFINE m1 == DivV(m, Scans(m))
             g0 == [m |-> m1, div |-> RatioDiv(m1)]
             ga == WithWidth(g0, x)
             g1 == WithHeight(ga, y)
             g2 == GuessWidth(GuessHeight(g1, y), x)
             wratio == (m1.h.active * 100) \div x
             hratio == (ga.m.v.active * 100) \div y
  <1>1. r = IF ~(a.graphics /\ g1.div > 1) THEN g1.m
            ELSE IF g2.div > 1 THEN Say(g2.m, "WEIRD") ELSE g2.m
    BY DEF Post
  <1>2. Shape(m1) /\ m1.h = m.h /\ Sized(m1.v)
    BY ScansSize
  <1>3. g0.m = m1
    OBVIOUS
  <1> HIDE DEF m1, g0
  <1>4. m1.h.active \in Int
    BY <1>2 DEF Sized
  <1>5. /\ Shape(ga.m) /\ ga.m.v = m1.v
        /\ \/ ga = g0 /\ (x = 0 \/ Near(wratio, 100))
           \/ x # 0 /\ "PRESET_X_WRONG" \in ga.m.remarks
           \/ x # 0 /\ \E n \in 2..4 : Near(wratio, 100 * n) /\ ga.m.h = Div(m1.h, n)
        /\ x # 0 /\ Near(wratio, 100) => ga = g0
    BY <1>2, <1>3, <1>4, WidthStep
  <1> HIDE DEF ga
  <1>h. g1 = WithHeight(ga, y) /\ hratio = (ga.m.v.active * 100) \div y
    OBVIOUS
  <1> HIDE DEF g1, hratio
  <1>6. /\ Shape(g1.m) /\ g1.m.h = ga.m.h /\ ga.m.remarks \subseteq g1.m.remarks
        /\ \/ g1 = ga /\ (y = 0 \/ Near(hratio, 100))
           \/ y # 0 /\ "PRESET_Y_WRONG" \in g1.m.remarks
           \/ y # 0 /\ Near(hratio, 50) /\ g1.m.v = Mul(ga.m.v, 2)
    <2>1. HeightDone(ga, y, g1)
      BY <1>5, <1>h, HeightStep
    <2> QED
      BY <1>h, <2>1 DEF HeightDone
  <1>7. /\ Shape(g2.m) /\ g1.m.remarks \subseteq g2.m.remarks
        /\ x # 0 => g2.m.h = g1.m.h
        /\ y # 0 => g2.m.v = g1.m.v
    BY <1>6, GuessStep
  <1> HIDE DEF g2
  <1>8. /\ g1.m.remarks \subseteq r.remarks
        /\ x # 0 => r.h = g1.m.h
        /\ y # 0 => r.v = g1.m.v
    <2>1. /\ g2.m.remarks \subseteq Say(g2.m, "WEIRD").remarks
          /\ Say(g2.m, "WEIRD").h = g2.m.h /\ Say(g2.m, "WEIRD").v = g2.m.v
      BY <1>7 DEF Shape, Fields, Say
    <2> QED
      BY <1>1, <1>7, <2>1
  <1>9. \/ x = 0 \/ "PRESET_X_WRONG" \in r.remarks
        \/ (r.h.active * 100) \div x \in 97..103
    <2> SUFFICES ASSUME x # 0, "PRESET_X_WRONG" \notin r.remarks
                 PROVE  (r.h.active * 100) \div x \in 97..103
      OBVIOUS
    <2>1. r.h = ga.m.h /\ "PRESET_X_WRONG" \notin ga.m.remarks
      BY <1>6, <1>8
    <2>2. CASE ga = g0 /\ Near(wratio, 100)
      <3>1. r.h.active = m1.h.active
        BY <1>3, <2>1, <2>2
      <3> QED
        BY <2>2, <3>1 DEF Near
    <2>3. CASE ~Near(wratio, 100) /\ \E n \in 2..4 : Near(wratio, 100 * n) /\ ga.m.h = Div(m1.h, n)
      <3>1. PICK n \in 2..4 : Near(wratio, 100 * n) /\ ga.m.h = Div(m1.h, n)
        BY <2>3
      <3>2. r.h.active = m1.h.active \div n
        BY <1>2, <2>1, <3>1 DEF Div, Sized
      <3>3. \E b \in Int : m1.h.active = 8 * b
        <4>1. m1.h.active = x => wratio = 100
          <5>1. (x * 100) \div x \in 100..100
            BY QuotientBounds
          <5> QED
            BY <5>1
        <4>2. m1.h.active # x
          BY <2>3, <4>1 DEF Near
        <4> QED
          BY <1>2, <4>2
      <3> DEFINE w == m1.h.active
      <3>4. w \in Int /\ Near((w * 100) \div x, 100 * n) /\ \E b \in Int : w = 8 * b
        BY <1>4, <3>1, <3>3
      <3> HIDE DEF w
      <3>5. ((w \div n) * 100) \div x \in 97..103
        BY <3>4, WidthExact
      <3> QED
        BY <3>2, <3>5 DEF w
    <2> QED
      BY <1>5, <2>1, <2>2, <2>3
  <1>10. \/ y = 0 \/ "PRESET_Y_WRONG" \in r.remarks
         \/ (r.v.active * 100) \div y \in 97..103
    <2> SUFFICES ASSUME y # 0, "PRESET_Y_WRONG" \notin r.remarks
                 PROVE  (r.v.active * 100) \div y \in 97..103
      OBVIOUS
    <2>1. r.v = g1.m.v /\ "PRESET_Y_WRONG" \notin g1.m.remarks /\ Sized(ga.m.v)
      BY <1>2, <1>5, <1>8
    <2>2. CASE g1 = ga /\ Near(hratio, 100)
      <3>1. r.v.active = ga.m.v.active
        BY <2>1, <2>2
      <3> QED
        BY <1>h, <2>2, <3>1 DEF Near
    <2>3. CASE Near(hratio, 50) /\ g1.m.v = Mul(ga.m.v, 2)
      <3>1. r.v.active = ga.m.v.active * 2 /\ ga.m.v.active \in Int
        BY <2>1, <2>3 DEF Mul, Sized
      <3>2. ((ga.m.v.active * 2) * 100) \div y \in 97..103
        BY <1>h, <2>3, <3>1, HeightDoubled
      <3> QED
        BY <3>1, <3>2
    <2> QED
      BY <1>6, <2>1, <2>2, <2>3
  <1> QED
    BY <1>9, <1>10

\* A width read from the registers is one of characters.
LEMMA WidthInCharacters ==
  ASSUME NEW c \in Regs, NEW a
  PROVE  \E b \in Int : ReadMode(c, a).h.active = 8 * b
  <1> DEFINE b == GetHorDisplEnd(c)
  <1>1. b \in Int
    BY GettersInt
  <1>2. ReadMode(c, a).h.active = b * 8
    BY DEF ReadMode, Mul
  <1> HIDE DEF b
  <1>3. b * 8 = 8 * b
    BY <1>1
  <1> QED
    BY <1>1, <1>2, <1>3

LEMMA SizeHonoured == Follows => PresetHonoured
  <1> SUFFICES ASSUME Follows, gpc = "print", ~opt.raw PROVE PresetHonoured
    BY DEF PresetHonoured
  <1> DEFINE c == ReadMode(crtc, adapter)
             x == opt.x
             y == opt.y
             p == Pre(c, x, y)
  <1>1. PICK m \in ProbedFrom(Prepared) : grab = Post(m, adapter, x, y)
    BY DEF Follows
  <1>2. Prepared = p /\ x \in Nat /\ y \in Nat
    BY DEF Prepared, Follows
  <1>3. crtc \in Regs
    BY DEF Follows, Inv, TypeOK, Regs
  <1>4. /\ Shape(c) /\ c.font \in 1..32 /\ c.h \in Timing /\ c.v \in Timing
        /\ \E b \in Int : c.h.active = 8 * b
    BY <1>3, ReadModeType, WidthInCharacters
  <1> HIDE DEF c, x, y
  <1>5. /\ Sized(p.h) /\ Sized(p.v) /\ p.h.active \in {c.h.active, x}
        /\ Shape(p) /\ p.font \in 1..32
    <2>1. Sized(p.h) /\ Sized(p.v) /\ p.h.active \in {c.h.active, x}
      BY <1>2, <1>4, PreSize
    <2>2. Shape(p) /\ p.font = c.font
      BY <1>4, PreKeeps
    <2> QED
      BY <1>4, <2>1, <2>2
  <1> HIDE DEF p
  <1>6. Shape(m) /\ m.h = p.h /\ m.v = p.v /\ m.font = p.font
    BY <1>1, <1>2, <1>5, ProbedKeeps
  <1>7. m.h.active = x \/ \E b \in Int : m.h.active = 8 * b
    BY <1>4, <1>5, <1>6
  <1> QED
    BY <1>1, <1>2, <1>5, <1>6, <1>7, PostSize DEF PresetHonoured, x, y

\* The mode that grabmode reads from the registers is the one of the run.
Twice(on) == IF on THEN 2 ELSE 1
Programmed(m, g) ==
  /\ m.h.active = 8 * H(g).active /\ m.h.start = 8 * H(g).start
  /\ m.h.stop = 8 * H(g).stop /\ m.h.total = 8 * H(g).total
  /\ m.v.active = V(g).active /\ m.v.start = V(g).start
  /\ m.v.stop = V(g).stop /\ m.v.total = V(g).total
  /\ m.font = g.fontHeight /\ m.hshift = g.hshift
  /\ "DOUBLESCAN" \in m.flags <=> g.dscan
  /\ "VERT_DOUBLE" \in m.flags <=> VertDouble(g)
  /\ "MULTISCAN" \notin m.flags
  /\ m.vb.start \in Int /\ m.vb.stop \in Int /\ m.vb.start <= m.vb.stop
  /\ m.hb.start \in Int /\ m.hb.stop \in Int
  /\ H(g).stop < H(g).total => m.hb.start <= m.hb.stop
  /\ m.remarks = {}

LEMMA FlagsOfText ==
  ASSUME NEW c, NEW a, ~a.graphics
  PROVE  /\ "DOUBLESCAN" \in Flags(c, a) <=> Bit(c[9], 128) = 1
         /\ "VERT_DOUBLE" \in Flags(c, a) <=> Bit(c[23], 4) = 1
         /\ "MULTISCAN" \notin Flags(c, a)
  BY DEF Flags, Flag

LEMMA BlankEndBack ==
  ASSUME NEW start \in Nat, NEW stop \in Nat, start <= stop
  PROVE  /\ stop < start + 64 => EndCalc(start, stop % 64, 64) = stop
         /\ stop < start + 256 => EndCalc(start, stop % 256, 256) = stop
  BY SMTT(60) DEF EndCalc

\* The numbers read, from what the getters say.
LEMMA ReadAs ==
  ASSUME NEW c, NEW a
  PROVE  LET m == ReadMode(c, a)
         IN  /\ m.h.active = GetHorDisplEnd(c) * 8 /\ m.h.start = GetHSyncStart(c) * 8
             /\ m.h.stop = GetHSyncEnd(c) * 8 /\ m.h.total = GetHorTotal(c) * 8
             /\ m.v.active = GetVertDisplEnd(c) /\ m.v.start = GetVRetraceStart(c)
             /\ m.v.stop = GetVRetraceEnd(c) /\ m.v.total = GetVertTotal(c)
             /\ m.font = GetMaxScanline(c) /\ m.hshift = GetHorizShift(c)
             /\ m.flags = Flags(c, a) /\ m.remarks = {}
             /\ m.hb.start = GetHBlankStart(c) * 8 /\ m.hb.stop = GetHBlankEnd(c) * 8
             /\ m.vb.start = GetVBlankStart(c) /\ m.vb.stop = GetVBlankEnd(c)
  BY DEF ReadMode, Mul

\* A blanking that may not touch the total ends before it.
LEMMA BlankInside ==
  ASSUME NEW t, InOrder(t), t.stop < t.total, NEW border \in Nat, border > 0, NEW limit \in Nat
  PROVE  Blank(t, border, limit).stop < t.total
  <1> DEFINE active == t.active
             start == t.start
             stop == t.stop
             total == t.total
             from == MinOf(start, active + border)
             to == MaxOf(stop, total - border)
  <1>1. active \in Int /\ start \in Int /\ stop \in Int /\ total \in Int /\ stop < total
    BY DEF InOrder
  <1>2. Blank(t, border, limit).stop = MinOf(to, from + limit)
    BY DEF Blank
  <1> HIDE DEF active, start, stop, total
  <1>3. from \in Int /\ to \in Int /\ to < total
    BY <1>1 DEF MinOf, MaxOf
  <1> HIDE DEF from, to
  <1>4. MinOf(to, from + limit) < total
    BY <1>1, <1>3 DEF MinOf
  <1> QED
    BY <1>2, <1>4 DEF total

\* Where the blanking of the lines and of the screen ends.
LEMMA BlankEndsRead ==
  ASSUME Inv, Done, ~BiosMode
  PROVE  /\ GetVBlankStart(crtc) \in Int /\ GetVBlankEnd(crtc) \in Int
         /\ GetVBlankStart(crtc) <= GetVBlankEnd(crtc)
         /\ GetHBlankStart(crtc) \in Int /\ GetHBlankEnd(crtc) \in Int
         /\ H(mode).stop < H(mode).total => GetHBlankStart(crtc) <= GetHBlankEnd(crtc)
  <1>1. /\ pc = "done" /\ Rows(mode) > 0 /\ H(mode).total >= 5
        /\ H(mode).stop - H(mode).start \in 1..31 /\ V(mode).stop - V(mode).start \in 1..15
    BY DEF Done, Fits
  <1>2. mode \in ModeLine /\ Accepted(mode)
    BY <1>1, ModesAssumption, Set80IsModeLine DEF Inv, TypeOK, OnPath
  <1>3. InOrder(V(mode)) /\ V(mode).active > 0 /\ InOrder(H(mode)) /\ H(mode).active >= 2
    BY <1>1, <1>2, VerticalBounds, HorizontalBounds
  <1>4. Blanks(VBlank(mode), V(mode), 8, 127) /\ Blanks(HBlank(mode), H(mode), 1, 63)
    BY <1>3, BlankBounds DEF VBlank, HBlank
  <1>5. /\ GetVBlankStart(crtc) \in Int /\ GetVBlankEnd(crtc) \in Int
        /\ GetVBlankStart(crtc) <= GetVBlankEnd(crtc)
    <2> DEFINE from == VBlank(mode).start
               to == VBlank(mode).stop
               from1 == from - 1
    <2>1. from \in Int /\ to \in Int /\ 0 < from /\ from <= to /\ to <= from + 127
      BY <1>3, <1>4 DEF Blanks, InOrder
    <2>2. GetVBlankStart(crtc) = from /\ crtc[22] = to % 256
      BY <1>1, VerticalRead
    <2> HIDE DEF from, to
    <2>3. from1 \in Nat /\ to \in Nat /\ from1 <= to /\ to < from1 + 256
      BY <2>1
    <2> HIDE DEF from1
    <2>4. EndCalc(from1, to % 256, 256) = to
      BY <2>3, BlankEndBack
    <2>5. GetVBlankEnd(crtc) = to
      BY <2>2, <2>4 DEF GetVBlankEnd, from1
    <2> QED
      BY <2>1, <2>2, <2>5
  <1>6. /\ GetHBlankStart(crtc) \in Int /\ GetHBlankEnd(crtc) \in Int
        /\ H(mode).stop < H(mode).total => GetHBlankStart(crtc) <= GetHBlankEnd(crtc)
    <2> DEFINE from == HBlank(mode).start
               to == HBlank(mode).stop
               to1 == to - 1
               total == H(mode).total
               x == crtc[3] % 32
               y == 32 * Bit(crtc[5], 128)
               z == crtc[2]
               end == x + y
    <2>1. /\ from \in Int /\ to \in Int /\ 0 < from /\ from < to /\ to <= from + 63
          /\ total \in Int
      <3>1. /\ from \in Int /\ to \in Int /\ from >= H(mode).active /\ from <= H(mode).start
            /\ to <= from + 63 /\ (to = from + 63 \/ to >= H(mode).stop)
        BY <1>4 DEF Blanks
      <3>2. H(mode).start < H(mode).stop /\ H(mode).active > 0 /\ H(mode).active \in Int
            /\ H(mode).start \in Int /\ H(mode).stop \in Int /\ total \in Int
        BY <1>1, <1>3 DEF InOrder
      <3> HIDE DEF from, to
      <3> QED
        BY <3>1, <3>2
    <2>2. /\ GetHBlankStart(crtc) = from /\ GetHorTotal(crtc) = total
          /\ (x + (y - z)) % 64 = to - from
      <3>1. GetHBlankStart(crtc) = from
        BY <1>1, HorizontalRead
      <3>2. GetHorTotal(crtc) = total
        BY <1>1, HorizontalRead
      <3>3. (x + (y - z)) % 64 = to - from
        <4>1. ((crtc[3] % 32) + 32 * Bit(crtc[5], 128) - crtc[2]) % 64
                = HBlank(mode).stop - HBlank(mode).start
          BY <1>1, HorizontalRead, Zenon
        <4> QED
          BY <4>1
      <3> QED
        BY <3>1, <3>2, <3>3
    <2>3. z = from - 1 /\ x \in 0..31 /\ y \in {0, 32} /\ z \in Int
      <3>1. crtc[2] \in Byte /\ crtc[3] \in Byte /\ crtc[5] \in Byte
        BY DEF Inv, TypeOK, Reg
      <3>2. Bit(crtc[5], 128) \in 0..1
        <4>1. crtc[5] \in Int
          BY <3>1 DEF Byte
        <4> QED
          BY <4>1, BitType
      <3>3. z + 1 = from /\ z \in Int
        BY <2>2, <3>1 DEF GetHBlankStart, Byte
      <3> QED
        BY <2>1, <3>1, <3>2, <3>3 DEF Byte
    <2>4. total > to => to < total
      BY <2>1
    <2>5. GetHBlankEnd(crtc) = IF EndCalc(from, end, 64) + 1 < total
                               THEN EndCalc(from, end, 64) + 1 ELSE end + 1
      BY <2>2 DEF GetHBlankEnd
    <2> HIDE DEF from, to, total, x, y, z
    <2>6. end = to1 % 64 /\ end \in Int
      <3>1. end \in 0..63
        BY <2>3
      <3>2. x + (y - z) = (end + 1) - from
        BY <2>1, <2>3
      <3> HIDE DEF end
      <3>3. ((end + 1) - from) % 64 = to - from
        BY <2>2, <3>2
      <3> QED
        BY <2>1, <3>1, <3>3
    <2> HIDE DEF end
    <2>7. EndCalc(from, end, 64) = to1
      <3>1. from \in Nat /\ to1 \in Nat /\ from <= to1 /\ to1 < from + 64
        BY <2>1
      <3> HIDE DEF to1
      <3> QED
        BY <2>6, <3>1, BlankEndBack
    <2>8. GetHBlankEnd(crtc) = IF to < total THEN to ELSE end + 1
      BY <2>1, <2>5, <2>7
    <2>9. H(mode).stop < H(mode).total => to < total
      BY <1>3, BlankInside DEF HBlank, to, total
    <2> QED
      BY <2>1, <2>2, <2>6, <2>8, <2>9
  <1> QED
    BY <1>5, <1>6

\* What getmode makes of the registers at the end of a run.
LEMMA OwnModeRead ==
  ASSUME Inv, Done, ~set80 \/ force, ~adapter.graphics
  PROVE  Programmed(ReadMode(crtc, adapter), mode)
  <1> DEFINE m == ReadMode(crtc, adapter)
  <1>1. /\ pc = "done" /\ Rows(mode) > 0 /\ H(mode).total >= 5
        /\ H(mode).stop - H(mode).start \in 1..31 /\ V(mode).stop - V(mode).start \in 1..15
    BY DEF Done, Fits
  <1>2. mode \in ModeLine /\ Accepted(mode)
    BY <1>1, ModesAssumption, Set80IsModeLine DEF Inv, TypeOK, OnPath
  <1>3. /\ GetVertTotal(crtc) = V(mode).total /\ GetVertDisplEnd(crtc) = V(mode).active
        /\ GetVRetraceStart(crtc) = V(mode).start /\ GetVRetraceEnd(crtc) = V(mode).stop
        /\ GetHorTotal(crtc) = H(mode).total /\ GetHorDisplEnd(crtc) = H(mode).active
        /\ GetHSyncStart(crtc) = H(mode).start /\ GetHSyncEnd(crtc) = H(mode).stop
        /\ GetHorizShift(crtc) = mode.hshift
    <2>1. /\ GetVertTotal(crtc) = V(mode).total /\ GetVertDisplEnd(crtc) = V(mode).active
          /\ GetVRetraceStart(crtc) = V(mode).start /\ GetVRetraceEnd(crtc) = V(mode).stop
          /\ GetHorTotal(crtc) = H(mode).total /\ GetHorDisplEnd(crtc) = H(mode).active
          /\ GetHSyncStart(crtc) = H(mode).start % 256
          /\ GetHSyncEnd(crtc) - GetHSyncStart(crtc) = H(mode).stop - H(mode).start
          /\ GetHorizShift(crtc) = mode.hshift
      BY ReadBack DEF TimingsReadBack
    <2> DEFINE s == H(mode).start
               e == H(mode).stop
    <2>2. s \in Int /\ e \in Int /\ s >= 2 /\ s < e /\ e <= 256
      BY <1>1, <1>2, HorizontalBounds DEF InOrder
    <2>3. GetHSyncEnd(crtc) \in Int
      BY GettersInt DEF Inv, TypeOK, Regs
    <2>4. GetHSyncStart(crtc) = s % 256 /\ GetHSyncEnd(crtc) - GetHSyncStart(crtc) = e - s
      BY <2>1
    <2> HIDE DEF s, e
    <2>5. s % 256 = s
      BY <2>2
    <2>6. GetHSyncStart(crtc) = s /\ GetHSyncEnd(crtc) = e
      BY <2>2, <2>3, <2>4, <2>5
    <2> QED
      BY <2>1, <2>6 DEF s, e
  <1>4. /\ GetMaxScanline(crtc) = mode.fontHeight
        /\ Bit(crtc[23], 4) = IF VertDouble(mode) THEN 1 ELSE 0
        /\ Bit(crtc[9], 128) = IF mode.dscan THEN 1 ELSE 0
        /\ GetVBlankStart(crtc) \in Int /\ GetVBlankEnd(crtc) \in Int
        /\ GetVBlankStart(crtc) <= GetVBlankEnd(crtc)
        /\ GetHBlankStart(crtc) \in Int /\ GetHBlankEnd(crtc) \in Int
        /\ H(mode).stop < H(mode).total => GetHBlankStart(crtc) <= GetHBlankEnd(crtc)
    <2>1. CASE ~BiosMode
      <3>1. ~set80
        BY <1>1, <2>1 DEF BiosMode
      <3>2. /\ GetMaxScanline(crtc) = mode.fontHeight
            /\ Bit(crtc[23], 4) = IF VertDouble(mode) THEN 1 ELSE 0
        BY <1>1, <2>1, VerticalRead
      <3>3. Bit(crtc[9], 128) = IF mode.dscan THEN 1 ELSE 0
        BY <1>1, <2>1, <3>1, AtTheEnd DEF Show, Want
      <3>4. /\ GetVBlankStart(crtc) \in Int /\ GetVBlankEnd(crtc) \in Int
            /\ GetVBlankStart(crtc) <= GetVBlankEnd(crtc)
            /\ GetHBlankStart(crtc) \in Int /\ GetHBlankEnd(crtc) \in Int
            /\ H(mode).stop < H(mode).total => GetHBlankStart(crtc) <= GetHBlankEnd(crtc)
        BY <2>1, BlankEndsRead
      <3> QED
        BY <3>2, <3>3, <3>4
    <2>2. CASE BiosMode
      <3>1. /\ Bit(31, 8) = 1 /\ Bit(79, 32) = 0 /\ Bit(129, 128) = 1
            /\ Bit(79, 128) = 0 /\ Bit(163, 4) = 0
        BY DEF Bit
      <3>2. mode = Set80Line /\ mode.fontHeight = 16 /\ mode.dscan = FALSE /\ ~VertDouble(mode)
        <4>1. mode = Set80Line /\ ~VertDouble(mode)
          BY <2>2, BiosRegisters, Set80Timings
        <4>2. Set80Line.fontHeight = 16 /\ Set80Line.dscan = FALSE
          BY DEF Set80Line
        <4> QED
          BY <4>1, <4>2
      <3>3. /\ GetVBlankStart(crtc) = 406 /\ GetHBlankStart(crtc) = 81 /\ GetHorTotal(crtc) = 100
        BY <2>2, <3>1, BiosRegisters DEF GetVBlankStart, GetHBlankStart, GetHorTotal
      <3>4. GetVBlankEnd(crtc) = 441
        BY <2>2, <3>3, BiosRegisters DEF GetVBlankEnd, EndCalc
      <3>5. GetHBlankEnd(crtc) = 99
        <4>1. (crtc[3] % 32) + 32 * Bit(crtc[5], 128) = 34
          BY <2>2, <3>1, BiosRegisters
        <4>2. EndCalc(81, 34, 64) = 98
          BY DEF EndCalc
        <4> QED
          BY <3>3, <4>1, <4>2 DEF GetHBlankEnd
      <3>6. GetMaxScanline(crtc) = 16
        BY <2>2, BiosRegisters DEF GetMaxScanline
      <3> QED
        BY <2>2, <3>1, <3>2, <3>3, <3>4, <3>5, <3>6, BiosRegisters
    <2> QED
      BY <2>1, <2>2
  <1>5. /\ "DOUBLESCAN" \in m.flags <=> mode.dscan
        /\ "VERT_DOUBLE" \in m.flags <=> VertDouble(mode)
        /\ "MULTISCAN" \notin m.flags
    <2>1. mode.dscan \in BOOLEAN /\ VertDouble(mode) \in BOOLEAN
      BY <1>2 DEF ModeLine, VertDouble
    <2>2. m.flags = Flags(crtc, adapter)
      BY ReadAs
    <2>3. /\ "DOUBLESCAN" \in m.flags <=> Bit(crtc[9], 128) = 1
          /\ "VERT_DOUBLE" \in m.flags <=> Bit(crtc[23], 4) = 1
          /\ "MULTISCAN" \notin m.flags
      BY <2>2, FlagsOfText
    <2>4. Bit(crtc[9], 128) = 1 <=> mode.dscan
      BY <1>4, <2>1
    <2>5. Bit(crtc[23], 4) = 1 <=> VertDouble(mode)
      BY <1>4, <2>1
    <2> QED
      BY <2>3, <2>4, <2>5
  <1>6. /\ m.h.active = GetHorDisplEnd(crtc) * 8 /\ m.h.start = GetHSyncStart(crtc) * 8
        /\ m.h.stop = GetHSyncEnd(crtc) * 8 /\ m.h.total = GetHorTotal(crtc) * 8
        /\ m.hb.start = GetHBlankStart(crtc) * 8 /\ m.hb.stop = GetHBlankEnd(crtc) * 8
        /\ m.vb.start = GetVBlankStart(crtc) /\ m.vb.stop = GetVBlankEnd(crtc)
        /\ m.v.active = GetVertDisplEnd(crtc) /\ m.v.start = GetVRetraceStart(crtc)
        /\ m.v.stop = GetVRetraceEnd(crtc) /\ m.v.total = GetVertTotal(crtc)
        /\ m.font = GetMaxScanline(crtc) /\ m.hshift = GetHorizShift(crtc) /\ m.remarks = {}
    BY ReadAs
  <1> HIDE DEF m
  <1>7. /\ m.h.active = 8 * H(mode).active /\ m.h.start = 8 * H(mode).start
        /\ m.h.stop = 8 * H(mode).stop /\ m.h.total = 8 * H(mode).total
    <2>1. \A n \in Int : n * 8 = 8 * n
      OBVIOUS
    <2>2. /\ H(mode).active \in Int /\ H(mode).start \in Int
          /\ H(mode).stop \in Int /\ H(mode).total \in Int
      BY <1>2, HorizontalBounds DEF InOrder
    <2> QED
      BY <1>3, <1>6, <2>1, <2>2
  <1>8. /\ m.hb.start \in Int /\ m.hb.stop \in Int
        /\ H(mode).stop < H(mode).total => m.hb.start <= m.hb.stop
    BY <1>6, <1>4
  <1>9. m.vb.start \in Int /\ m.vb.stop \in Int /\ m.vb.start <= m.vb.stop
    BY <1>6, <1>4
  <1>10. Programmed(m, mode)
    BY <1>3, <1>5, <1>6, <1>7, <1>8, <1>9, <1>4 DEF Programmed
  <1> QED
    BY <1>10 DEF m
-----------------------------------------------------------------------------
(* What the guessing makes of a mode of SVGATextMode's own.                *)

\* The lines of text; complete_modestruct doubles them for DoubleScan.
TextLines(g) == g.fontHeight * Rows(g)

LEMMA VerticalSizes ==
  ASSUME NEW g \in ModeLine, Accepted(g), Rows(g) > 0
  PROVE  /\ TextLines(g) \in Int /\ TextLines(g) > 0 /\ TextLines(g) <= 1023
         /\ g.vss \in Int /\ g.vse \in Int /\ g.vde \in Int
         /\ V(g).active * Twice(VertDouble(g)) = TextLines(g) * Twice(g.dscan)
         /\ V(g).start * Twice(VertDouble(g)) = g.vss * Twice(g.dscan)
         /\ V(g).stop * Twice(VertDouble(g)) = g.vse * Twice(g.dscan)
         /\ V(g).total * Twice(VertDouble(g)) = g.vde * Twice(g.dscan)
         /\ Struct(g).active = TextLines(g) * Twice(g.dscan)
  <1> DEFINE vds == g.vds
             vss == g.vss
             vse == g.vse
             vde == g.vde
             font == g.fontHeight
             rows == Rows(g)
             p == TextLines(g)
             scans == Twice(g.dscan)
  <1>1. /\ vds \in Int /\ vss \in Int /\ vse \in Int /\ vde \in Int
        /\ font \in 1..32 /\ g.dscan \in BOOLEAN
    BY DEF ModeLine
  <1>2. vds \in 16..1023
    BY DEF Accepted
  <1>3. vde \in Int /\ vde <= 1023
    <2>1. g.vde \in g.vse..1023
      BY DEF Accepted
    <2> QED
      BY <1>1, <2>1
  <1>4. p \in Int /\ p > 0 /\ p <= vds
    <2>1. rows = vds \div font /\ p = font * rows
      BY DEF Rows, TextLines
    <2> HIDE DEF vds, font, rows, p
    <2>2. /\ vds \div font \in Nat /\ font * (vds \div font) \in 0..vds
          /\ vds \div font > 0 => font * (vds \div font) > 0
      BY <1>1, <1>2, WholeRows, ZenonT(60)
    <2>3. vds \in Int
      BY <1>1
    <2>4. rows > 0
      BY DEF rows
    <2> QED
      BY <2>1, <2>2, <2>3, <2>4
  <1>5. Struct(g) = [active |-> p * scans, start |-> vss * scans,
                     stop |-> vse * scans, total |-> vde * scans]
    BY DEF Struct, Twice, TextLines
  <1>6. scans = IF g.dscan THEN 2 ELSE 1
    BY DEF Twice
  <1> HIDE DEF vds, vss, vse, vde, font, rows, p, scans
  <1>7. CASE ~VertDouble(g)
    <2>1. /\ V(g).active = p * scans /\ V(g).start = vss * scans
          /\ V(g).stop = vse * scans /\ V(g).total = vde * scans
      BY <1>5, <1>7 DEF V
    <2>2. Twice(VertDouble(g)) = 1
      BY <1>7 DEF Twice
    <2>3. p * scans \in Int /\ vss * scans \in Int /\ vse * scans \in Int /\ vde * scans \in Int
      BY <1>1, <1>4, <1>6
    <2>4. \A i \in Int : i * 1 = i
      OBVIOUS
    <2>5. /\ V(g).active * 1 = p * scans /\ V(g).start * 1 = vss * scans
          /\ V(g).stop * 1 = vse * scans /\ V(g).total * 1 = vde * scans
      BY <2>1, <2>3, <2>4
    <2> QED
      BY <1>1, <1>2, <1>4, <1>5, <2>2, <2>5 DEF vss, vse, vde, p, scans
  <1>8. CASE VertDouble(g)
    <2>1. scans = 2
      BY <1>1, <1>3, <1>5, <1>6, <1>8 DEF VertDouble
    <2>2. /\ V(g).active = (p * 2) \div 2 /\ V(g).start = (vss * 2) \div 2
          /\ V(g).stop = (vse * 2 + 1) \div 2 /\ V(g).total = (vde * 2 + 1) \div 2
      BY <1>5, <1>8, <2>1 DEF V
    <2>3. /\ V(g).active = p /\ V(g).start = vss /\ V(g).stop = vse /\ V(g).total = vde
      BY <1>1, <1>4, <2>2
    <2>4. Twice(VertDouble(g)) = 2
      BY <1>8 DEF Twice
    <2> QED
      BY <1>1, <1>2, <1>4, <1>5, <2>1, <2>3, <2>4 DEF vss, vse, vde, p, scans
  <1> QED
    BY <1>7, <1>8

\* wrapcheck leaves timings in order alone.
LEMMA WrapCheckKeeps ==
  ASSUME NEW t \in Timing, Ordered(t), NEW b, NEW modified, NEW bad
  PROVE  /\ WrapCheck(t, b, modified, bad).t = t
         /\ b.start \in Int /\ b.stop \in Int /\ b.start <= b.stop
              => WrapCheck(t, b, modified, bad).remarks = {}
  <1> DEFINE start == Unwrap(t.active, t.start)
             stop  == Unwrap(start, t.stop)
             total == IF t.total < stop THEN Unwrap(start, t.total) ELSE t.total
             wrap  == \/ t.start < t.active \/ t.stop < start \/ b.stop < b.start
                      \/ t.total < stop /\ t.total < start
  <1>1. start = t.start
    BY DEF Unwrap, Timing, Ordered
  <1>2. stop = t.stop
    BY <1>1 DEF Unwrap, Timing, Ordered
  <1>3. total = t.total
    BY <1>2 DEF Timing, Ordered
  <1>4. WrapCheck(t, b, modified, bad).t
          = [active |-> t.active, start |-> start, stop |-> stop, total |-> total]
    BY DEF WrapCheck
  <1>5. WrapCheck(t, b, modified, bad).t = t
    BY <1>1, <1>2, <1>3, <1>4 DEF Timing
  <1>6. ASSUME b.start \in Int, b.stop \in Int, b.start <= b.stop
        PROVE  WrapCheck(t, b, modified, bad).remarks = {}
    <2>1. ~wrap /\ ~BadStop(start, stop, t.total)
      BY <1>1, <1>2, <1>6 DEF Timing, Ordered, BadStop
    <2>2. WrapCheck(t, b, modified, bad).remarks
            = (IF wrap THEN {modified} ELSE {})
              \cup (IF BadStop(start, stop, t.total) THEN {bad} ELSE {})
      BY DEF WrapCheck
    <2> HIDE DEF wrap, start, stop, total
    <2> QED
      BY <2>1, <2>2
  <1> QED
    BY <1>5, <1>6

\* Its own size tells it of no wrap.
LEMMA OwnSizeShiftsNothing ==
  ASSUME NEW t, t.active \in Int, NEW real \in Nat,
         real = 0 \/ real = t.active \/ (real <= 1023 /\ t.active # real)
  PROVE  PresetShift(t, real) = 0
  BY DEF PresetShift

\* The lines that pre_clockprobe_intelligence adds to a screen too wide for it.
OwnShift(g) == RatioShift(8 * H(g).active, TextLines(g) * Twice(g.dscan))

\* The mode, before the lines that are scanned twice are divided by two.
Restored(m, g) ==
  /\ m.h.active = 8 * H(g).active /\ m.h.start = 8 * H(g).start
  /\ m.h.stop = 8 * H(g).stop /\ m.h.total = 8 * H(g).total
  /\ m.v.active = TextLines(g) * Twice(g.dscan) + OwnShift(g)
  /\ m.v.start = g.vss * Twice(g.dscan) + OwnShift(g)
  /\ m.v.stop = g.vse * Twice(g.dscan) + OwnShift(g)
  /\ m.v.total = g.vde * Twice(g.dscan) + OwnShift(g)
  /\ DOMAIN m.v = {"active", "start", "stop", "total"}
  /\ OwnShift(g) # 0 => "Y_WRAP_COMPENSATE" \in m.remarks
  /\ m.font = g.fontHeight /\ m.hshift = g.hshift
  /\ "DOUBLESCAN" \in m.flags <=> g.dscan
  /\ "MULTISCAN" \notin m.flags

LEMMA OwnPre ==
  ASSUME NEW m, Shape(m), m.h \in Timing, m.v \in Timing,
         NEW g \in ModeLine, Accepted(g), Rows(g) > 0, Programmed(m, g),
         NEW x \in {0, 8 * H(g).active}, NEW y \in {0, TextLines(g)},
         NEW r, r = Pre(m, x, y)
  PROVE  /\ Restored(r, g)
         /\ OwnShift(g) = 0 /\ H(g).stop < H(g).total => r.remarks = {}
  <1> DEFINE vw   == WrapCheck(m.v, m.vb, "VTIM_MOD", "BAD_VSYNC_STOP")
             scan == IF "VERT_DOUBLE" \in m.flags THEN 2 ELSE 1
             v1   == Mul(vw.t, scan)
             vs   == PresetShift(v1, y)
             hw   == WrapCheck(m.h, m.hb, "HTIM_MOD", "BAD_HSYNC_STOP")
             hs   == PresetShift(hw.t, x)
             rs   == RatioShift(hw.t.active + hs, v1.active + vs)
             says == m.remarks \cup vw.remarks \cup hw.remarks
                     \cup (IF vs # 0 THEN {"PRESET_VTIM_MOD"} ELSE {})
                     \cup (IF hs # 0 THEN {"PRESET_HTIM_MOD"} ELSE {})
                     \cup (IF rs # 0 THEN {"Y_WRAP_COMPENSATE"} ELSE {})
             s == Twice(g.dscan)
             p == TextLines(g)
  <1>1. /\ r.v = Shift(v1, vs + rs) /\ r.h = Shift(hw.t, hs) /\ r.remarks = says
        /\ r.font = m.font /\ r.hshift = m.hshift /\ r.flags = m.flags
    BY DEF Pre, Shape, Fields
  <1>2. /\ p \in Int /\ p > 0 /\ p <= 1023 /\ g.vss \in Int /\ g.vse \in Int /\ g.vde \in Int
        /\ s \in {1, 2} /\ scan = Twice(VertDouble(g)) /\ scan \in {1, 2}
    BY VerticalSizes DEF Twice, Programmed
  <1>3. Ordered(m.v) /\ Ordered(m.h)
    <2>1. InOrder(V(g)) /\ InOrder(H(g))
      BY VerticalBounds, HorizontalBounds
    <2>2. Ordered(m.v)
      BY <2>1 DEF Programmed, InOrder, Ordered
    <2>3. \A i, j \in Int : i <= j => 8 * i <= 8 * j
      OBVIOUS
    <2>4. Ordered(m.h)
      BY <2>1, <2>3 DEF Programmed, InOrder, Ordered
    <2> QED
      BY <2>2, <2>4
  <1>4. /\ vw.t = m.v /\ hw.t = m.h /\ vw.remarks = {}
        /\ H(g).stop < H(g).total => hw.remarks = {}
    BY <1>3, WrapCheckKeeps DEF Programmed
  <1> HIDE DEF vw, hw
  <1>5. /\ v1.active = p * s /\ v1.start = g.vss * s /\ v1.stop = g.vse * s /\ v1.total = g.vde * s
        /\ DOMAIN v1 = {"active", "start", "stop", "total"}
    <2>1. v1 = Mul(m.v, scan)
      BY <1>4
    <2>2. /\ v1.active = m.v.active * scan /\ v1.start = m.v.start * scan
          /\ v1.stop = m.v.stop * scan /\ v1.total = m.v.total * scan
          /\ DOMAIN v1 = {"active", "start", "stop", "total"}
      BY <2>1 DEF Mul, Timing
    <2>3. /\ m.v.active = V(g).active /\ m.v.start = V(g).start
          /\ m.v.stop = V(g).stop /\ m.v.total = V(g).total
      BY DEF Programmed
    <2> HIDE DEF v1, scan, s, p
    <2> QED
      BY <1>2, <2>2, <2>3, VerticalSizes DEF p, s
  <1>6. p * s \in Int /\ g.vss * s \in Int /\ g.vse * s \in Int /\ g.vde * s \in Int /\ p * s >= p
        /\ (p * s = p \/ p * s # p)
    BY <1>2
  <1> HIDE DEF v1, scan, s, p
  <1>7. vs = 0
    <2>1. y = 0 \/ y = v1.active \/ (y <= 1023 /\ v1.active # y)
      BY <1>2, <1>5 DEF p
    <2>2. y \in Nat
      BY <1>2 DEF p
    <2> QED
      BY <1>5, <1>6, <2>1, <2>2, OwnSizeShiftsNothing
  <1>8. hs = 0
    <2>1. m.h.active \in Int /\ m.h.active = 8 * H(g).active /\ H(g).active >= 2 /\ H(g).active \in Int
      BY HorizontalBounds DEF Timing, Programmed, InOrder
    <2>2. x = 0 \/ x = hw.t.active
      BY <1>4, <2>1
    <2>3. x \in Nat
      BY <2>1
    <2> QED
      BY <1>4, <2>1, <2>2, <2>3, OwnSizeShiftsNothing
  <1> HIDE DEF vs, hs
  <1>9. rs = OwnShift(g)
    <2>1. hw.t.active + hs = 8 * H(g).active
      <3>1. hw.t.active = 8 * H(g).active /\ hw.t.active \in Int
        BY <1>4 DEF Programmed, Timing
      <3> QED
        BY <1>8, <3>1
    <2>2. v1.active + vs = p * s
      BY <1>5, <1>6, <1>7
    <2> QED
      BY <2>1, <2>2 DEF OwnShift, p, s
  <1>10. rs \in Int
    <2>1. \A w, h \in Int : RatioShift(w, h) \in Int
      BY DEF RatioShift
    <2>2. 8 * H(g).active \in Int
      BY HorizontalBounds DEF InOrder
    <2> QED
      BY <1>6, <1>9, <2>1, <2>2 DEF OwnShift, p, s
  <1> HIDE DEF rs
  <1>11. r.h = m.h
    BY <1>1, <1>4, <1>8, ShiftByNothing
  <1>12. /\ r.v.active = p * s + rs /\ r.v.start = g.vss * s + rs
         /\ r.v.stop = g.vse * s + rs /\ r.v.total = g.vde * s + rs
         /\ DOMAIN r.v = {"active", "start", "stop", "total"}
    <2>1. vs + rs = rs
      BY <1>7, <1>10
    <2>2. r.v = [f \in {"active", "start", "stop", "total"} |-> v1[f] + rs]
      BY <1>1, <1>5, <2>1 DEF Shift
    <2> QED
      BY <1>5, <2>2
  <1>13. rs # 0 => "Y_WRAP_COMPENSATE" \in r.remarks
    BY <1>1
  <1>14. rs = 0 /\ H(g).stop < H(g).total => r.remarks = {}
    BY <1>1, <1>4, <1>7, <1>8 DEF Programmed
  <1>15. /\ r.h.active = 8 * H(g).active /\ r.h.start = 8 * H(g).start
         /\ r.h.stop = 8 * H(g).stop /\ r.h.total = 8 * H(g).total
         /\ r.font = g.fontHeight /\ r.hshift = g.hshift
         /\ "DOUBLESCAN" \in r.flags <=> g.dscan
         /\ "MULTISCAN" \notin r.flags
    BY <1>1, <1>11 DEF Programmed
  <1>16. Restored(r, g)
    BY <1>9, <1>12, <1>13, <1>15 DEF Restored, p, s
  <1> QED
    BY <1>9, <1>14, <1>16

\* The numbers a mode line of TextConfig would have.
Own(m, g) ==
  /\ m.h.active = 8 * H(g).active /\ m.h.start = 8 * H(g).start
  /\ m.h.stop = 8 * H(g).stop /\ m.h.total = 8 * H(g).total
  /\ m.v.active = TextLines(g) /\ m.v.start = g.vss /\ m.v.stop = g.vse /\ m.v.total = g.vde
  /\ m.font = g.fontHeight /\ m.hshift = g.hshift
  /\ "DOUBLESCAN" \in m.flags <=> g.dscan

LEMMA OwnPost ==
  ASSUME NEW m, Shape(m), NEW g \in ModeLine, Accepted(g), Rows(g) > 0, Restored(m, g),
         NEW a, ~a.graphics,
         NEW x \in {0, 8 * H(g).active}, NEW y \in {0, TextLines(g)},
         NEW r, r = Post(m, a, x, y)
  PROVE  /\ m.remarks \subseteq r.remarks
         /\ OwnShift(g) = 0 => Own(r, g) /\ r.remarks = m.remarks
  <1> DEFINE m1 == DivV(m, Scans(m))
             g0 == [m |-> m1, div |-> RatioDiv(m1)]
             ga == WithWidth(g0, x)
             g1 == WithHeight(ga, y)
             wratio == (m1.h.active * 100) \div x
             s == Twice(g.dscan)
             p == TextLines(g)
             w == 8 * H(g).active
  <1>1. r = g1.m
    BY DEF Post
  <1>2. /\ p \in Int /\ p > 0 /\ g.vss \in Int /\ g.vse \in Int /\ g.vde \in Int /\ s \in {1, 2}
    BY VerticalSizes DEF Twice
  <1>3. w \in Int /\ w > 0
    BY HorizontalBounds DEF InOrder
  <1>4. Scans(m) = s
    BY DEF Scans, Restored, Twice
  <1>5. Shape(m1) /\ m1.h = m.h /\ m1.remarks = m.remarks /\ m1.v = Div(m.v, s)
        /\ m1.font = m.font /\ m1.hshift = m.hshift /\ m1.flags = m.flags
    BY <1>4 DEF Shape, Fields, DivV
  <1>6. g0.m = m1
    OBVIOUS
  <1> HIDE DEF m1, g0, s, p, w
  <1>7. m1.h.active = w
    BY <1>5 DEF Restored, w
  <1>8. x \in Nat /\ (x = 0 \/ x = w) /\ y \in Nat /\ (y = 0 \/ y = p)
    BY <1>2, <1>3 DEF w, p
  <1>9. x # 0 => Near(wratio, 100)
    <2>1. x # 0 => (w * 100) \div x \in 100..100
      BY <1>3, <1>8, QuotientBounds
    <2> QED
      BY <1>7, <2>1 DEF Near
  <1>10. ga = g0
    <2>1. x = 0 => ga = g0
      BY DEF WithWidth
    <2>2. ASSUME x # 0 PROVE ga = g0
      <3>1. g0.m.h.active \in Int /\ Shape(g0.m)
        BY <1>3, <1>5, <1>6, <1>7
      <3>2. ga = WithWidth(g0, x) /\ wratio = (g0.m.h.active * 100) \div x
        BY <1>6
      <3> HIDE DEF ga, wratio
      <3>3. x # 0 /\ Near(wratio, 100) => ga = g0
        BY <1>8, <3>1, <3>2, WidthStep
      <3> QED
        BY <1>9, <2>2, <3>3
    <2> QED
      BY <2>1, <2>2
  <1> HIDE DEF ga, wratio
  <1>11. HeightDone(ga, y, g1)
    BY <1>5, <1>6, <1>8, <1>10, HeightStep
  <1> HIDE DEF g1
  <1>12. m.remarks \subseteq r.remarks
    BY <1>1, <1>5, <1>6, <1>10, <1>11 DEF HeightDone
  <1>13. ASSUME OwnShift(g) = 0 PROVE Own(r, g) /\ r.remarks = m.remarks
    <2>1. /\ m.v.active = p * s /\ m.v.start = g.vss * s
          /\ m.v.stop = g.vse * s /\ m.v.total = g.vde * s
          /\ DOMAIN m.v = {"active", "start", "stop", "total"}
      <3>1. /\ p * s + 0 = p * s /\ g.vss * s + 0 = g.vss * s
            /\ g.vse * s + 0 = g.vse * s /\ g.vde * s + 0 = g.vde * s
        BY <1>2
      <3> QED
        BY <1>13, <3>1 DEF Restored, p, s
    <2>2. \A i \in Int : (i * s) \div s = i
      BY <1>2
    <2>3. /\ m1.v.active = p /\ m1.v.start = g.vss /\ m1.v.stop = g.vse /\ m1.v.total = g.vde
      <3>1. m1.v = [f \in {"active", "start", "stop", "total"} |-> m.v[f] \div s]
        BY <1>5, <2>1 DEF Div
      <3> QED
        BY <1>2, <2>1, <2>2, <3>1
    <2>4. g1 = ga
      <3>1. y = 0 => g1 = ga
        BY DEF WithHeight, g1
      <3>2. ASSUME y # 0 PROVE g1 = ga
        <4>1. (p * 100) \div y \in 100..100
          BY <1>2, <1>8, <3>2, QuotientBounds
        <4>2. Near((ga.m.v.active * 100) \div y, 100)
          BY <1>6, <1>10, <2>3, <4>1 DEF Near
        <4> QED
          BY <1>11, <3>2, <4>2 DEF HeightDone
      <3> QED
        BY <3>1, <3>2
    <2>5. r = m1
      BY <1>1, <1>6, <1>10, <2>4
    <2> QED
      BY <1>5, <2>3, <2>5 DEF Own, Restored, p
  <1> QED
    BY <1>12, <1>13

\* A mode of SVGATextMode's own, from the registers to what is printed.
LEMMA OwnModeGrabbed ==
  ASSUME Follows, OwnMode
  PROVE  /\ mode \in ModeLine /\ Accepted(mode) /\ Rows(mode) > 0
         /\ OwnShift(mode) # 0 => "Y_WRAP_COMPENSATE" \in grab.remarks
         /\ OwnShift(mode) = 0 => Own(grab, mode)
         /\ OwnShift(mode) = 0 /\ H(mode).stop < H(mode).total => grab.remarks \subseteq ProbeRemarks
  <1> DEFINE c == ReadMode(crtc, adapter)
             x == opt.x
             y == opt.y
             p == Pre(c, x, y)
  <1>1. /\ Inv /\ Done /\ gpc = "print" /\ ~opt.raw /\ ~adapter.graphics /\ (~set80 \/ force)
        /\ pc = "done" /\ Rows(mode) > 0
    BY DEF Follows, OwnMode, Done, Fits
  <1>2. mode \in ModeLine /\ Accepted(mode)
    BY <1>1, ModesAssumption, Set80IsModeLine DEF Inv, TypeOK, OnPath
  <1>3. PICK m \in ProbedFrom(Prepared) : grab = Post(m, adapter, x, y)
    BY <1>1 DEF Follows
  <1>4. Prepared = p
    BY <1>1 DEF Prepared
  <1>5. x \in {0, 8 * H(mode).active} /\ y \in {0, TextLines(mode)}
    <2>1. H(mode).active = Cols(mode)
      BY <1>2, HorizontalBounds
    <2> QED
      BY <2>1 DEF OwnMode, TextLines
  <1>6. Shape(c) /\ c.h \in Timing /\ c.v \in Timing
    BY <1>1, ReadModeType DEF Inv, TypeOK, Regs
  <1>7. Programmed(c, mode)
    BY <1>1, OwnModeRead
  <1> HIDE DEF c, x, y
  <1>8. /\ Restored(p, mode)
        /\ OwnShift(mode) = 0 /\ H(mode).stop < H(mode).total => p.remarks = {}
    BY <1>1, <1>2, <1>5, <1>6, <1>7, OwnPre
  <1>9. Shape(p)
    BY <1>6, PreKeeps
  <1> HIDE DEF p
  <1>10. /\ Shape(m) /\ m.h = p.h /\ m.v = p.v /\ m.font = p.font /\ m.hshift = p.hshift
         /\ m.flags = p.flags
         /\ p.remarks \subseteq m.remarks /\ m.remarks \subseteq p.remarks \cup ProbeRemarks
    BY <1>3, <1>4, <1>9, ProbedKeeps
  <1>11. Restored(m, mode)
    BY <1>8, <1>10 DEF Restored
  <1>12. /\ m.remarks \subseteq grab.remarks
         /\ OwnShift(mode) = 0 => Own(grab, mode) /\ grab.remarks = m.remarks
    BY <1>1, <1>2, <1>3, <1>5, <1>10, <1>11, OwnPost
  <1>13. OwnShift(mode) # 0 => "Y_WRAP_COMPENSATE" \in grab.remarks
    BY <1>11, <1>12 DEF Restored
  <1> QED
    BY <1>1, <1>2, <1>8, <1>10, <1>12, <1>13

\* The printed line stands for the same timings.
LEMMA SameTimings ==
  ASSUME NEW g \in ModeLine, Accepted(g), Rows(g) > 0, Own(grab, g)
  PROVE  /\ V(Printed) = V(g) /\ VertDouble(Printed) = VertDouble(g) /\ H(Printed) = H(g)
         /\ Rows(Printed) = Rows(g) /\ Cols(Printed) = Cols(g)
         /\ Printed.fontHeight = g.fontHeight /\ Printed.dscan = g.dscan
         /\ Printed.hshift = g.hshift
  <1> DEFINE q == Printed
             h == H(g)
             font == g.fontHeight
             rows == Rows(g)
  <1>1. /\ q.hds = 8 * h.active /\ q.hss = 8 * h.start /\ q.hse = 8 * h.stop /\ q.hde = 8 * h.total
        /\ q.vds = TextLines(g) /\ q.vss = g.vss /\ q.vse = g.vse /\ q.vde = g.vde
        /\ q.fontHeight = font /\ q.hshift = g.hshift
    BY DEF Printed, Own
  <1>2. q.dscan = g.dscan
    <2>1. g.dscan \in BOOLEAN
      BY DEF ModeLine
    <2>2. q.dscan = ("DOUBLESCAN" \in grab.flags)
      BY DEF Printed
    <2> QED
      BY <2>1, <2>2 DEF Own
  <1>3. /\ h.active \in Int /\ h.start \in Int /\ h.stop \in Int /\ h.total \in Int
        /\ h.active = Cols(g) /\ h.active = 2 * (h.active \div 2)
        /\ h = [active |-> h.active, start |-> h.start, stop |-> h.stop, total |-> h.total]
    BY HorizontalBounds DEF InOrder, H
  <1>4. font \in Nat /\ font # 0 /\ rows \in Int
    <2>1. g.fontHeight \in 1..32 /\ g.vds \in Int
      BY DEF ModeLine
    <2> QED
      BY <2>1 DEF Rows
  <1>5. TextLines(g) = font * rows
    BY DEF TextLines
  <1> HIDE DEF q, h, font, rows
  <1>6. Rows(q) = rows
    <2>1. (font * rows) \div font \in rows..rows
      <3>1. rows * font <= font * rows /\ font * rows < (rows + 1) * font
        BY <1>4
      <3> QED
        BY <1>4, <3>1, QuotientBounds
    <2> QED
      BY <1>1, <1>4, <1>5, <2>1 DEF Rows
  <1>7. Cols(q) = Cols(g) /\ H(q) = h
    <2>1. \A k \in Int : (8 * (2 * k)) \div 16 = k /\ (8 * k) \div 8 = k
      OBVIOUS
    <2>2. h.active \div 2 \in Int
      BY <1>3
    <2>3. Cols(q) = h.active
      BY <1>1, <1>3, <2>1, <2>2 DEF Cols
    <2> QED
      BY <1>1, <1>3, <2>1, <2>3 DEF H
  <1>8. Struct(q) = Struct(g)
    BY <1>1, <1>2, <1>6 DEF Struct, font, rows
  <1>9. VertDouble(q) = VertDouble(g) /\ V(q) = V(g)
    BY <1>8 DEF VertDouble, V
  <1> QED
    BY <1>1, <1>2, <1>6, <1>7, <1>9 DEF q, h, font, rows

LEMMA RoundTripRight == Follows => RoundTrip
  <1> SUFFICES ASSUME Follows, OwnMode, "Y_WRAP_COMPENSATE" \notin grab.remarks
               PROVE  RoundTrip
    BY DEF RoundTrip
  <1>1. mode \in ModeLine /\ Accepted(mode) /\ Rows(mode) > 0 /\ Own(grab, mode)
    BY OwnModeGrabbed
  <1> QED
    BY <1>1, SameTimings DEF RoundTrip

LEMMA NoAlarm == Follows => NoFalseAlarm
  <1> SUFFICES ASSUME Follows, OwnMode, 8 * Cols(mode) <= 10 * Struct(mode).active,
                      H(mode).stop < H(mode).total
               PROVE  grab.remarks \subseteq ProbeRemarks
    BY DEF NoFalseAlarm
  <1>1. mode \in ModeLine /\ Accepted(mode) /\ Rows(mode) > 0
    BY OwnModeGrabbed
  <1>2. OwnShift(mode) = 0
    <2> DEFINE w == 8 * Cols(mode)
               s == Struct(mode).active
    <2>1. OwnShift(mode) = RatioShift(w, s)
      BY <1>1, HorizontalBounds, VerticalSizes DEF OwnShift
    <2>2. w \in Int /\ s \in Int
      <3>1. H(mode).active \in Int /\ H(mode).active = Cols(mode)
        BY <1>1, HorizontalBounds DEF InOrder
      <3>2. TextLines(mode) * Twice(mode.dscan) \in Int
        <4>1. TextLines(mode) \in Int /\ Twice(mode.dscan) \in Int
          BY <1>1, VerticalSizes DEF Twice
        <4> QED
          BY <4>1
      <3> QED
        BY <1>1, <3>1, <3>2, VerticalSizes
    <2>3. ~(w > 10 * s)
      BY <2>2
    <2> HIDE DEF w, s
    <2> QED
      BY <2>1, <2>3 DEF RatioShift
  <1> QED
    BY <1>2, OwnModeGrabbed

LEMMA AlwaysFollows == GSpec => []Follows
  BY FollowsInit, FollowsStep, PTL DEF GSpec

\* What SVGATextMode programmed for any accepted mode line is what grabmode
\* prints for it, unless lines were added (getmode and the guessing in
\* src/modedata.c against complete_modestruct and the setters of src/vga_prg.c).
THEOREM GrabbedModeIsProgrammed == GSpec => []RoundTrip
  BY AlwaysFollows, RoundTripRight, PTL

\* wrapcheck and the rest of src/modedata.c's guessing raise no remark on it.
THEOREM OwnModesAreBelieved == GSpec => []NoFalseAlarm
  BY AlwaysFollows, NoAlarm, PTL

\* For any registers, text or graphics, -x and -y are honoured or contradicted
\* (post_clockprobe_intelligence, src/modedata.c).
THEOREM SizesGivenAreHonoured == GSpec => []PresetHonoured
  BY AlwaysFollows, SizeHonoured, PTL
=============================================================================

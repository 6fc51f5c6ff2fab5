------------------------------ MODULE StdClock ------------------------------
(***************************************************************************)
(* The clock select functions of src/std_clock.c.  A card without a clock  *)
(* chip has a row of fixed clocks and select lines, some bits of its       *)
(* registers, that pick one.  Writes(c, n, no, opts) is what chipset c's   *)
(* function leaves in these bits when it selects clock no of the n in the  *)
(* Clocks line: a function on the bits it writes, and on no other.         *)
(***************************************************************************)
EXTENDS Integers

\* One bit, and the bits of f and those of g that are not among them; TLC's
\* operators of these names, which the provers know nothing of.
x :> v == [y \in {x} |-> v]
f @@ g == [x \in (DOMAIN f) \cup (DOMAIN g) |-> IF x \in DOMAIN f THEN f[x] ELSE g[x]]

Chipsets == {"VGA", "S3", "CIRRUS", "ET4000", "TVGA8900", "TVGA9000", "PVGA1",
             "WDC90C0X", "WDC90C1X", "WDC90C2X", "WDC90C3X", "ATI", "ATIMACH32",
             "VIDEO7", "ALI", "AL2101", "OTI67", "OTI77", "OTI87", "SIS", "REALTEK",
             "ARK", "NCR22E", "NCR32", "GVGA", "MX", "ET3000", "ET6000", "TGUI",
             "ATIMACH64", "MATROX", "NEOMAGIC", "RIVA128"}

\* The options of the configuration file that the clock code looks at.
Options == {"ClockDiv2", "Legend", "HibitLow", "HibitHigh", "ET4000_AltClk",
            "SwapHibit", "ClkChipX", "SpeaMercury", "SOG"}

Bit(no, k) == (no \div 2^k) % 2
Not(bit) == 1 - bit

\* Bits 2 and 3 of the Miscellaneous Output register, together.
SetClockbits01(no) == "MISC" :> no % 4

\* The bits the card's own latch takes from MISC when bit 1 of CR34 rises.
Legend(no) == SetClockbits01(no) @@ "LATCH" :> 2 * Bit(no, 4) + Bit(no, 2)
                                 @@ "CR34.1" :> Bit(no, 3)

S3(no, opts) ==
  IF "Legend" \in opts THEN Legend(no)
  ELSE IF no < 2 THEN SetClockbits01(no)
  ELSE SetClockbits01(3) @@ "CR42" :> no % 16

\* Bit 3 goes out inverted unless the option says that it is active low.
Hibit(no, opts) == IF "HibitLow" \in opts THEN Bit(no, 3) ELSE Not(Bit(no, 3))

ET4000(no, opts) ==
  IF "Legend" \in opts THEN Legend(no)
  ELSE SetClockbits01(no) @@ "CR34.1" :> Bit(no, 2) @@
       (IF "ET4000_AltClk" \in opts
        THEN "SR7.6" :> 0 @@ "SR7.0" :> 0 @@ "CR31.6" :> Hibit(no, opts)
                          @@ "CR31.7" :> Bit(no, 4)
        ELSE "SR7.6" :> Hibit(no, opts) @@ "CR31.6" :> Bit(no, 4))

\* The clock dividers off, then the bits the chip has.
TVGA(c, n, no) ==
  SetClockbits01(no) @@ "SRD.1" :> 0 @@ "SRD.2" :> 0 @@ "SRD.0" :> Bit(no, 2)
    @@ (IF c = "TVGA9000" THEN "SRD.6" :> Bit(no, 3) ELSE <<>>)
    @@ (IF c = "TVGA8900" /\ n > 7 THEN "SRE.4" :> Bit(no, 3) ELSE <<>>)

\* The MACH32 has bits 2 and 3 exchanged.
ATI(c, no) ==
  LET b2 == IF c = "ATIMACH32" THEN 3 ELSE 2
      b3 == IF c = "ATIMACH32" THEN 2 ELSE 3
  IN SetClockbits01(no) @@ "BE.4" :> Bit(no, b2) @@ "B9.1" :> Bit(no, b3)
                        @@ "B8.67" :> no \div 16 % 4

\* One index stands for "the memory clock"; the others turn that off again.
MClkIndex(n) == IF n > 8 THEN n - 1 ELSE 8
LateWDC == {"WDC90C1X", "WDC90C2X", "WDC90C3X"}
SaveCs2(c, opts) == IF (c \in LateWDC) = ("SwapHibit" \in opts) THEN 0 ELSE 1
WDCLines(c, no, opts) ==
  SetClockbits01(no)
    @@ (IF c \in LateWDC THEN "GR0C.1" :> (Bit(no, 2) + SaveCs2(c, opts)) % 2 ELSE <<>>)
    @@ (IF c = "WDC90C3X" THEN "SR12.2" :> Not(Bit(no, 3)) ELSE <<>>)
\* (Mutant: the memory clock is not turned off again.)
WDCKeepingMClk(c, n, no, opts) ==
  IF c # "PVGA1" /\ no = MClkIndex(n) THEN "CR2E.4" :> 1 ELSE WDCLines(c, no, opts)
WDC(c, n, no, opts) ==
  IF c = "PVGA1" THEN WDCLines(c, no, opts)
  ELSE IF no = MClkIndex(n) THEN "CR2E.4" :> 1
  ELSE WDCLines(c, no, opts) @@ "CR2E.4" :> 0
Video7(no) == SetClockbits01(IF no < 2 THEN no ELSE 2) @@ "SRA4" :> (4 * no) % 256

\* Clocks above 7 are the undivided ones.
ALI(c, no) ==
  SetClockbits01(no) @@ "GR0C.5" :> Bit(no, 2)
    @@ (IF c = "ALI" THEN "GR0B.0" :> (IF no <= 7 THEN 1 ELSE 0) @@ "GR0B.1" :> 0 ELSE <<>>)

OAK(c, no) == IF c = "OTI87" THEN "OTI06" :> no
              ELSE SetClockbits01(no) @@ "OTI0D.5" :> Bit(no, 2)

NCR(c, no) ==
  SetClockbits01(no) @@ (IF c = "NCR22E" THEN "SR1F.6" :> Bit(no, 2)
                         ELSE "SR1F.5" :> Bit(no, 2) @@ "SR1F.6" :> Bit(no, 3))

ET6000(no)  == SetClockbits01(no) @@ "CR34.1" :> Bit(no, 2)
ET3000(no)  == SetClockbits01(no) @@ "CR24.1" :> Bit(no, 2)
GVGA(no)    == SetClockbits01(no) @@ "SR7.0" :> Bit(no, 2)
MX(no)      == SetClockbits01(no) @@ "SRC4.0" :> Bit(no, 2)
ARK(no)     == SetClockbits01(no) @@ "SR11.67" :> no \div 4 % 4
SIS(no)     == SetClockbits01(3) @@ "SR7" :> no
\* Bit 3 divides the clock by two.
RealTek(no) == SetClockbits01(no) @@ "GR0C.5" :> Bit(no, 2)
                                  @@ "GR0B" :> (IF Bit(no, 3) = 1 THEN 4 ELSE 2)

\* SetClock's switch, without the chipsets that take a frequency there.  A
\* TGUI is a TVGA8900, whose clock chip, if it has one, counts as 4 clocks.
Writes(c, n, no, opts) ==
  CASE c \in {"VGA", "NEOMAGIC", "MATROX"} -> SetClockbits01(no)
    [] c = "S3"                            -> S3(no, opts)
    [] c = "ET4000"                        -> ET4000(no, opts)
    [] c = "ET6000"                        -> ET6000(no)
    [] c = "ET3000"                        -> ET3000(no)
    [] c \in {"TVGA8900", "TVGA9000"}      -> TVGA(c, n, no)
    [] c = "TGUI"                          -> TVGA("TVGA8900", n, no)
    [] c \in {"PVGA1", "WDC90C0X"} \cup LateWDC -> WDC(c, n, no, opts)
    [] c \in {"ATI", "ATIMACH32", "ATIMACH64"}  -> ATI(c, no)
    [] c = "VIDEO7"                        -> Video7(no)
    [] c \in {"ALI", "AL2101"}             -> ALI(c, no)
    [] c \in {"OTI67", "OTI77", "OTI87"}   -> OAK(c, no)
    [] c = "SIS"                           -> SIS(no)
    [] c = "REALTEK"                       -> RealTek(no)
    [] c = "ARK"                           -> ARK(no)
    [] c \in {"NCR22E", "NCR32"}           -> NCR(c, no)
    [] c = "GVGA"                          -> GVGA(no)
    [] c = "MX"                            -> MX(no)

\* The number of clocks the card has, as far as sanitize_cfgfile_data knows.
NormalClocks(c) ==
  CASE c \in {"VGA", "NEOMAGIC"} -> 4
    [] c \in {"S3", "ALI", "OTI87", "SIS", "REALTEK", "ARK", "NCR32"} -> 16
    [] c \in {"PVGA1", "AL2101", "OTI67", "OTI77", "GVGA", "NCR22E", "MX", "ET3000", "ET6000"} -> 8
    [] c \in {"WDC90C0X", "WDC90C1X", "WDC90C2X"} -> 9
    [] c = "WDC90C3X"  -> 17
    [] c = "ATIMACH32" -> 32
    [] c = "ATI"       -> 64
    [] OTHER           -> 0
=============================================================================

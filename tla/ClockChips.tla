----------------------------- MODULE ClockChips -----------------------------
(***************************************************************************)
(* Programming the clock chips: set_clockchip_Mclock, set_clockchip_clock  *)
(* and the drivers of src/XFREE.  A run is a script of register writes,    *)
(* first for the memory clock if there is an MClk line, then for the pixel *)
(* clock; it may be killed between any two.  The chip and its registers    *)
(* stay for the next run.                                                  *)
(*                                                                         *)
(* A write is a function from the registers it sets to their values.  Bits *)
(* that are always written alike are one register: RS2 stands for the bits *)
(* that let the DAC's ports reach the clock registers, MISC for the clock  *)
(* select bits of the Miscellaneous Output register.  The ports DATA, LOOP *)
(* and MEM advance a pointer, that IX, LX and MX set.                      *)
(***************************************************************************)
EXTENDS ClockDrivers, Sequences

\* A register and its value, and the registers of f and those of g that are
\* not among them; TLC's operators of these names, which the provers know
\* nothing of.
x :> v == [y \in {x} |-> v]
f @@ g == [x \in (DOMAIN f) \cup (DOMAIN g) |-> IF x \in DOMAIN f THEN f[x] ELSE g[x]]

CONSTANTS Chips,     \* the clock chips, on the cards they are found on
          Wanted,    \* Wanted[chip]: the frequencies asked for
          MClks,     \* MClks[chip]: the memory clocks of MClk lines
          FoundCSR,  \* what a CH8391's clock select may hold before the first run
          MaxKills   \* bound: killed runs

Gendacs == {"S3GENDAC", "ICS5342", "ICS5341", "ARK5342", "ET6000"}
\* On the S3's four select lines; the others have two or three.
OnS3 == {"S3GENDAC", "ICS5342", "TI3025", "TI3026", "IBMRGB5XX", "STG1703", "CH8391",
         "SC11412", "ICD2061A", "ICD2061AX"}
Mach64s == {"MACH64", "MACH64GT"}
Rivas   == {"RIVA128", "NV4", "NV17", "NV31", "NV43"}
AllChips == Gendacs \cup OnS3 \cup Mach64s \cup Rivas \cup
            {"S3TRIO", "ET4000ICD", "CIRRUS", "LAGUNA", "TGUI9320", "TGUI9440", "CYBER938x",
             "MGATI3026", "MGA1064", "MGAG200"}
\* The chips set_clockchip_Mclock knows how to program.
WithMClk == Gendacs \cup {"S3TRIO", "MGATI3026"}

ASSUME ChipsAssumption == Chips \subseteq AllChips
ASSUME WantedAssumption ==
  /\ DOMAIN Wanted = Chips /\ DOMAIN MClks = Chips
  /\ \A k \in Chips : /\ Wanted[k] \subseteq Nat \ {0}
                      /\ MClks[k] \subseteq Nat \ {0}
                      /\ k \notin WithMClk => MClks[k] = {}
ASSUME FoundAssumption == FoundCSR \subseteq 0..255
ASSUME MaxKillsAssumption == MaxKills \in Nat

VARIABLES chip,   \* the clock chip
          regs,   \* its registers, and the card's
          script, \* the writes the run has still to make
          phase,  \* "idle", or what the script is for: "mclk", "pixel"
          run,    \* [freq, mclk] of the run; mclk = 0: no such line
          held,   \* the memory clock last programmed; 0: the BIOS's
          kills   \* how many runs have been killed
vars == <<chip, regs, script, phase, run, held, kills>>
-----------------------------------------------------------------------------
(* The dividers.                                                           *)

GendacLimits(k) == CASE k = "S3GENDAC" -> S3Gendac
                     [] k = "ICS5342"  -> ICS5342
                     [] k = "S3TRIO"   -> S3Trio
                     [] OTHER          -> Gendac
DacSpeed == 220000
RefClk   == 50000
BusClock == [M |-> 46, R |-> 1432, min |-> 1000, max |-> 13500] \* of the MACH64's BIOS
Memory   == [source |-> 1, times4 |-> 0, fb |-> 193, type |-> "EDO", trp |-> 1,
             trcd |-> 1, tcrd |-> 1, tras |-> 5]            \* ... and of its MEM_CNTL
CharWidth == 9
\* NVIDIA's cards by PCI id and straps: a GeForce4 MX, a GeForce FX 5600, and
\* a bridged one; strap 22 means nothing to the TNT2.
Card == [RIVA128 |-> [id |-> 24,  nv3 |-> TRUE,  strap6 |-> FALSE, strap22 |-> TRUE],
         NV4     |-> [id |-> 40,  nv3 |-> FALSE, strap6 |-> TRUE,  strap22 |-> TRUE],
         NV17    |-> [id |-> 368, nv3 |-> FALSE, strap6 |-> FALSE, strap22 |-> TRUE],
         NV31    |-> [id |-> 786, nv3 |-> FALSE, strap6 |-> FALSE, strap22 |-> FALSE],
         NV43    |-> [id |-> 241, nv3 |-> FALSE, strap6 |-> TRUE,  strap22 |-> TRUE]]

Dividers(k, f) ==
  CASE k \in Gendacs \cup {"S3TRIO"} -> CommonCalcClock(f, GendacLimits(k))
    [] k = "TI3025"    -> Ti3025Calc(f)
    [] k = "TI3026"    -> Ti3026Calc(f)
    [] k = "IBMRGB5XX" -> IBMRGBCalc(f, DacSpeed, RefClk)
    [] k = "STG1703"   -> STG1703CalcProgramWord(f)
    [] k = "CH8391"    -> Chrontel8391Calc(f)
    [] k = "SC11412"   -> SC11412Calc(f)
    [] k \in {"ICD2061A", "ICD2061AX", "ET4000ICD"} ->
         AltICD2061CalcClock(IF f > 119900 THEN 119900 ELSE f)
    [] k \in {"CIRRUS", "LAGUNA"}             -> CirrusFindClock(f)
    [] k \in {"TGUI9320", "TGUI9440", "CYBER938x"} -> TGUICalc(f, k = "CYBER938x")
    [] k = "MGATI3026"            -> MGATi3026CalcClock(f, 220000)
    [] k \in {"MGA1064", "MGAG200"} -> MidCalcMNPS(f, k = "MGAG200")
    [] k \in Mach64s -> Mach64Calc(f, BusClock.M, BusClock.R, BusClock.min, BusClock.max, k = "MACH64GT")
    [] k \in Rivas   -> RivaCalc(f, Card[k])
MDividers(k, f) ==
  CASE k = "ET6000"    -> CommonCalcClock(f, ET6000MClk)
    [] k = "MGATI3026" -> MGATi3026CalcClock(f, 100000)
    [] OTHER           -> CommonCalcClock(f, GendacLimits(k))

\* Evaluated once.
Setting  == [k \in Chips |-> [f \in Wanted[k] |-> Dividers(k, f)]]
MSetting == [k \in Chips |-> [f \in MClks[k] |-> MDividers(k, f)]]
-----------------------------------------------------------------------------
(* The hardware: what a write does, and which clock the card then makes.   *)

Registers == {"MISC", "CR42", "CS", "RS2", "IX", "MX", "LX", "m", "n", "p", "mm", "mn", "mp",
              "lp", "CTL", "MSRC", "CSR", "SR0E", "SR1E", "SR0", "SR1.5", "SR8", "PIXCLKDIS",
              "VRESET", "EXT_DISP", "ICLK", "PLLSEL", "precision", "latency", "xclks", "on", "off"}
On == 128   \* the bit of a post divider register that lets its PLL run

\* What the pointers of the data ports run over.
Cells(port) ==
  CASE chip = "CH8391" /\ port = "DATA"                  -> <<"n", "m">>
    [] chip \in {"TI3025", "TI3026", "MGATI3026"} /\ port = "DATA" -> <<"n", "m", "p">>
    [] chip = "MGATI3026" /\ port = "MEM"                -> <<"mn", "mm", "mp">>
    [] port = "LOOP"                                     -> <<"", "", "lp">>
    [] OTHER                                             -> <<"m", "n", "", "mm", "mn">>
Pointer == [DATA |-> "IX", LOOP |-> "LX", MEM |-> "MX"]

\* PTR resets all pointers; a rising CTL.0 takes CTL.1 over into MSRC, which
\* says if the memory runs on its own PLL or on the one of the pixel clock.
After(r, w) ==
  IF \E port \in DOMAIN Pointer : port \in DOMAIN w THEN
    LET port == CHOOSE port \in DOMAIN Pointer : port \in DOMAIN w
        at   == r[Pointer[port]]
        cell == IF at \in DOMAIN Cells(port) THEN Cells(port)[at] ELSE ""
    IN IF cell = "" THEN r
       ELSE [r EXCEPT ![cell] = w[port], ![Pointer[port]] = at + 1]
  ELSE IF "PTR" \in DOMAIN w THEN [r EXCEPT !["IX"] = w["PTR"], !["LX"] = w["PTR"], !["MX"] = w["PTR"]]
  ELSE IF "CTL" \in DOMAIN w /\ chip = "MGATI3026" /\ w["CTL"] % 2 = 1
       THEN [w @@ r EXCEPT !["MSRC"] = w["CTL"] \div 2]
  ELSE w @@ r

Sel(r) == IF chip \in OnS3 THEN (IF r["MISC"] = 3 THEN r["CR42"] ELSE r["MISC"])
          ELSE r["MISC"] + 4 * r["CS"]
\* The CH8391's own select bits are ORed to the lines if bit 7 (hold) is set.
Or2(a, b) == (IF a \div 2 % 2 = 1 \/ b \div 2 % 2 = 1 THEN 2 ELSE 0)
             + (IF a % 2 = 1 \/ b % 2 = 1 THEN 1 ELSE 0) + 4 * (a \div 4)
ChrontelSel(r) == IF r["CSR"] >= 128 THEN Or2(r["CSR"] % 16, Sel(r)) ELSE Sel(r)

\* The frequency of the programmable pixel clock; 0 if it is stopped.
Loop(r) ==
  CASE chip \in Gendacs \cup {"S3TRIO"} -> GendacMNToClock(r["m"], r["n"])
    [] chip = "TI3025" -> IF r["p"] < On THEN 0 ELSE Ti3025Clock(r["n"], r["m"], r["p"] - On)
    [] chip \in {"TI3026", "MGATI3026"} ->
         IF r["p"] < On THEN 0 ELSE Ti3026Clock(r["n"], r["m"], r["p"] - On)
    [] chip = "IBMRGB5XX" -> IBMRGBClock(r["m"] % 64, r["n"], r["m"] \div 64, RefClk)
    [] chip = "STG1703"   -> STG1703Clock(r["m"], r["n"])
    [] chip = "CH8391"    -> ChrontelClock(r["n"], r["m"] % 64, r["m"] \div 64)
    [] chip = "SC11412"   -> SC11412Clock(r["n"], r["m"], r["p"])
    [] chip \in {"ICD2061A", "ICD2061AX", "ET4000ICD"} -> ICD2061Clock(r["p"], r["m"], r["n"])
    [] chip = "CIRRUS"    -> Clockval(r["SR0E"] % 128, r["SR1E"] % 64)
    [] chip = "LAGUNA"    -> Clockval(r["SR1E"] % 128, r["SR0E"] % 64)
    [] chip = "CYBER938x" -> TGUIClock(r["n"], r["m"] % 64, r["m"] \div 64 + 1)
    [] chip \in {"TGUI9320", "TGUI9440"} ->
         TGUIClock(r["n"] % 128, 2 * (r["m"] % 16) + r["n"] \div 128, r["m"] \div 16 + 1)
    [] chip \in {"MGA1064", "MGAG200"} ->
         MidCalcFreq(MidReff(chip = "MGAG200"), r["m"], r["n"], r["p"] % 8)
    [] chip \in Mach64s -> Mach64Clock(r["m"], r["p"], r["n"], BusClock.M, BusClock.R)
    [] chip \in Rivas   ->
         RivaClock((IF TwoStage(Card[chip].id) THEN 4 ELSE 1) * RivaCrystal(Card[chip]),
                   r["m"], r["n"], r["p"])
-----------------------------------------------------------------------------
(* The drivers.  r are the registers before; what a driver saves and puts  *)
(* back it reads there.                                                    *)

W(x, v) == << x :> v >>

\* The select functions of std_clock.c.
Select(k, no) == IF k \in OnS3 \cup {"S3TRIO"}
                 THEN IF no < 2 THEN W("MISC", no) ELSE W("MISC", 3) \o W("CR42", no)
                 ELSE W("MISC", no) \o W("CS", 0)

\* setS3gendacpll, setET4000gendacpll, setARK2000gendacpll, setET6000pll.
GendacPll(k, at, d, r) ==
  LET gate(b) == IF k = "ET6000" THEN <<>> ELSE W("RS2", b)
  IN gate(1) \o W("IX", at) \o W("DATA", d.m) \o W("DATA", d.n) \o W("IX", r["IX"]) \o gate(0)

\* settriopll; bit 5 of SR15 is never written, as the writes go to the
\* index port.
Trio(mclk, d) ==
  W("MISC", 3) \o W("SR8", 6)
  \o (IF mclk THEN W("mn", d.n) \o W("mm", d.m) ELSE W("n", d.n) \o W("m", d.m))
  \o W("SR8", 0)

\* commonSetClock.
CommonSetClock(k, mclk, d, r) ==
  IF k = "S3TRIO" THEN Trio(mclk, d) ELSE GendacPll(k, IF mclk THEN 4 ELSE 1, d, r)

\* s3OutTiIndReg, s3OutTi3026IndReg and s3OutIBMRGBIndReg.
\* (Mutant: the way in is left open.)
BehindOpen(rs2, x, v) == W("RS2", rs2) \o W(x, v)
Behind(rs2, x, v) == W("RS2", rs2) \o W(x, v) \o W("RS2", 0)

\* s3ProgramTi3025Clock, s3ProgramTi3026Clock.
Ti3025(d) ==
  Behind(1, "PTR", 1) \o Behind(1, "DATA", d.n) \o Behind(1, "DATA", d.m)
  \o Behind(1, "DATA", d.p + On) \o Behind(1, "LOOP", 1) \o Behind(1, "LOOP", 1)
  \o Behind(1, "LOOP", IF d.p > 0 THEN d.p ELSE 1) \o Behind(1, "ICLK", 1)
Ti3026(d, f) ==
  Behind(2, "PTR", 1) \o Behind(2, "DATA", d.n) \o Behind(2, "DATA", d.m)
  \o Behind(2, "DATA", (d.p % 4) + On) \o Behind(2, "LOOP", 33) \o Behind(2, "LOOP", 61)
  \o Behind(2, "LOOP", Ti3026LoopP(f) % 4) \o Behind(2, "ICLK", 1)

\* s3ProgramIBMRGBClock; CTL is the low part of pll_ctrl1, PLLSEL of pll_ctrl2.
IBMRGB(d) ==
  W("RS2", 1) \o W("RS2", 0) \o Behind(1, "m", 64 * d.df + d.m) \o Behind(1, "n", d.n)
  \o Behind(1, "PLLSEL", 2) \o Behind(1, "CTL", 3) \o Behind(1, "CTL", 1)
\* Before any clock on this chip, the fixed ones too.
\* (Mutant: left out.)
NoKludge(k) == <<>>
IBMRGBKludge(k) == IF k = "IBMRGB5XX" THEN Behind(1, "CTL", 0) ELSE <<>>

STG1703(d, r) ==
  W("RS2", 1) \o W("IX", 1) \o W("DATA", d.m) \o W("DATA", d.n)
  \o W("MISC", 3) \o W("CR42", 2) \o W("RS2", r["RS2"])
CH8391(d, r) ==
  W("RS2", 1) \o W("IX", 1) \o W("DATA", d.n) \o W("DATA", 64 * d.k + d.m)
  \o (IF r["CSR"] % 16 = 0 THEN <<>> ELSE W("CSR", (r["CSR"] % 128) + 128))
  \o W("MISC", 3) \o W("CR42", 2) \o W("IX", r["IX"]) \o W("RS2", r["RS2"])

\* Serial chips take a word over when its last bit has come in.
SetSC11412(w) == W("MISC", 3) \o W("CR42", 0) \o W("CR42", 8) \o <<w>> \o W("CR42", 2)
SC11412Mem(n, m) == SetSC11412("mn" :> n @@ "mm" :> m)
SC11412(d) ==
  SC11412Mem(106, 31)
  \o (IF d = Refused THEN <<>>
      ELSE (IF d.m = 31 THEN SC11412Mem(107, 32) ELSE <<>>)
           \o SetSC11412("n" :> d.n @@ "m" :> d.m @@ "p" :> d.d))

ICDWord(d) == <<"p" :> d.p @@ "m" :> d.m @@ "n" :> d.q>>
\* s3_init_clock, in AltICD2061SetClock.
S3InitClock(d, r) ==
  W("SR0", 1) \o W("SR1.5", 1) \o W("CR42", 3) \o W("SR0", 3) \o W("SR0", 1)
  \o W("MISC", 3) \o ICDWord(d)
  \o W("SR1.5", 0) \o W("CR42", r["CR42"]) \o W("MISC", r["MISC"]) \o W("SR0", 3)

\* CirrusSetClock; a Laguna has the two registers exchanged.
CirrusSet01(d, r) ==
  W("SR0E", (r["SR0E"] \div 128) * 128 + d.n) \o W("SR1E", (r["SR1E"] \div 64) * 64 + d.d)
Laguna(d, r) ==
  LET kept == r["SR1E"] \div 64
      top  == IF d.n >= 64 /\ kept % 2 = 0 THEN kept + 1 ELSE kept
  IN W("SR0E", (r["SR0E"] \div 128) * 128 + d.d) \o W("SR1E", top * 64 + (d.n % 64))

\* TGUISetClock.
TGUI(k, d) ==
  (IF k = "TGUI9320" THEN <<>> ELSE W("MISC", 2))
  \o (IF k = "CYBER938x"
      THEN W("n", d.n) \o W("m", 64 * (d.k - 1) + 32 * (d.m \div 32) + (d.m % 16))
      ELSE W("n", 128 * (d.m % 2) + d.n) \o W("m", 16 * (d.k - 1) + d.m \div 2))

\* A loop without a body that waits for the lock of the PLL.
Lock(pll) == << "LOCK" :> pll >>

\* MGATi3026SetMCLK borrows the pixel clock's PLL for the memory while the
\* memory's own is stopped and set.
TiData(port, d) == W(port, d.n) \o W(port, d.m) \o W(port, d.p + On)
Borrow(d) == W("IX", 1) \o TiData("DATA", d) \o Lock("p") \o W("CTL", 0) \o W("CTL", 1)
\* (Mutant: waits for the lock before it lets the PLL run.)
SetMemLate(d) == W("MX", 3) \o W("MEM", 0) \o W("MX", 1) \o Lock("mp") \o TiData("MEM", d)
SetMem(d) == W("MX", 3) \o W("MEM", 0) \o W("MX", 1) \o TiData("MEM", d) \o Lock("mp")
GiveBack(r) == W("CTL", 2) \o W("CTL", 3) \o W("IX", 3) \o W("DATA", 0)
               \o W("IX", 1) \o W("DATA", r["n"]) \o W("DATA", r["m"]) \o W("DATA", r["p"]) \o Lock("p")
\* (Mutant: the memory's own is stopped before the other one has it.)
SetMemFirst(d, r) == W("IX", 3) \o W("DATA", 0) \o SetMem(d) \o Borrow(d) \o GiveBack(r)
SetMCLK(d, r) == W("IX", 3) \o W("DATA", 0) \o Borrow(d) \o SetMem(d) \o GiveBack(r)
SetPCLK(d) == W("IX", 3) \o W("DATA", 0) \o W("IX", 1) \o TiData("DATA", d) \o W("CTL", 3)

\* midSetPixClock.
SetPixClock(d) ==
  W("PIXCLKDIS", 1) \o W("m", d.m) \o W("n", d.n) \o W("p", 8 * d.s + d.p + On)
  \o W("MISC", 2) \o Lock("p") \o W("PIXCLKDIS", 0)

\* Mach64_SetClock; n is the bit that takes the post dividers by three.
SetDsp(k, d) ==
  LET f == Mach64Dsp(d.N, Mach64Post(d.P, d.ext), BusClock.M, CharWidth, Memory, k = "MACH64GT")
  IN <<"precision" :> f.precision @@ "latency" :> f.latency @@ "xclks" :> f.xclks>>
     \o <<"on" :> f.on @@ "off" :> f.off>>
SetMach64(k, d, r) ==
  W("EXT_DISP", 1) \o W("VRESET", 1) \o W("VRESET", 0) \o W("VRESET", 1)
  \o W("m", d.N) \o W("p", d.P) \o W("VRESET", 0)
  \o (IF k = "MACH64GT" THEN W("n", d.ext) ELSE <<>>) \o SetDsp(k, d) \o W("EXT_DISP", r["EXT_DISP"])

\* RIVA128ClockSelect; the coefficients are one register.
Riva(d) == W("PLLSEL", 7) \o << "m" :> d.m @@ "n" :> d.n @@ "p" :> d.p >>
-----------------------------------------------------------------------------
(* clockchip.c.                                                            *)

\* prefer_vgaclocks, where set_clockchip_clock's case calls it.
VgaClock == <<25175, 28300>>
PrefersVga(k) == k \in Gendacs \cup OnS3 \cup {"S3TRIO", "ET4000ICD", "TGUI9320", "TGUI9440", "CYBER938x"}
VgaIndex(k, f) == {i \in {0, 1} : /\ PrefersVga(k)
                                  /\ Abs(f - VgaClock[i + 1]) < 75
                                  /\ i = 1 => k # "ICD2061AX"}

\* The output the chip's clock comes out at.
Output(k) == IF k = "ICD2061AX" THEN 1 ELSE 2

Driver(k, f, d, r) ==
  CASE k \in Gendacs  -> CommonSetClock(k, FALSE, d, r) \o Select(k, 2)
    [] k = "S3TRIO"   -> CommonSetClock(k, FALSE, d, r)
    [] k = "TI3025"   -> Ti3025(d) \o Select(k, 2)
    [] k = "TI3026"   -> Ti3026(d, f) \o Select(k, 2)
    [] k = "IBMRGB5XX" -> IBMRGB(d) \o Select(k, 2)
    [] k = "STG1703"  -> STG1703(d, r) \o Select(k, 2)
    [] k = "CH8391"   -> CH8391(d, r) \o Select(k, 2)
    [] k = "SC11412"  -> SC11412(d) \o Select(k, 2)
    [] k \in {"ICD2061A", "ICD2061AX"} ->
         S3InitClock(d, r) \o S3InitClock(d, r) \o S3InitClock(d, r) \o Select(k, Output(k))
    [] k = "ET4000ICD" -> W("MISC", 3) \o ICDWord(d) \o W("MISC", 2) \o Select(k, 2)
    [] k = "CIRRUS"   -> W("MISC", 3) \o CirrusSet01(d, r)
    [] k = "LAGUNA"   -> W("MISC", 3) \o Laguna(d, r)
    [] k \in {"TGUI9320", "TGUI9440", "CYBER938x"} -> TGUI(k, d) \o Select(k, 2)
    [] k = "MGATI3026" -> W("MISC", 3) \o SetPCLK(d)
    [] k \in {"MGA1064", "MGAG200"} -> W("MISC", 2) \o SetPixClock(d)
    [] k \in Mach64s  -> SetMach64(k, d, r)
    [] k \in Rivas    -> Riva(d)

SetClockchipClock(k, f, r) ==
  IBMRGBKludge(k)
  \o (IF VgaIndex(k, f) # {} THEN Select(k, CHOOSE i \in VgaIndex(k, f) : TRUE)
      ELSE Driver(k, f, Setting[k][f], r))

\* (Mutant: the pixel clock's index.)
SetClockchipMclockPixel(k, f, r) == GendacPll(k, 1, MSetting[k][f], r)
SetClockchipMclock(k, f, r) ==
  CASE k \in Gendacs \cup {"S3TRIO"} -> CommonSetClock(k, TRUE, MSetting[k][f], r)
    [] k = "MGATI3026" -> SetMCLK(MSetting[k][f], r)

\* SC11412SetClock returns FALSE, and only a warning is printed.
Warned == run.freq # 0 /\ VgaIndex(chip, run.freq) = {} /\ Setting[chip][run.freq] = Refused
-----------------------------------------------------------------------------
(* Runs.                                                                   *)

\* A card set up for text mode, its PLLs running; csr is what the BIOS or another
\* program has left in the clock select of a CH8391.
Found(csr) ==
         [x \in Registers |->
            CASE x \in {"p", "mp"}                          -> On + 1
              [] x = "n" /\ chip \in Mach64s                -> 0
              [] x \in {"m", "n", "mm", "mn"}               -> 40
              [] x = "SR0" -> 3
              [] x = "CTL" -> IF chip = "IBMRGB5XX" THEN 0 ELSE 3
              [] x = "MSRC" -> 1
              [] x = "CSR" -> csr
              [] x \in {"SR0E", "SR1E"}                     -> 40
              [] OTHER                                      -> 0]

NoRun == [freq |-> 0, mclk |-> 0]

Init == /\ chip \in Chips
        /\ \E csr \in IF chip = "CH8391" THEN FoundCSR ELSE {0} : regs = Found(csr)
        /\ script = <<>>
        /\ phase = "idle"
        /\ run = NoRun
        /\ held = 0
        /\ kills = 0

\* do_clock, without and with an MClk line.
Start ==
  /\ phase = "idle"
  /\ \E f \in Wanted[chip], q \in MClks[chip] \cup {0} :
       /\ run' = [freq |-> f, mclk |-> q]
       /\ IF q = 0 THEN phase' = "pixel" /\ script' = SetClockchipClock(chip, f, regs)
          ELSE phase' = "mclk" /\ script' = SetClockchipMclock(chip, q, regs)
  /\ UNCHANGED <<chip, regs, held, kills>>

Write ==
  /\ script # <<>>
  /\ "LOCK" \notin DOMAIN Head(script)
  /\ regs' = After(regs, Head(script))
  /\ script' = Tail(script)
  /\ UNCHANGED <<chip, phase, run, held, kills>>

\* A PLL that is not enabled never locks.
Locked ==
  /\ script # <<>>
  /\ "LOCK" \in DOMAIN Head(script)
  /\ regs[Head(script)["LOCK"]] >= On
  /\ script' = Tail(script)
  /\ UNCHANGED <<chip, regs, phase, run, held, kills>>

MClkDone ==
  /\ phase = "mclk" /\ script = <<>>
  /\ phase' = "pixel"
  /\ held' = run.mclk
  /\ script' = SetClockchipClock(chip, run.freq, regs)
  /\ UNCHANGED <<chip, regs, run, kills>>

Done ==
  /\ phase = "pixel" /\ script = <<>>
  /\ phase' = "idle"
  /\ UNCHANGED <<chip, regs, script, run, held, kills>>

Kill ==
  /\ script # <<>> /\ kills < MaxKills
  /\ phase' = "idle" /\ script' = <<>> /\ run' = NoRun
  /\ kills' = kills + 1
  /\ UNCHANGED <<chip, regs, held>>

Next == Start \/ Write \/ Locked \/ MClkDone \/ Done \/ Kill

\* A program that is running goes on; nobody has to start or to kill it.
Fairness == WF_vars(Write) /\ WF_vars(Locked) /\ WF_vars(MClkDone) /\ WF_vars(Done)
Spec == Init /\ [][Next]_vars /\ Fairness
-----------------------------------------------------------------------------
(* Properties.                                                             *)

\* The dot clock the card makes; 0 where the code knows of none.
Made(r) ==
  LET s == IF chip = "CH8391" THEN ChrontelSel(r) ELSE Sel(r)
      programmed ==
        CASE chip = "IBMRGB5XX"           -> s = 2 /\ r["CTL"] = 1
          [] chip \in {"S3TRIO", "CIRRUS", "LAGUNA", "MGATI3026"} -> s = 3
          [] chip \in Mach64s \cup Rivas  -> TRUE
          [] OTHER                        -> s = Output(chip)
      fixed == PrefersVga(chip) /\ s \in {0, 1} /\ (chip = "IBMRGB5XX" => r["CTL"] = 0)
  IN IF programmed THEN Loop(r) ELSE IF fixed THEN VgaClock[s + 1] ELSE 0

\* A CH8391 with select bits of its own, which are meant to be 0 (comment at
\* Ch8391clk.c:178), keeps them and, as the driver sets the hold bit where it
\* finds some, shows the clock they and the lines select together.
OwnBitsSelect(r) == chip = "CH8391" /\ ChrontelSel(r) # Sel(r)

\* When a run is over the card makes the clock it was asked for, to the
\* deviation that validation allows, whatever earlier runs left in the
\* registers and wherever one of them was killed.  Not so a refused clock, and
\* a CH8391 whose own select bits come to more than the lines.
MaxClockDeviation == 1500
Over == phase = "idle" /\ run # NoRun
\* The MACH64 then fetches from its memory at the rate the screen needs:
\* xclks / 2^(11 - precision) memory clocks for eight pixels of a character.
MemoryClock == (20 * BusClock.R * Memory.fb) \div (BusClock.M * 2^XclkPost(Memory))
FifoFollows(r) ==
  LET scale == 2^(11 - r["precision"])
      need  == (MemoryClock * CharWidth * scale) \div Made(r)
  IN chip \in Mach64s => Abs(r["xclks"] - need) <= 1 + need \div 1000
ClockAsAsked == (Over /\ ~Warned /\ ~OwnBitsSelect(regs)) =>
                  /\ Abs(Made(regs) - run.freq) <= MaxClockDeviation
                  /\ FifoFollows(regs)

\* A run leaves nothing open that it opened: the way to the clock registers,
\* through which the next palette write would go, the locks, the resets and
\* the screen.  After a killed run only one that programs the chip cleans up,
\* and not where the driver puts back what it found.
PutsBack == {"STG1703", "CH8391"} \cup Mach64s
NothingLeftOpen ==
  (Over /\ (kills = 0 \/ (chip \notin PutsBack /\ VgaIndex(chip, run.freq) = {}))) =>
     /\ \A x \in {"RS2", "SR8", "SR1.5", "PIXCLKDIS", "VRESET", "EXT_DISP"} : regs[x] = 0
     /\ regs["SR0"] = 3

\* The memory never loses its clock: while one PLL is stopped or set anew it
\* runs on the other, and the changing of hands is over when the run is.
MemoryKeepsClock ==
  kills = 0 => regs[IF regs["MSRC"] = 1 THEN "mp" ELSE "p"] >= On

\* The memory clock stays as the last MClk line set it: programming a pixel
\* clock does not touch it, and programming it leaves the pixel clock alone.
MemoryClockHeld ==
  (Over /\ kills = 0 /\ held # 0 /\ chip \in WithMClk) =>
     LET d == MSetting[chip][held]
     IN regs["mm"] = d.m /\ regs["mn"] = d.n /\ regs["MSRC"] = 1

\* A run comes to its end, the waits for a lock included, unless a killed one
\* has left a PLL stopped.
RunEnds == (phase # "idle" /\ kills = 0) ~> (phase = "idle")
=============================================================================

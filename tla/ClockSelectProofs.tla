------------------------- MODULE ClockSelectProofs --------------------------
(* Proofs about ClockSelect, for all cards, configurations and modes.      *)
EXTENDS ClockSelect, TLAPS, WellFoundedInduction

\* What sanitize_cfgfile_data and validate_mode have settled for the steps
\* of do_clock, as far as a run without a clock chip goes.
Settled ==
  /\ (~tool /\ pc \in {"validate", "mclk", "pixclock"} /\ cfg.chip = "NONE") => ~cfg.mclk
  /\ (~tool /\ pc \in {"mclk", "pixclock"} /\ validate /\ cfg.chip = "NONE")
        => GetClock(cfg, want) # Nullclock

FilesOK == card \in Cards /\ cfg \in ConfigFile

ListedInv == /\ FilesOK
             /\ Settled
             /\ pc # "ended" => exit = "none"
             /\ ListedNeverHalfway

\* The parser's record, with a chip forced upon it, is still one.
LEMMA FilesStep == ASSUME FilesOK, [Next]_vars PROVE FilesOK'
<1> USE CardsAssumption, ConfigsAssumption, ChipsAssumption DEF FilesOK, ConfigFile
<1>1. CASE Start
  BY <1>1 DEF Start
<1>2. CASE Reap
  BY <1>2 DEF Reap, NoConfig
<1>3. CASE Sanitize
  <2>1. ForcedChip(cfg) \in Chips \cup {"NONE"}
    BY DEF ForcedChip
  <2> QED
    BY <1>3, <2>1 DEF Sanitize
<1>4. CASE Validate
  BY <1>4 DEF Validate
<1>5. CASE SetMclk
  BY <1>5 DEF SetMclk
<1>6. CASE ClockProg
  BY <1>6 DEF ClockProg
<1>7. CASE SetClockchip
  BY <1>7 DEF SetClockchip
<1>8. CASE SetClock
  BY <1>8 DEF SetClock
<1>9. CASE SetDiv2
  BY <1>9 DEF SetDiv2
<1>10. CASE Kill
  BY <1>10 DEF Kill
<1>11. CASE StartClockProg
  BY <1>11 DEF StartClockProg
<1>12. CASE CheckClockProg
  BY <1>12 DEF CheckClockProg
<1>13. CASE UNCHANGED vars
  BY <1>13 DEF vars
<1> QED
  BY <1>1, <1>2, <1>3, <1>4, <1>5, <1>6, <1>7, <1>8, <1>9, <1>10, <1>11, <1>12, <1>13 DEF Next

\* One step per action: only Sanitize and Validate establish anything, and
\* the three steps of do_clock that may fail use it.
LEMMA ListedStep == ASSUME ListedInv, [Next]_vars PROVE ListedInv'
<1>1. FilesOK'
  BY FilesStep DEF ListedInv
<1> SUFFICES (Settled /\ (pc # "ended" => exit = "none") /\ ListedNeverHalfway)'
  BY <1>1 DEF ListedInv
<1> USE DEF ListedInv, Settled, ListedNeverHalfway, Go, Perror
<1>2. CASE Start
  BY <1>2 DEF Start
<1>3. CASE Reap
  BY <1>3 DEF Reap
<1>4. CASE Sanitize
  <2>1. Insane(cfg') \/ cfg'.chip # "NONE" \/ ~cfg'.mclk
    BY DEF Insane, MClkChips
  <2> QED
    BY <1>4, <2>1 DEF Sanitize
<1>5. CASE Validate
  <2>1. validate /\ ValidMode(cfg, want) /\ cfg.chip = "NONE" => GetClock(cfg, want) # Nullclock
    BY DEF ValidMode, CheckClockgen, ValidateClock
  <2> QED
    BY <1>5, <2>1 DEF Validate
<1>6. CASE SetMclk
  BY <1>6 DEF SetMclk
<1>7. CASE ClockProg
  BY <1>7 DEF ClockProg
<1>8. CASE SetClockchip
  BY <1>8 DEF SetClockchip
<1>9. CASE SetClock
  BY <1>9 DEF SetClock
<1>10. CASE SetDiv2
  BY <1>10 DEF SetDiv2
<1>11. CASE Kill
  BY <1>11 DEF Kill
<1>12. CASE StartClockProg
  BY <1>12 DEF StartClockProg
<1>13. CASE CheckClockProg
  BY <1>13 DEF CheckClockProg
<1>14. CASE UNCHANGED vars
  BY <1>14 DEF vars
<1> QED
  BY <1>2, <1>3, <1>4, <1>5, <1>6, <1>7, <1>8, <1>9, <1>10, <1>11, <1>12, <1>13, <1>14 DEF Next

\* A run on a Clocks line that passed validation is never given up in
\* do_clock, once the screen has been resized and reprogrammed.
THEOREM ListedRunsThrough == Spec => []ListedNeverHalfway
<1>1. Init => ListedInv
  BY DEF Init, NoConfig, ListedInv, FilesOK, ConfigFile, Settled, ListedNeverHalfway
<1>2. ListedInv /\ [Next]_vars => ListedInv'
  BY ListedStep
<1>3. ListedInv => ListedNeverHalfway
  BY DEF ListedInv
<1> QED
  BY <1>1, <1>2, <1>3, PTL DEF Spec
-----------------------------------------------------------------------------
(* Which clock number the select lines stand for.                          *)

\* Do registers r hold all that w says?
Says(r, w) == \A x \in DOMAIN w : r[x] = w[x]

\* The two low bits, and the bits 2, 3 and 4 up of a clock number are the number.
LEMMA Digits ==
  ASSUME NEW i \in 0..63, NEW j \in 0..63, i % 4 = j % 4, Bit(i, 2) = Bit(j, 2),
         Bit(i, 3) = Bit(j, 3), i \div 16 % 4 = j \div 16 % 4
  PROVE  i = j
  BY DEF Bit
LEMMA BitIs == ASSUME NEW i \in Nat, NEW k \in {2, 3, 4} PROVE Bit(i, k) \in {0, 1}
  BY DEF Bit
\* Numbers below 8 or 16 have no higher bits.
LEMMA NoHigher ==
  ASSUME NEW i \in 0..15
  PROVE  i \div 16 % 4 = 0 /\ (i < 8 => Bit(i, 3) = 0) /\ (i < 4 => Bit(i, 2) = 0)
  BY DEF Bit


(* What each select function says of the registers.                        *)
LEMMA S3Says ==
  ASSUME NEW no \in 0..15, NEW o, NEW r, Says(r, S3(no, o))
  PROVE  IF "Legend" \in o
         THEN r["MISC"] = no % 4 /\ r["LATCH"] = 2 * Bit(no, 4) + Bit(no, 2) /\ r["CR34.1"] = Bit(no, 3)
         ELSE IF no < 2 THEN r["MISC"] = no ELSE r["MISC"] = 3 /\ r["CR42"] = no
<1> USE DEF SetClockbits01, :>, @@, Says
<1>1. CASE "Legend" \in o
  <2>1. Says(r, Legend(no))
    BY <1>1 DEF S3
  <2> QED
    BY <1>1, <2>1 DEF Legend
<1>2. CASE "Legend" \notin o
  <2>1. CASE no < 2
    BY <1>2, <2>1 DEF S3
  <2>2. CASE ~(no < 2)
    <3>1. Says(r, SetClockbits01(3) @@ "CR42" :> no % 16)
      BY <1>2, <2>2 DEF S3
    <3>2. r["MISC"] = 3 % 4 /\ r["CR42"] = no % 16
      BY <3>1
    <3>3. no % 16 = no /\ 3 % 4 = 3
      OBVIOUS
    <3> QED
      BY <1>2, <2>2, <3>2, <3>3
  <2> QED
    BY <2>1, <2>2
<1> QED
  BY <1>1, <1>2
LEMMA WDCSays ==
  ASSUME NEW c \in LateWDC, NEW n \in Nat, NEW no \in Nat, NEW o, NEW r, Says(r, WDC(c, n, no, o))
  PROVE  IF no = MClkIndex(n) THEN r["CR2E.4"] = 1
         ELSE /\ r["CR2E.4"] = 0 /\ r["MISC"] = no % 4
              /\ r["GR0C.1"] = (Bit(no, 2) + SaveCs2(c, o)) % 2
              /\ c = "WDC90C3X" => r["SR12.2"] = Not(Bit(no, 3))
<1> USE DEF SetClockbits01, :>, @@, Says
<1>1. c # "PVGA1"
  BY DEF LateWDC
<1>2. CASE no = MClkIndex(n)
  BY <1>1, <1>2 DEF WDC
<1>3. CASE no # MClkIndex(n)
  <2> DEFINE w == WDCLines(c, no, o)
  <2>1. WDC(c, n, no, o) = (w @@ "CR2E.4" :> 0)
    BY <1>1, <1>3 DEF WDC
  <2>2. DOMAIN w = IF c = "WDC90C3X" THEN {"MISC", "GR0C.1", "SR12.2"} ELSE {"MISC", "GR0C.1"}
    BY DEF WDCLines
  <2>3. /\ w["MISC"] = no % 4 /\ w["GR0C.1"] = (Bit(no, 2) + SaveCs2(c, o)) % 2
        /\ c = "WDC90C3X" => w["SR12.2"] = Not(Bit(no, 3))
    BY DEF WDCLines
  <2> HIDE DEF w
  <2> QED
    BY <1>3, <2>1, <2>2, <2>3
<1> QED
  BY <1>2, <1>3
LEMMA ATISays ==
  ASSUME NEW c, NEW no \in Nat, NEW r, Says(r, ATI(c, no))
  PROVE  /\ r["MISC"] = no % 4 /\ r["B8.67"] = no \div 16 % 4
         /\ r["BE.4"] = Bit(no, IF c = "ATIMACH32" THEN 3 ELSE 2)
         /\ r["B9.1"] = Bit(no, IF c = "ATIMACH32" THEN 2 ELSE 3)
  BY DEF ATI, SetClockbits01, :>, @@, Says
LEMMA ALISays ==
  ASSUME NEW c, NEW no \in Nat, NEW r, Says(r, ALI(c, no))
  PROVE  /\ r["MISC"] = no % 4 /\ r["GR0C.5"] = Bit(no, 2)
         /\ c = "ALI" => r["GR0B.0"] = IF no <= 7 THEN 1 ELSE 0
<1> USE DEF SetClockbits01, :>, @@, Says
<1>1. CASE c = "ALI"
  BY <1>1 DEF ALI
<1>2. CASE c # "ALI"
  BY <1>2 DEF ALI
<1> QED
  BY <1>1, <1>2
LEMMA NCRSays ==
  ASSUME NEW c, NEW no \in Nat, NEW r, Says(r, NCR(c, no))
  PROVE  /\ r["MISC"] = no % 4
         /\ IF c = "NCR22E" THEN r["SR1F.6"] = Bit(no, 2)
            ELSE r["SR1F.5"] = Bit(no, 2) /\ r["SR1F.6"] = Bit(no, 3)
<1> USE DEF SetClockbits01, :>, @@, Says
<1>1. CASE c = "NCR22E"
  BY <1>1 DEF NCR
<1>2. CASE c # "NCR22E"
  BY <1>2 DEF NCR
<1> QED
  BY <1>1, <1>2
LEMMA OAKSays ==
  ASSUME NEW c, NEW no \in Nat, NEW r, Says(r, OAK(c, no))
  PROVE  IF c = "OTI87" THEN r["OTI06"] = no ELSE r["MISC"] = no % 4 /\ r["OTI0D.5"] = Bit(no, 2)
<1> USE DEF SetClockbits01, :>, @@, Says
<1>1. CASE c = "OTI87"
  BY <1>1 DEF OAK
<1>2. CASE c # "OTI87"
  BY <1>2 DEF OAK
<1> QED
  BY <1>1, <1>2
LEMMA RealTekSays ==
  ASSUME NEW no \in Nat, NEW r, Says(r, RealTek(no))
  PROVE  /\ r["MISC"] = no % 4 /\ r["GR0C.5"] = Bit(no, 2)
         /\ r["GR0B"] = IF Bit(no, 3) = 1 THEN 4 ELSE 2
  BY DEF RealTek, SetClockbits01, :>, @@, Says
LEMMA SISSays ==
  ASSUME NEW no \in Nat, NEW r, Says(r, SIS(no))
  PROVE  r["SR7"] = no
  BY DEF SIS, SetClockbits01, :>, @@, Says
LEMMA ARKSays ==
  ASSUME NEW no \in Nat, NEW r, Says(r, ARK(no))
  PROVE  r["MISC"] = no % 4 /\ r["SR11.67"] = no \div 4 % 4
  BY DEF ARK, SetClockbits01, :>, @@, Says
LEMMA LineSays ==
  ASSUME NEW no \in Nat, NEW r, NEW x, x # "MISC", Says(r, SetClockbits01(no) @@ x :> Bit(no, 2))
  PROVE  r["MISC"] = no % 4 /\ r[x] = Bit(no, 2)
  BY DEF SetClockbits01, :>, @@, Says
LEMMA MiscSays ==
  ASSUME NEW no \in Nat, NEW r, Says(r, SetClockbits01(no))
  PROVE  r["MISC"] = no % 4
  BY DEF SetClockbits01, :>, Says

\* The older Paradise chips: bits 0 and 1 alone.
LEMMA TwoBitsSay ==
  ASSUME NEW c \in {"PVGA1", "WDC90C0X"}, NEW n \in Nat, NEW no \in Nat, no # MClkIndex(n), NEW o,
         NEW r, Says(r, WDC(c, n, no, o))
  PROVE  r["MISC"] = no % 4
<1> USE DEF SetClockbits01, :>, @@, Says
<1>1. CASE c = "PVGA1"
  BY <1>1 DEF WDC, WDCLines, LateWDC
<1>2. CASE c = "WDC90C0X"
  BY <1>2 DEF WDC, WDCLines, LateWDC
<1> QED
  BY <1>1, <1>2
LEMMA ET4000Says ==
  ASSUME NEW no \in 0..31, NEW o, NEW r, Says(r, ET4000(no, o))
  PROVE  /\ r["MISC"] = no % 4
         /\ CASE "Legend" \in o -> r["LATCH"] = 2 * Bit(no, 4) + Bit(no, 2) /\ r["CR34.1"] = Bit(no, 3)
              [] "Legend" \notin o /\ "ET4000_AltClk" \in o ->
                   r["CR34.1"] = Bit(no, 2) /\ r["CR31.6"] = Hibit(no, o) /\ r["CR31.7"] = Bit(no, 4)
              [] OTHER -> r["CR34.1"] = Bit(no, 2) /\ r["SR7.6"] = Hibit(no, o) /\ r["CR31.6"] = Bit(no, 4)
<1> USE DEF SetClockbits01, :>, @@, Says
<1>1. CASE "Legend" \in o
  <2>1. Says(r, Legend(no))
    BY <1>1 DEF ET4000
  <2> QED
    BY <1>1, <2>1 DEF Legend
<1>2. CASE "Legend" \notin o /\ "ET4000_AltClk" \in o
  BY <1>2 DEF ET4000
<1>3. CASE "Legend" \notin o /\ "ET4000_AltClk" \notin o
  BY <1>3 DEF ET4000
<1> QED
  BY <1>1, <1>2, <1>3
LEMMA TVGASays ==
  ASSUME NEW c, NEW n \in Nat, NEW no \in Nat, NEW r, Says(r, TVGA(c, n, no))
  PROVE  /\ r["MISC"] = no % 4 /\ r["SRD.0"] = Bit(no, 2)
         /\ c = "TVGA9000" => r["SRD.6"] = Bit(no, 3)
         /\ c = "TVGA8900" /\ n > 7 => r["SRE.4"] = Bit(no, 3)
<1>1. CASE c = "TVGA9000"
  BY <1>1, ZenonT(60) DEF TVGA, SetClockbits01, :>, @@, Says
<1>2. CASE c = "TVGA8900" /\ n > 7
  <2> DEFINE w == SetClockbits01(no) @@ "SRD.1" :> 0 @@ "SRD.2" :> 0 @@ "SRD.0" :> Bit(no, 2) @@ <<>>
  <2>1. TVGA(c, n, no) = (w @@ "SRE.4" :> Bit(no, 3))
    BY <1>2 DEF TVGA
  <2>2. /\ DOMAIN w = {"MISC", "SRD.1", "SRD.2", "SRD.0"}
        /\ w["MISC"] = no % 4 /\ w["SRD.0"] = Bit(no, 2)
    BY DEF SetClockbits01, :>, @@
  <2> HIDE DEF w
  <2> QED
    BY <1>2, <2>1, <2>2 DEF :>, @@, Says
<1>3. CASE c # "TVGA9000" /\ ~(c = "TVGA8900" /\ n > 7)
  BY <1>3 DEF TVGA, SetClockbits01, :>, @@, Says
<1> QED
  BY <1>1, <1>2, <1>3
LEMMA Video7Says ==
  ASSUME NEW no \in Nat, NEW r, Says(r, Video7(no))
  PROVE  r["SRA4"] = (4 * no) % 256
<1> USE DEF SetClockbits01, :>, @@, Says
<1> DEFINE low == IF no < 2 THEN no ELSE 2
<1>1. Says(r, SetClockbits01(low) @@ "SRA4" :> (4 * no) % 256)
  BY DEF Video7
<1> HIDE DEF low
<1> QED
  BY <1>1

\* How many clocks a chipset's select function can tell apart: as many as
\* sanitize_cfgfile_data calls normal, where it says so, but for the PVGA1 and
\* the WDC90C0X, of which WDCClockSelect sets only the two low bits.
Selectable(c) ==
  CASE c \in {"PVGA1", "WDC90C0X", "MATROX"}   -> 4
    [] c \in {"TVGA8900", "TVGA9000", "TGUI"} -> 16
    [] c = "ET4000"                           -> 32
    [] c \in {"VIDEO7", "ATIMACH64"}          -> 64
    [] OTHER -> NormalClocks(c)

\* Two clock numbers that the same registers may stand for are one.
LEMMA OneNumber ==
  ASSUME NEW c \in Chipsets, NEW n \in Nat, n <= Selectable(c), NEW o,
         NEW i \in 0..(n - 1), NEW j \in 0..(n - 1),
         NEW r, Says(r, Writes(c, n, i, o)), Says(r, Writes(c, n, j, o))
  PROVE  i = j
<1>0. i \in Nat /\ j \in Nat
  OBVIOUS
<1>b. \A k \in {2, 3, 4} : Bit(i, k) \in {0, 1} /\ Bit(j, k) \in {0, 1}
  BY BitIs
<1>1. CASE c \in {"VGA", "NEOMAGIC", "MATROX"}
  <2>1. n <= 4 /\ Says(r, SetClockbits01(i)) /\ Says(r, SetClockbits01(j))
    BY <1>1 DEF Selectable, NormalClocks, Writes, LateWDC
  <2>2. i % 4 = j % 4
    BY <1>0, <2>1, MiscSays
  <2> QED
    BY <2>1, <2>2
<1>2. CASE c = "S3"
  <2>1. n <= 16 /\ Says(r, S3(i, o)) /\ Says(r, S3(j, o))
    BY <1>2 DEF Selectable, NormalClocks, Writes, LateWDC
  <2>2. \A no \in 0..15 : Says(r, S3(no, o)) =>
          IF "Legend" \in o
          THEN r["MISC"] = no % 4 /\ r["LATCH"] = 2 * Bit(no, 4) + Bit(no, 2) /\ r["CR34.1"] = Bit(no, 3)
          ELSE IF no < 2 THEN r["MISC"] = no ELSE r["MISC"] = 3 /\ r["CR42"] = no
    BY S3Says
  <2>3. i \in 0..15 /\ j \in 0..15
    BY <2>1
  <2>4. CASE "Legend" \in o
    <3>1. i % 4 = j % 4 /\ Bit(i, 3) = Bit(j, 3) /\ 2 * Bit(i, 4) + Bit(i, 2) = 2 * Bit(j, 4) + Bit(j, 2)
      BY <2>1, <2>2, <2>3, <2>4
    <3>2. Bit(i, 2) = Bit(j, 2)
      BY <3>1, <1>b
    <3> QED
      BY <3>1, <3>2, <2>3, NoHigher, Digits
  <2>5. CASE "Legend" \notin o
    BY <2>1, <2>2, <2>3, <2>5
  <2> QED
    BY <2>4, <2>5
<1>3. CASE c \in LateWDC
  <2> DEFINE s == SaveCs2(c, o)
             mclk == MClkIndex(n)
  <2>1. n <= (IF c = "WDC90C3X" THEN 17 ELSE 9)
    BY <1>3 DEF Selectable, NormalClocks, LateWDC
  <2>2. Says(r, WDC(c, n, i, o)) /\ Says(r, WDC(c, n, j, o))
    BY <1>3 DEF Writes, LateWDC
  <2>3. \A no \in Nat : Says(r, WDC(c, n, no, o)) =>
          IF no = mclk THEN r["CR2E.4"] = 1
          ELSE /\ r["CR2E.4"] = 0 /\ r["MISC"] = no % 4
               /\ r["GR0C.1"] = (Bit(no, 2) + s) % 2
               /\ c = "WDC90C3X" => r["SR12.2"] = Not(Bit(no, 3))
    BY <1>3, WDCSays
  <2>4. s \in {0, 1}
    BY DEF SaveCs2
  <2>5. CASE i = mclk \/ j = mclk
    BY <1>0, <2>2, <2>3, <2>5
  <2>6. CASE i # mclk /\ j # mclk
    <3>1. i \in 0..15 /\ j \in 0..15 /\ (c # "WDC90C3X" => i < 8 /\ j < 8)
      BY <2>1, <2>6 DEF MClkIndex
    <3>2. /\ i % 4 = j % 4
          /\ (Bit(i, 2) + s) % 2 = (Bit(j, 2) + s) % 2
          /\ c = "WDC90C3X" => Not(Bit(i, 3)) = Not(Bit(j, 3))
      BY <1>0, <2>2, <2>3, <2>6
    <3>3. Bit(i, 2) = Bit(j, 2)
      BY <1>b, <2>4, <3>2
    <3>4. Bit(i, 3) = Bit(j, 3)
      BY <1>b, <3>1, <3>2, NoHigher DEF Not
    <3> QED
      BY <3>1, <3>2, <3>3, <3>4, NoHigher, Digits
  <2> QED
    BY <2>5, <2>6
<1>4. CASE c \in {"ATI", "ATIMACH32", "ATIMACH64"}
  <2>1. n <= 64 /\ Says(r, ATI(c, i)) /\ Says(r, ATI(c, j))
    BY <1>4 DEF Selectable, NormalClocks, Writes, LateWDC
  <2>2. /\ i % 4 = j % 4 /\ i \div 16 % 4 = j \div 16 % 4
        /\ Bit(i, 2) = Bit(j, 2) /\ Bit(i, 3) = Bit(j, 3)
    BY <1>0, <2>1, ATISays
  <2> QED
    BY <2>1, <2>2, Digits
<1>5. CASE c \in {"ALI", "AL2101"}
  <2>1. n <= (IF c = "ALI" THEN 16 ELSE 8) /\ Says(r, ALI(c, i)) /\ Says(r, ALI(c, j))
    BY <1>5 DEF Selectable, NormalClocks, Writes, LateWDC
  <2>2. /\ i % 4 = j % 4 /\ Bit(i, 2) = Bit(j, 2)
        /\ c = "ALI" => (IF i <= 7 THEN 1 ELSE 0) = (IF j <= 7 THEN 1 ELSE 0)
    BY <1>0, <2>1, ALISays
  <2> QED
    BY <1>5, <2>1, <2>2 DEF Bit
<1>6. CASE c \in {"OTI67", "OTI77", "OTI87"}
  <2>1. n <= (IF c = "OTI87" THEN 16 ELSE 8) /\ Says(r, OAK(c, i)) /\ Says(r, OAK(c, j))
    BY <1>6 DEF Selectable, NormalClocks, Writes, LateWDC
  <2>2. IF c = "OTI87" THEN i = j ELSE i % 4 = j % 4 /\ Bit(i, 2) = Bit(j, 2)
    BY <1>0, <2>1, OAKSays
  <2> QED
    BY <1>6, <2>1, <2>2 DEF Bit
<1>7. CASE c \in {"NCR22E", "NCR32"}
  <2>1. n <= (IF c = "NCR32" THEN 16 ELSE 8) /\ Says(r, NCR(c, i)) /\ Says(r, NCR(c, j))
    BY <1>7 DEF Selectable, NormalClocks, Writes, LateWDC
  <2>2. i % 4 = j % 4 /\ Bit(i, 2) = Bit(j, 2) /\ (c = "NCR32" => Bit(i, 3) = Bit(j, 3))
    BY <1>0, <1>7, <2>1, NCRSays
  <2>3. i \in 0..15 /\ j \in 0..15 /\ Bit(i, 3) = Bit(j, 3)
    BY <1>7, <2>1, <2>2, NoHigher
  <2> QED
    BY <2>2, <2>3, NoHigher, Digits
<1>8. CASE c = "REALTEK"
  <2>1. n <= 16 /\ Says(r, RealTek(i)) /\ Says(r, RealTek(j))
    BY <1>8 DEF Selectable, NormalClocks, Writes, LateWDC
  <2>2. /\ i % 4 = j % 4 /\ Bit(i, 2) = Bit(j, 2)
        /\ (IF Bit(i, 3) = 1 THEN 4 ELSE 2) = (IF Bit(j, 3) = 1 THEN 4 ELSE 2)
    BY <1>0, <2>1, RealTekSays
  <2>3. Bit(i, 3) = Bit(j, 3)
    BY <1>b, <2>2
  <2> QED
    BY <2>1, <2>2, <2>3, NoHigher, Digits
<1>9. CASE c = "SIS"
  <2>1. Says(r, SIS(i)) /\ Says(r, SIS(j))
    BY <1>9 DEF Writes, LateWDC
  <2> QED
    BY <1>0, <2>1, SISSays
<1>10. CASE c = "ARK"
  <2>1. n <= 16 /\ Says(r, ARK(i)) /\ Says(r, ARK(j))
    BY <1>10 DEF Selectable, NormalClocks, Writes, LateWDC
  <2>2. i % 4 = j % 4 /\ i \div 4 % 4 = j \div 4 % 4
    BY <1>0, <2>1, ARKSays
  <2> QED
    BY <2>1, <2>2
<1>11. CASE c \in {"ET6000", "ET3000", "GVGA", "MX"}
  <2> DEFINE x == CASE c = "ET6000" -> "CR34.1" [] c = "ET3000" -> "CR24.1" [] c = "GVGA" -> "SR7.0"
                    [] OTHER -> "SRC4.0"
  <2>1. n <= 8
    BY <1>11 DEF Selectable, NormalClocks, LateWDC
  <2>2. \A no \in {i, j} : Says(r, SetClockbits01(no) @@ x :> Bit(no, 2))
    BY <1>11 DEF Writes, LateWDC, ET6000, ET3000, GVGA, MX
  <2>3. x # "MISC"
    OBVIOUS
  <2>4. i % 4 = j % 4 /\ Bit(i, 2) = Bit(j, 2)
    BY <1>0, <2>2, <2>3, LineSays
  <2> QED
    BY <2>1, <2>4 DEF Bit
<1>12. CASE c = "ET4000"
  <2>1. i \in 0..31 /\ j \in 0..31 /\ Says(r, ET4000(i, o)) /\ Says(r, ET4000(j, o))
    BY <1>12 DEF Selectable, Writes, LateWDC
  <2>2. i % 4 = j % 4
    BY <2>1, ET4000Says
  <2>3. Bit(i, 2) = Bit(j, 2) /\ Bit(i, 3) = Bit(j, 3) /\ Bit(i, 4) = Bit(j, 4)
    <3>1. CASE "Legend" \in o
      <4>1. 2 * Bit(i, 4) + Bit(i, 2) = 2 * Bit(j, 4) + Bit(j, 2) /\ Bit(i, 3) = Bit(j, 3)
        BY <2>1, <3>1, ET4000Says
      <4> QED
        BY <4>1, <1>b
    <3>2. CASE "Legend" \notin o
      <4>1. Bit(i, 2) = Bit(j, 2) /\ Hibit(i, o) = Hibit(j, o) /\ Bit(i, 4) = Bit(j, 4)
        BY <2>1, <3>2, ET4000Says
      <4> QED
        BY <4>1, <1>b DEF Hibit, Not
    <3> QED
      BY <3>1, <3>2
  <2>4. i \div 16 % 4 = j \div 16 % 4
    BY <2>1, <2>3 DEF Bit
  <2> QED
    BY <2>1, <2>2, <2>3, <2>4, Digits
<1>13. CASE c \in {"TVGA8900", "TVGA9000", "TGUI"}
  <2> DEFINE t == IF c = "TVGA9000" THEN c ELSE "TVGA8900"
  <2>1. n <= 16 /\ Says(r, TVGA(t, n, i)) /\ Says(r, TVGA(t, n, j))
    BY <1>13 DEF Selectable, Writes, LateWDC
  <2>2. i % 4 = j % 4 /\ Bit(i, 2) = Bit(j, 2) /\ (n > 7 => Bit(i, 3) = Bit(j, 3))
    BY <1>0, <2>1, TVGASays
  <2>3. i \in 0..15 /\ j \in 0..15 /\ Bit(i, 3) = Bit(j, 3)
    BY <2>1, <2>2, NoHigher
  <2> QED
    BY <2>2, <2>3, NoHigher, Digits
<1>14. CASE c = "VIDEO7"
  <2>1. n <= 64 /\ Says(r, Video7(i)) /\ Says(r, Video7(j))
    BY <1>14 DEF Selectable, Writes, LateWDC
  <2>2. (4 * i) % 256 = (4 * j) % 256
    BY <1>0, <2>1, Video7Says
  <2> QED
    BY <2>1, <2>2
<1>15. CASE c \in {"PVGA1", "WDC90C0X"}
  <2>1. n <= 4
    BY <1>15 DEF Selectable
  <2>2. i # MClkIndex(n) /\ j # MClkIndex(n)
    BY <2>1 DEF MClkIndex
  <2>3. \A no \in {i, j} : Says(r, WDC(c, n, no, o))
    BY <1>15 DEF Writes
  <2>4. r["MISC"] = i % 4
    BY <1>0, <1>15, <2>2, <2>3, TwoBitsSay
  <2>5. r["MISC"] = j % 4
    BY <1>0, <1>15, <2>2, <2>3, TwoBitsSay
  <2> QED
    BY <2>1, <2>4, <2>5
<1>16. Selectable(c) # 0
  OBVIOUS
<1> QED
  <2>1. \/ c \in {"VGA", "NEOMAGIC", "MATROX"} \/ c = "S3" \/ c \in LateWDC \/ c \in {"ATI", "ATIMACH32", "ATIMACH64"}
        \/ c \in {"ALI", "AL2101"} \/ c \in {"OTI67", "OTI77", "OTI87"} \/ c \in {"NCR22E", "NCR32"}
        \/ c = "REALTEK" \/ c = "SIS" \/ c = "ARK" \/ c \in {"ET6000", "ET3000", "GVGA", "MX"}
        \/ c = "ET4000" \/ c \in {"TVGA8900", "TVGA9000", "TGUI"} \/ c = "VIDEO7"
        \/ c \in {"PVGA1", "WDC90C0X"}
    BY <1>16 DEF Selectable, NormalClocks, LateWDC
  <2> QED
    BY <2>1, <1>1, <1>2, <1>3, <1>4, <1>5, <1>6, <1>7, <1>8, <1>9, <1>10, <1>11, <1>12, <1>13, <1>14, <1>15
-----------------------------------------------------------------------------
(* The search in the Clocks line.                                          *)

\* A set of numbers that is not empty has a least one.
LEMMA Least == ASSUME NEW T \in SUBSET Nat, T # {} PROVE \E x \in T : \A y \in T : x <= y
<1> DEFINE R == OpToRel(<, Nat)
<1>1. \A x, y \in Nat : x < y => <<x, y>> \in R
  BY DEF OpToRel
<1>2. IsWellFoundedOn(R, Nat)
  BY NatLessThanWellFounded
<1> HIDE DEF R
<1>3. PICK x \in T : \A y \in T : ~(<<y, x>> \in R)
  BY <1>2, WFMin
<1>4. \A y \in T : ~(y < x)
  BY <1>1, <1>3
<1> QED
  BY <1>4

\* The loop of findclosestclock ends with the first clock at the least distance.
LEMMA ClosestIsFirst ==
  ASSUME NEW f, Indices(f) \in Nat, Indices(f) # 0, NEW w \in Nat,
         \A i \in 0..(Indices(f) - 1) : ClockAt(f, i) \in Nat
  PROVE  /\ Closest(f, w) \in 0..(Indices(f) - 1)
         /\ \A i \in 0..(Indices(f) - 1) :
              \/ Distance(ClockAt(f, Closest(f, w)), w) < Distance(ClockAt(f, i), w)
              \/ Distance(ClockAt(f, Closest(f, w)), w) = Distance(ClockAt(f, i), w) /\ Closest(f, w) <= i
<1> DEFINE all == 0..(Indices(f) - 1)
           far(i) == Distance(ClockAt(f, i), w)
           first(i) == \A j \in all : far(i) < far(j) \/ (far(i) = far(j) /\ i <= j)
<1>1. \A i \in all : far(i) \in Nat
  BY DEF Distance
<1> HIDE DEF far
<1>2. PICK d \in {far(i) : i \in all} : \A e \in {far(i) : i \in all} : d <= e
  <2> DEFINE T == {far(i) : i \in all}
  <2>1. T \in SUBSET Nat /\ T # {}
    <3>1. 0 \in all
      OBVIOUS
    <3> QED
      BY <1>1, <3>1
  <2> HIDE DEF T
  <2>2. \E d \in T : \A e \in T : d <= e
    BY <2>1, Least
  <2> QED
    BY <2>2 DEF T
<1>3. PICK i \in {n \in all : far(n) = d} : \A j \in {n \in all : far(n) = d} : i <= j
  <2> DEFINE T == {n \in all : far(n) = d}
  <2>1. T \in SUBSET Nat /\ T # {}
    BY <1>2
  <2> HIDE DEF T
  <2>2. \E i \in T : \A j \in T : i <= j
    BY <2>1, Least
  <2> QED
    BY <2>2 DEF T
<1>4. first(i)
  BY <1>1, <1>2, <1>3
<1>5. Closest(f, w) = CHOOSE n \in all : first(n)
  BY DEF Closest, far
<1>6. Closest(f, w) \in all /\ first(Closest(f, w))
  BY <1>3, <1>4, <1>5
<1> QED
  BY <1>6 DEF far

\* Whole, halved or never set.
LEMMA ClocksAreNumbers ==
  ASSUME NEW f \in ConfigFile, NEW i \in Nat
  PROVE  ClockAt(f, i) \in Nat
<1>1. f.clocks \in Seq(Nat) /\ Len(f.clocks) \in Nat
  BY DEF ConfigFile
<1>2. \A n \in 1..Len(f.clocks) : f.clocks[n] \in Nat
  BY <1>1
<1> DEFINE n == Len(f.clocks)
<1>3. CASE i < n
  <2>1. i + 1 \in 1..n /\ ClockAt(f, i) = f.clocks[i + 1]
    BY <1>1, <1>3 DEF ClockAt
  <2> QED
    BY <2>1, <1>2
<1>4. CASE ~(i < n) /\ Div2(f) /\ i < 2 * n
  <2>1. i - n + 1 \in 1..n /\ ClockAt(f, i) = f.clocks[i - n + 1] \div 2
    BY <1>1, <1>4 DEF ClockAt
  <2>2. f.clocks[i - n + 1] \in Nat
    BY <2>1, <1>2
  <2> QED
    BY <2>1, <2>2
<1>5. CASE ~(i < n) /\ ~(Div2(f) /\ i < 2 * n)
  BY <1>1, <1>5 DEF ClockAt
<1> QED
  BY <1>3, <1>4, <1>5

\* What the search in a Clocks line ends with, if it ends with one.
LEMMA ListedIndex ==
  ASSUME NEW f \in ConfigFile, f.chipset # "CIRRUS", NEW w \in Nat, GetClock(f, w) # Nullclock
  PROVE  LET n == Len(f.clocks)
             i == GetClock(f, w)
             no == RealIndex(f, i)
         IN  /\ n \in Nat /\ i \in Nat /\ no \in 0..(n - 1) /\ f.clocks[no + 1] \in Nat
             /\ ClockAt(f, i) = f.clocks[no + 1] \div (IF i = no THEN 1 ELSE 2)
             /\ \A j \in 0..((IF Div2(f) THEN 2 ELSE 1) * n - 1) :
                  Distance(ClockAt(f, i), w) <= Distance(ClockAt(f, j), w)
<1> DEFINE n == Len(f.clocks)
           i == GetClock(f, w)
           no == RealIndex(f, i)
           m == Indices(f)
<1>1. n \in Nat /\ f.clocks \in Seq(Nat)
  BY DEF ConfigFile
<1>2. m = (IF Div2(f) THEN 2 * n ELSE n) /\ m = (IF Div2(f) THEN 2 ELSE 1) * n
  <2>1. CASE Div2(f)
    BY <1>1, <2>1 DEF Indices
  <2>2. CASE ~Div2(f)
    BY <1>1, <2>2 DEF Indices
  <2> QED
    BY <2>1, <2>2
<1>3. i = Closest(f, w) /\ ClockAt(f, i) # 0
  BY DEF GetClock
<1>4. n # 0
  <2>1. CASE n = 0
    <3>1. m = 0
      BY <1>2, <2>1
    <3>2. i = 0
      BY <1>3, <3>1 DEF Closest
    <3> QED
      BY <2>1, <3>2, <1>3 DEF ClockAt
  <2> QED
    BY <2>1
<1>5. m \in Nat /\ m # 0
  <2> HIDE DEF n, m
  <2> QED
    BY <1>1, <1>2, <1>4
<1>6. \A j \in 0..(m - 1) : ClockAt(f, j) \in Nat
  BY <1>5, ClocksAreNumbers
<1>7. i \in 0..(m - 1) /\ \A j \in 0..(m - 1) : Distance(ClockAt(f, i), w) <= Distance(ClockAt(f, j), w)
  <2>1. \A j \in 0..(m - 1) :
          \/ Distance(ClockAt(f, i), w) < Distance(ClockAt(f, j), w)
          \/ Distance(ClockAt(f, i), w) = Distance(ClockAt(f, j), w)
    BY <1>3, <1>5, <1>6, ClosestIsFirst
  <2>2. i \in 0..(m - 1)
    BY <1>3, <1>5, <1>6, ClosestIsFirst
  <2>3. \A j \in 0..(m - 1) : Distance(ClockAt(f, j), w) \in Nat
    BY <1>6 DEF Distance
  <2> QED
    BY <2>1, <2>2, <2>3
<1>8. no = IF i < n THEN i ELSE i - n
  <2>1. no = IF Div2(f) /\ i > n - 1 THEN i - n ELSE i
    BY DEF RealIndex
  <2> HIDE DEF n, m, i, no
  <2> QED
    BY <1>1, <1>2, <1>7, <2>1
<1>9. no \in 0..(n - 1)
  <2> HIDE DEF n, m, i, no
  <2> QED
    BY <1>1, <1>2, <1>7, <1>8
<1>10. f.clocks[no + 1] \in Nat
  BY <1>1, <1>9
<1>11. ClockAt(f, i) = f.clocks[no + 1] \div (IF i = no THEN 1 ELSE 2)
  <2>1. CASE i < n
    BY <1>8, <1>10, <2>1 DEF ClockAt
  <2>2. CASE ~(i < n)
    <3>1. Div2(f) /\ i < 2 * n /\ i # no /\ i - n + 1 = no + 1
      <4> HIDE DEF n, m, i, no
      <4> QED
        BY <1>1, <1>2, <1>4, <1>7, <1>8, <2>2
    <3> QED
      BY <2>2, <3>1 DEF ClockAt
  <2> QED
    BY <2>1, <2>2
<1>12. /\ n \in Nat /\ i \in Nat /\ no \in 0..(n - 1) /\ f.clocks[no + 1] \in Nat
       /\ ClockAt(f, i) = f.clocks[no + 1] \div (IF i = no THEN 1 ELSE 2)
       /\ \A j \in 0..((IF Div2(f) THEN 2 ELSE 1) * n - 1) :
            Distance(ClockAt(f, i), w) <= Distance(ClockAt(f, j), w)
  <2>1. m = (IF Div2(f) THEN 2 ELSE 1) * n
    BY <1>2
  <2> HIDE DEF n, m, i, no
  <2> QED
    BY <1>1, <2>1, <1>7, <1>9, <1>10, <1>11
<1> QED
  BY <1>12
-----------------------------------------------------------------------------
(* Which registers are written.                                            *)

\* The select functions write select lines only.
Lines == Fields \ {"PLL", "SR1.3"}

OnLines(w) == DOMAIN w \subseteq Lines

\* How sets of lines go together.
LEMMA BothOnLines == \A f, g : OnLines(f) /\ OnLines(g) => OnLines(f @@ g)
  BY DEF OnLines, @@
LEMMA OneOnLines == \A x \in Lines : \A v : OnLines(x :> v)
  BY DEF OnLines, :>
LEMMA NoneOnLines == OnLines(<<>>)
  BY DEF OnLines

\* One step per function of src/std_clock.c.
LEMMA WritesLines ==
  ASSUME NEW c \in Chipsets \ {"CIRRUS", "RIVA128"}, NEW n, NEW no, NEW o
  PROVE  OnLines(Writes(c, n, no, o))
<1>a. /\ "MISC" \in Lines /\ "LATCH" \in Lines /\ "CR34.1" \in Lines /\ "CR42" \in Lines
      /\ "SR7.6" \in Lines /\ "SR7.0" \in Lines /\ "CR31.6" \in Lines /\ "CR31.7" \in Lines
      /\ "CR24.1" \in Lines /\ "SRD.0" \in Lines /\ "SRD.1" \in Lines /\ "SRD.2" \in Lines
      /\ "SRD.6" \in Lines /\ "SRE.4" \in Lines /\ "BE.4" \in Lines /\ "B9.1" \in Lines
      /\ "B8.67" \in Lines /\ "CR2E.4" \in Lines /\ "GR0C.1" \in Lines /\ "SR12.2" \in Lines
      /\ "SRA4" \in Lines /\ "GR0C.5" \in Lines /\ "GR0B.0" \in Lines /\ "GR0B.1" \in Lines
      /\ "GR0B" \in Lines /\ "OTI06" \in Lines /\ "OTI0D.5" \in Lines /\ "SR7" \in Lines
      /\ "SR11.67" \in Lines /\ "SR1F.5" \in Lines /\ "SR1F.6" \in Lines /\ "SRC4.0" \in Lines
  BY DEF Lines, Fields
<1>b. \A m : OnLines(SetClockbits01(m))
  BY <1>a, OneOnLines DEF SetClockbits01
<1>1. OnLines(Legend(no))
  BY <1>a, <1>b, BothOnLines, OneOnLines DEF Legend
<1>2. OnLines(S3(no, o))
  BY <1>a, <1>b, <1>1, BothOnLines, OneOnLines DEF S3
<1>3. OnLines(ET4000(no, o))
  BY <1>a, <1>b, <1>1, BothOnLines, OneOnLines DEF ET4000
<1>4. OnLines(ET6000(no)) /\ OnLines(ET3000(no))
  BY <1>a, <1>b, BothOnLines, OneOnLines DEF ET6000, ET3000
<1>5. \A k : OnLines(TVGA(k, n, no))
  BY <1>a, <1>b, BothOnLines, OneOnLines, NoneOnLines DEF TVGA
<1>6. OnLines(WDC(c, n, no, o))
  <2>1. OnLines(WDCLines(c, no, o))
    BY <1>a, <1>b, BothOnLines, OneOnLines, NoneOnLines DEF WDCLines
  <2> QED
    BY <1>a, <2>1, BothOnLines, OneOnLines DEF WDC
<1>7. OnLines(ATI(c, no))
  BY <1>a, <1>b, BothOnLines, OneOnLines DEF ATI
<1>8. OnLines(Video7(no))
  BY <1>a, <1>b, BothOnLines, OneOnLines DEF Video7
<1>9. OnLines(ALI(c, no))
  BY <1>a, <1>b, BothOnLines, OneOnLines, NoneOnLines DEF ALI
<1>10. OnLines(OAK(c, no))
  BY <1>a, <1>b, BothOnLines, OneOnLines DEF OAK
<1>11. OnLines(SIS(no)) /\ OnLines(RealTek(no))
  BY <1>a, <1>b, BothOnLines, OneOnLines DEF SIS, RealTek
<1>12. OnLines(ARK(no)) /\ OnLines(NCR(c, no))
  BY <1>a, <1>b, BothOnLines, OneOnLines DEF ARK, NCR
<1>13. OnLines(GVGA(no)) /\ OnLines(MX(no))
  BY <1>a, <1>b, BothOnLines, OneOnLines DEF GVGA, MX
<1> QED
  BY <1>b, <1>2, <1>3, <1>4, <1>5, <1>6, <1>7, <1>8, <1>9, <1>10, <1>11, <1>12, <1>13
     DEF Writes, Chipsets, LateWDC

\* A chip's output is not taken for one of the two VGA clocks.
LEMMA ChipLine ==
  ASSUME NEW f \in ConfigFile, PrefersVga(f.chipset), f.chip \in Programs(f.chipset),
         NEW r, Says(r, SelectChip(f))
  PROVE  r["MISC"] \in {1, 2, 3} /\ (r["MISC"] = 1 => "ClkChipX" \in f.opts)
<1> DEFINE k == ChipClock(f)
<1>1. CASE f.chipset = "S3"
  <2>1. f.chip \in {"S3TRIO", "ICS5342", "TI3026", "ICD2061A", "IBMRGB5XX"}
    BY <1>1 DEF Programs
  <2>2. CASE f.chip = "S3TRIO"
    <3>1. Says(r, SetClockbits01(3))
      BY <1>1, <2>2 DEF SelectChip, ChipClock
    <3>2. r["MISC"] = 3 % 4
      BY <3>1, MiscSays
    <3> QED
      BY <3>2
  <2>3. CASE f.chip # "S3TRIO"
    <3>1. k \in {1, 2, 5, 6} /\ (k \in {1, 5} => "ClkChipX" \in f.opts)
      BY <1>1, <2>1, <2>3 DEF ChipClock
    <3>2. Says(r, S3(k, f.opts))
      BY <1>1, <2>1, <2>3 DEF SelectChip, Writes, ChipOpts, LateWDC
    <3>3. r["MISC"] = k % 4 \/ r["MISC"] = 3 \/ (k < 2 /\ r["MISC"] = k)
      <4> HIDE DEF k
      <4>1. k \in 0..15
        BY <3>1
      <4> QED
        BY <3>2, <4>1, S3Says
    <3> HIDE DEF k
    <3> QED
      BY <3>1, <3>3
  <2> QED
    BY <2>2, <2>3
<1>2. CASE f.chipset = "ET4000"
  <2>1. f.chip \in {"ICS5341", "ICD2061A"}
    BY <1>2 DEF Programs
  <2>2. k \in {1, 2} /\ (k = 1 => "ClkChipX" \in f.opts)
    BY <1>2, <2>1 DEF ChipClock
  <2>3. Says(r, ET4000(k, ChipOpts(f)))
    BY <1>2, <2>1 DEF SelectChip, Writes, LateWDC
  <2>4. r["MISC"] = k % 4
    <3> HIDE DEF k
    <3> QED
      BY <2>2, <2>3, ET4000Says
  <2> HIDE DEF k
  <2> QED
    BY <2>2, <2>4
<1>3. CASE f.chipset \in {"ARK", "ET6000", "TGUI"}
  <2>1. f.chip \in {"ICS5342", "ET6000", "TGUI9440"}
    BY <1>3 DEF Programs
  <2>2. k = 2
    BY <2>1 DEF ChipClock
  <2>3. \/ Says(r, ARK(2)) \/ Says(r, ET6000(2)) \/ Says(r, TVGA("TVGA8900", 4, 2))
    BY <1>3, <2>1, <2>2 DEF SelectChip, Writes, LateWDC
  <2>4. r["MISC"] = 2 % 4
    <3>1. CASE Says(r, ARK(2))
      BY <3>1, ARKSays
    <3>2. CASE Says(r, TVGA("TVGA8900", 4, 2))
      BY <3>2, TVGASays
    <3>3. CASE Says(r, ET6000(2))
      BY <3>3, LineSays DEF ET6000
    <3> QED
      BY <2>3, <3>1, <3>2, <3>3
  <2> QED
    BY <2>4
<1> QED
  BY <1>1, <1>2, <1>3 DEF PrefersVga

\* prefer_vgaclocks selects one of them.
LEMMA VgaLine ==
  ASSUME NEW c, PrefersVga(c), NEW k \in {0, 1}, NEW o, NEW r, Says(r, Writes(c, 4, k, o))
  PROVE  r["MISC"] = k
<1>1. CASE c = "S3"
  <2>1. Says(r, S3(k, o))
    BY <1>1 DEF Writes, LateWDC
  <2> QED
    BY <2>1, S3Says
<1>2. CASE c = "ET4000"
  <2>1. Says(r, ET4000(k, o))
    BY <1>2 DEF Writes, LateWDC
  <2>2. r["MISC"] = k % 4
    BY <2>1, ET4000Says
  <2> QED
    BY <2>2
<1>3. CASE c \in {"ARK", "ET6000", "TGUI"}
  <2>1. \/ Says(r, ARK(k)) \/ Says(r, ET6000(k)) \/ Says(r, TVGA("TVGA8900", 4, k))
    BY <1>3 DEF Writes, LateWDC
  <2>2. r["MISC"] = k % 4
    <3>1. CASE Says(r, ARK(k))
      BY <3>1, ARKSays
    <3>2. CASE Says(r, TVGA("TVGA8900", 4, k))
      BY <3>2, TVGASays
    <3>3. CASE Says(r, ET6000(k))
      BY <3>3, LineSays DEF ET6000
    <3> QED
      BY <2>1, <3>1, <3>2, <3>3
  <2> QED
    BY <2>2
<1> QED
  BY <1>1, <1>2, <1>3 DEF PrefersVga
-----------------------------------------------------------------------------
(* What the registers show, at the steps of a run after the selection.     *)

\* The index the search ends with, and the clock asked of the chip.
Index == GetClock(cfg, want)
Asked == IF Doubled(cfg, want) THEN 2 * want ELSE want

\* The select lines show the clock of the search, the chip or one of the two
\* VGA clocks makes what was asked for.
ListedShown ==
  cfg.chip = "NONE" =>
    /\ cfg.chipset \in Chipsets \ {"CIRRUS", "RIVA128"}
    /\ Index # Nullclock
    /\ Holds(Writes(cfg.chipset, Len(cfg.clocks), RealIndex(cfg, Index), cfg.opts))
ChipMakes == cfg.chip # "NONE" => \A q \in Multiplexed : q \in Nat /\ Distance(q, Asked) < 75

\* Is the card to divide what it then has by two?
Halved == IF cfg.chip = "NONE" THEN Index # RealIndex(cfg, Index) ELSE Doubled(cfg, want)

\* What is settled after SetClock or SetClockchip, and after SetDiv2.
Selected == ListedShown /\ ChipMakes

ClockInv ==
  /\ FilesOK /\ want \in Nat
  /\ Fields \subseteq DOMAIN regs
  /\ pc # "ended" => exit = "none"
  /\ pc \in {"validate", "mclk", "pixclock", "div2"} =>
       cfg.chipset # "NONE" /\ (cfg.chip = "NONE" => cfg.chipset \notin {"CIRRUS", "RIVA128"})
  /\ pc \in {"mclk", "pixclock", "div2"} \/ exit = "done" => (validate => CheckClockgen(cfg, want))
  /\ pc = "div2" => Selected /\ (divby2 <=> Halved)
  /\ exit = "done" => Selected /\ regs["SR1.3"] = IF Halved THEN 1 ELSE 0

\* What was written is read, and the rest is as it was.
LEMMA PutSays ==
  ASSUME NEW w, Put(w)
  PROVE  /\ Says(regs', w)
         /\ DOMAIN regs' = (DOMAIN w) \cup (DOMAIN regs)
         /\ \A x \in (DOMAIN regs) \ DOMAIN w : regs'[x] = regs[x]
  BY DEF Put, Says, @@

\* SetClockchip: what the chip was asked for, or a VGA clock close to it.
LEMMA ChipStep ==
  ASSUME FilesOK, want \in Nat, Fields \subseteq DOMAIN regs, cfg.chipset # "NONE",
         SetClockchip, pc' = "div2"
  PROVE  ChipMakes' /\ Fields \subseteq DOMAIN regs'
<1> DEFINE q == Asked
<1>1. /\ cfg' = cfg /\ want' = want /\ cfg.chip # "NONE"
      /\ cfg.chip \in Programs(cfg.chipset) \/ VgaIndex(cfg, q) # {}
      /\ Put(ChipWrites(cfg, q))
  BY DEF SetClockchip, Perror, Asked
<1>2. cfg \in ConfigFile /\ cfg.chipset \in Chipsets /\ q \in Nat
  BY CardsAssumption DEF FilesOK, ConfigFile, Asked
<1>3. Fields \subseteq DOMAIN regs' /\ Says(regs', ChipWrites(cfg, q))
  BY <1>1, PutSays
<1>4. Asked' = q
  BY <1>1 DEF Asked
<1>5. SUFFICES ASSUME NEW p \in Multiplexed' PROVE p \in Nat /\ Distance(p, q) < 75
  BY <1>3, <1>4 DEF ChipMakes
<1> HIDE DEF q
<1>6. CASE VgaIndex(cfg, q) = {}
  <2>1. Says(regs', SelectChip(cfg) @@ "PLL" :> q)
    BY <1>3, <1>6 DEF ChipWrites
  <2>2. OnLines(SelectChip(cfg))
    <3>1. \A m : OnLines(SetClockbits01(m))
      BY DEF OnLines, Lines, Fields, SetClockbits01, :>
    <3>2. cfg.chip \in Programs(cfg.chipset)
      BY <1>1, <1>6
    <3>3. cfg.chip \in {"S3TRIO", "CIRRUS"} \/ cfg.chipset \notin {"CIRRUS"}
      BY <3>2 DEF Programs
    <3>4. \A n, no, o : cfg.chipset \notin {"CIRRUS", "RIVA128"} => OnLines(Writes(cfg.chipset, n, no, o))
      BY <1>2, WritesLines
    <3> QED
      BY <3>1, <3>3, <3>4, NoneOnLines DEF SelectChip
  <2>3. "PLL" \notin DOMAIN SelectChip(cfg)
    BY <2>2 DEF OnLines, Lines
  <2>4. regs'["PLL"] = q /\ Says(regs', SelectChip(cfg))
    BY <2>1, <2>3 DEF Says, @@, :>
  <2>5. PrefersVga(cfg.chipset) =>
          regs'["MISC"] \in {1, 2, 3} /\ (regs'["MISC"] = 1 => "ClkChipX" \in cfg.opts)
    BY <1>1, <1>2, <1>6, <2>4, ChipLine
  <2>6. p = q
    BY <1>1, <2>4, <2>5 DEF Multiplexed
  <2> QED
    BY <1>2, <2>6 DEF Distance
<1>7. CASE VgaIndex(cfg, q) # {}
  <2> DEFINE k == CHOOSE n \in VgaIndex(cfg, q) : TRUE
  <2>1. k \in VgaIndex(cfg, q)
    BY <1>7
  <2>2. /\ k \in {0, 1} /\ PrefersVga(cfg.chipset) /\ Distance(q, VgaClock[k + 1]) < 75
        /\ k = 1 => "ClkChipX" \notin cfg.opts
    BY <2>1 DEF VgaIndex, StdVga
  <2>3. Says(regs', Writes(cfg.chipset, 4, k, cfg.opts))
    BY <1>3, <1>7 DEF ChipWrites
  <2> HIDE DEF k
  <2>4. regs'["MISC"] = k
    BY <2>2, <2>3, VgaLine
  <2>5. p = VgaClock[k + 1]
    BY <1>1, <2>2, <2>4 DEF Multiplexed
  <2>6. VgaClock[k + 1] \in Nat
    BY <2>2 DEF VgaClock
  <2> QED
    BY <1>2, <2>2, <2>5, <2>6 DEF Distance
<1> QED
  BY <1>6, <1>7

\* SetClock: the line of the clock that was found.
LEMMA ListedSetStep ==
  ASSUME FilesOK, want \in Nat, Fields \subseteq DOMAIN regs,
         cfg.chipset # "NONE", cfg.chip = "NONE" => cfg.chipset \notin {"CIRRUS", "RIVA128"},
         SetClock, pc' = "div2"
  PROVE  ListedShown' /\ Fields \subseteq DOMAIN regs'
<1>1. /\ cfg' = cfg /\ want' = want /\ cfg.chip = "NONE" /\ Index # Nullclock
      /\ Put(Writes(cfg.chipset, Len(cfg.clocks), RealIndex(cfg, Index), cfg.opts))
  BY DEF SetClock, Perror, Index
<1>2. cfg.chipset \in Chipsets
  BY CardsAssumption DEF FilesOK, ConfigFile
<1>3. /\ Says(regs', Writes(cfg.chipset, Len(cfg.clocks), RealIndex(cfg, Index), cfg.opts))
      /\ Fields \subseteq DOMAIN regs'
  BY <1>1, PutSays
<1>4. Index' = Index
  BY <1>1 DEF Index
<1> QED
  BY <1>1, <1>2, <1>3, <1>4 DEF ListedShown, Holds, Says

\* Setting the divider leaves the lines and the chip as they are.
LEMMA DividerStep ==
  ASSUME FilesOK, Fields \subseteq DOMAIN regs, Selected, SetDiv2
  PROVE  Selected' /\ Fields \subseteq DOMAIN regs' /\ regs'["SR1.3"] = Div2Bit
<1>1. cfg' = cfg /\ want' = want /\ Put("SR1.3" :> Div2Bit)
  BY DEF SetDiv2
<1>2. /\ regs'["SR1.3"] = Div2Bit /\ DOMAIN regs' = {"SR1.3"} \cup DOMAIN regs
      /\ \A x \in (DOMAIN regs) \ {"SR1.3"} : regs'[x] = regs[x]
  BY <1>1, PutSays DEF Says, :>
<1>3. regs'["MISC"] = regs["MISC"] /\ regs'["PLL"] = regs["PLL"]
  BY <1>2 DEF Fields
<1>4. Index' = Index /\ Asked' = Asked
  BY <1>1 DEF Index, Asked
<1>5. ListedShown'
  <2>1. SUFFICES ASSUME cfg.chip = "NONE"
        PROVE  Holds(Writes(cfg.chipset, Len(cfg.clocks), RealIndex(cfg, Index), cfg.opts))'
    BY <1>1, <1>4 DEF ListedShown, Selected
  <2> DEFINE w == Writes(cfg.chipset, Len(cfg.clocks), RealIndex(cfg, Index), cfg.opts)
  <2>2. Holds(w) /\ cfg.chipset \in Chipsets \ {"CIRRUS", "RIVA128"}
    BY <2>1 DEF ListedShown, Selected
  <2>4. OnLines(w)
    BY <2>2, WritesLines
  <2>3. w' = w
    BY <1>1, <1>4
  <2> HIDE DEF w
  <2> QED
    BY <1>2, <2>2, <2>3, <2>4 DEF Holds, OnLines, Lines, w
<1>6. ChipMakes'
  BY <1>1, <1>3, <1>4 DEF ChipMakes, Multiplexed, Selected
<1> QED
  BY <1>2, <1>5, <1>6 DEF Selected
-----------------------------------------------------------------------------
(* The invariant holds.                                                    *)

\* Before the first run nothing is claimed of the registers.
LEMMA ClockInvInit == Init => ClockInv
<1> SUFFICES ASSUME Init PROVE ClockInv
  OBVIOUS
<1>1. FilesOK
  BY DEF Init, FilesOK, NoConfig, ConfigFile
<1>2. Fields \subseteq DOMAIN regs
  BY DEF Init, Found
<1> QED
  BY <1>1, <1>2 DEF Init, ClockInv

\* One step per action; Sanitize and the two validations establish what the
\* later steps rely on, SetClock and SetClockchip what the card then shows.
LEMMA ClockInvStep == ASSUME ClockInv, [Next]_vars PROVE ClockInv'
<1>1. FilesOK'
  BY FilesStep DEF ClockInv
<1> USE DEF Go, Perror
<1>2. CASE Start
  <2>1. want' \in Nat
    BY <1>2, WantedAssumption DEF Start
  <2> QED
    BY <1>1, <1>2, <2>1 DEF Start, ClockInv
<1>3. CASE StartClockProg
  <2>1. want' \in Nat
    BY <1>3, WantedAssumption DEF StartClockProg
  <2> QED
    BY <1>1, <1>3, <2>1 DEF StartClockProg, ClockInv
<1>4. CASE Reap
  BY <1>1, <1>4 DEF Reap, ClockInv
<1>5. CASE Sanitize
  <2>1. pc' = "validate" => /\ cfg'.chipset # "NONE"
                            /\ cfg'.chip = "NONE" => cfg'.chipset \notin {"CIRRUS", "RIVA128"}
    <3>1. cfg' = [cfg EXCEPT !.chip = ForcedChip(cfg)] /\ (pc' = "validate" => ~Insane(cfg'))
      BY <1>5 DEF Sanitize
    <3>2. cfg \in ConfigFile
      BY DEF ClockInv, FilesOK
    <3>3. cfg'.chip = ForcedChip(cfg) /\ cfg'.chipset = cfg.chipset
      BY <3>1, <3>2 DEF ConfigFile
    <3> QED
      BY <3>1, <3>3 DEF Insane, Contradictory, ForcedChip
  <2>2. pc' \in {"validate", "ended"} /\ exit' # "done" /\ (pc' # "ended" => exit' = "none")
        /\ UNCHANGED <<want, regs>>
    BY <1>5 DEF Sanitize, ClockInv
  <2> QED
    BY <1>1, <2>1, <2>2 DEF ClockInv
<1>6. CASE Validate
  <2>1. pc' = "mclk" => (validate => CheckClockgen(cfg, want))
    BY <1>6 DEF Validate, ValidMode
  <2>2. /\ pc' \in {"mclk", "ended"} /\ exit' # "done" /\ (pc' # "ended" => exit' = "none")
        /\ UNCHANGED <<want, regs, cfg, validate>> /\ pc = "validate"
    BY <1>6 DEF Validate, ClockInv
  <2> QED
    BY <1>1, <2>1, <2>2 DEF ClockInv
<1>7. CASE CheckClockProg
  <2>1. pc' = "mclk" => CheckClockgen(cfg, want)
    BY <1>7 DEF CheckClockProg
  <2>2. PICK mclk \in BOOLEAN : cfg' = [cfg EXCEPT !.mclk = mclk]
    <3>1. PICK i, m \in BOOLEAN : cfg' = [cfg EXCEPT !.mclk = IF i THEN m ELSE @]
      BY <1>7 DEF CheckClockProg
    <3>2. cfg.mclk \in BOOLEAN
      BY DEF ClockInv, FilesOK, ConfigFile
    <3> QED
      BY <3>1, <3>2
  <2>3. cfg \in ConfigFile
    BY DEF ClockInv, FilesOK
  <2>4. /\ cfg'.chip = cfg.chip /\ cfg'.chipset = cfg.chipset
        /\ cfg'.opts = cfg.opts /\ cfg'.clocks = cfg.clocks
    BY <2>2, <2>3 DEF ConfigFile
  <2>5. CheckClockgen(cfg', want) <=> CheckClockgen(cfg, want)
    <3>1. Div2(cfg') <=> Div2(cfg)
      BY <2>4 DEF Div2
    <3>2. Indices(cfg') = Indices(cfg) /\ \A i : ClockAt(cfg', i) = ClockAt(cfg, i)
      BY <2>4, <3>1 DEF Indices, ClockAt
    <3>3. Closest(cfg', want) = Closest(cfg, want)
      <4>1. CASE Indices(cfg) = 0
        BY <3>2, <4>1 DEF Closest
      <4>2. CASE Indices(cfg) # 0
        <5> DEFINE last == Indices(cfg) - 1
                   far(i) == Distance(ClockAt(cfg, i), want)
                   a == Closest(cfg, want)
                   b == Closest(cfg', want)
        <5>1. Indices(cfg) \in Nat /\ \A i \in 0..last : ClockAt(cfg, i) \in Nat /\ far(i) \in Nat
          <6>1. Indices(cfg) \in Nat
            BY <2>3 DEF Indices, ConfigFile
          <6>2. \A i \in 0..last : ClockAt(cfg, i) \in Nat
            BY <2>3, <6>1, ClocksAreNumbers
          <6>3. want \in Nat
            BY DEF ClockInv
          <6> QED
            BY <6>1, <6>2, <6>3 DEF Distance
        <5>2. want \in Nat
          BY DEF ClockInv
        <5>3. a \in 0..last /\ \A i \in 0..last : far(a) < far(i) \/ (far(a) = far(i) /\ a <= i)
          BY <4>2, <5>1, <5>2, ClosestIsFirst
        <5>4. b \in 0..last /\ \A i \in 0..last : far(b) < far(i) \/ (far(b) = far(i) /\ b <= i)
          BY <3>2, <4>2, <5>1, <5>2, ClosestIsFirst
        <5> HIDE DEF last, far, a, b
        <5>5. a = b
          BY <5>1, <5>3, <5>4
        <5> QED
          BY <5>5 DEF a, b
      <4> QED
        BY <4>1, <4>2
    <3>4. GetClock(cfg', want) = GetClock(cfg, want)
      BY <2>4, <3>2, <3>3 DEF GetClock
    <3> QED
      BY <2>4, <3>1, <3>2, <3>4 DEF CheckClockgen, ValidateClock
  <2>6. /\ pc' \in {"mclk", "ended"} /\ exit' # "done" /\ (pc' # "ended" => exit' = "none")
        /\ UNCHANGED <<want, regs, validate>> /\ pc = "validate"
    BY <1>7 DEF CheckClockProg, ClockInv
  <2> QED
    BY <1>1, <2>1, <2>4, <2>5, <2>6 DEF ClockInv
<1>8. CASE SetMclk
  BY <1>1, <1>8 DEF SetMclk, ClockInv
<1>9. CASE ClockProg
  BY <1>1, <1>9 DEF ClockProg, ClockInv
<1>10. CASE SetClockchip
  <2>1. CASE pc' = "div2"
    <3>1. ChipMakes' /\ Fields \subseteq DOMAIN regs'
      BY <1>10, <2>1, ChipStep DEF ClockInv, SetClockchip
    <3>2. UNCHANGED <<cfg, want, validate>> /\ exit' = exit /\ cfg.chip # "NONE"
          /\ divby2' = Doubled(cfg, want)
      BY <1>10, <2>1 DEF SetClockchip
    <3>3. ListedShown'
      BY <3>2 DEF ListedShown
    <3>4. divby2' <=> Halved'
      BY <3>2 DEF Halved
    <3> QED
      BY <1>1, <1>10, <2>1, <3>1, <3>2, <3>3, <3>4 DEF ClockInv, Selected, SetClockchip
  <2>2. CASE pc' # "div2"
    BY <1>1, <1>10, <2>2 DEF SetClockchip, ClockInv
  <2> QED
    BY <2>1, <2>2
<1>11. CASE SetClock
  <2>1. CASE pc' = "div2"
    <3>1. ListedShown' /\ Fields \subseteq DOMAIN regs'
      BY <1>11, <2>1, ListedSetStep DEF ClockInv, SetClock
    <3>2. UNCHANGED <<cfg, want, validate>> /\ exit' = exit /\ cfg.chip = "NONE"
          /\ divby2' = (Index # RealIndex(cfg, Index))
      BY <1>11, <2>1 DEF SetClock, Index
    <3>3. ChipMakes'
      BY <3>2 DEF ChipMakes
    <3>4. divby2' <=> Halved'
      BY <3>2 DEF Halved, Index
    <3> QED
      BY <1>1, <1>11, <2>1, <3>1, <3>2, <3>3, <3>4 DEF ClockInv, Selected, SetClock
  <2>2. CASE pc' # "div2"
    BY <1>1, <1>11, <2>2 DEF SetClock, ClockInv
  <2> QED
    BY <2>1, <2>2
<1>12. CASE SetDiv2
  <2>1. Selected' /\ Fields \subseteq DOMAIN regs' /\ regs'["SR1.3"] = Div2Bit
    BY <1>12, DividerStep DEF ClockInv, SetDiv2
  <2>2. UNCHANGED <<cfg, want, validate>> /\ pc' = "ended" /\ pc = "div2"
    BY <1>12 DEF SetDiv2
  <2>3. divby2 <=> Halved
    BY <2>2 DEF ClockInv
  <2>4. Halved => Div2(cfg)
    BY DEF Halved, RealIndex, Doubled
  <2>5. Halved' <=> Halved
    BY <2>2 DEF Halved, Index
  <2>6. regs'["SR1.3"] = IF Halved' THEN 1 ELSE 0
    BY <2>1, <2>3, <2>4, <2>5 DEF Div2Bit
  <2> QED
    BY <1>1, <2>1, <2>2, <2>6 DEF ClockInv
<1>13. CASE Kill
  BY <1>1, <1>13 DEF Kill, ClockInv
<1>14. CASE UNCHANGED vars
  BY <1>1, <1>14 DEF vars, ClockInv, Selected, ListedShown, ChipMakes, Halved, Index, Asked, Holds, Multiplexed
<1> QED
  BY <1>2, <1>3, <1>4, <1>5, <1>6, <1>7, <1>8, <1>9, <1>10, <1>11, <1>12, <1>13, <1>14 DEF Next

\* By induction over the steps of the runs.
LEMMA ClockAlways == Spec => []ClockInv
  BY ClockInvInit, ClockInvStep, PTL DEF Spec

\* The registers show the clock of the search alone.
LEMMA OnlyItsClock ==
  ASSUME ClockInv, exit = "done", cfg.chip = "NONE", Len(cfg.clocks) <= Selectable(cfg.chipset)
  PROVE  /\ RealIndex(cfg, Index) \in 0..(Len(cfg.clocks) - 1)
         /\ Shown = {RealIndex(cfg, Index)}
         /\ DotClocks = {ClockAt(cfg, Index)}
<1> DEFINE n == Len(cfg.clocks)
           no == RealIndex(cfg, Index)
           q == cfg.clocks[no + 1]
<1>1. /\ cfg \in ConfigFile /\ want \in Nat /\ Selected
      /\ regs["SR1.3"] = IF Index # no THEN 1 ELSE 0
  BY DEF ClockInv, FilesOK, Halved
<1>2. /\ cfg.chipset \in Chipsets \ {"CIRRUS", "RIVA128"} /\ Index # Nullclock
      /\ Holds(Writes(cfg.chipset, n, no, cfg.opts))
  BY <1>1 DEF Selected, ListedShown
<1>3. /\ n \in Nat /\ no \in 0..(n - 1) /\ q \in Nat
      /\ ClockAt(cfg, Index) = q \div (IF Index = no THEN 1 ELSE 2)
  BY <1>1, <1>2, ListedIndex DEF Index
<1>4. \A i \in Shown : i = no
  <2>1. SUFFICES ASSUME NEW i \in 0..(n - 1), Holds(Writes(cfg.chipset, n, i, cfg.opts)) PROVE i = no
    BY DEF Shown
  <2>2. \A m : Holds(Writes(cfg.chipset, n, m, cfg.opts)) => Says(regs, Writes(cfg.chipset, n, m, cfg.opts))
    BY DEF Holds, Says
  <2> HIDE DEF n, no
  <2> QED
    BY <1>2, <1>3, <2>1, <2>2, OneNumber DEF n
<1>5. no \in Shown
  BY <1>2, <1>3 DEF Shown
<1>6. Multiplexed = {q}
  BY <1>4, <1>5 DEF Multiplexed
<1>7. q \div (1 + regs["SR1.3"]) = ClockAt(cfg, Index)
  BY <1>1, <1>3
<1> QED
  BY <1>3, <1>4, <1>5, <1>6, <1>7 DEF DotClocks

\* A normal line is one whose clocks the lines tell apart.
LEMMA OneClockRight == ClockInv /\ cfg.chipset \notin {"PVGA1", "WDC90C0X"} => OneClockShown
<1> SUFFICES ASSUME ClockInv, cfg.chipset \notin {"PVGA1", "WDC90C0X"}, exit = "done", cfg.chip = "NONE",
                    Len(cfg.clocks) <= NormalClocks(cfg.chipset)
             PROVE  \E no \in Shown : Shown = {no}
  BY DEF OneClockShown
<1>1. cfg.chipset \in Chipsets /\ Len(cfg.clocks) \in Nat /\ Index # Nullclock
  BY DEF ClockInv, FilesOK, ConfigFile, Selected, ListedShown
<1>2. NormalClocks(cfg.chipset) <= Selectable(cfg.chipset)
  BY <1>1 DEF NormalClocks, Selectable, Chipsets
<1>3. Selectable(cfg.chipset) \in Nat /\ NormalClocks(cfg.chipset) \in Nat
  BY <1>1 DEF NormalClocks, Selectable, Chipsets
<1>4. Len(cfg.clocks) <= Selectable(cfg.chipset)
  BY <1>1, <1>2, <1>3
<1> QED
  BY <1>4, OnlyItsClock

\* The clock shown is the one the search ended with.
LEMMA NearestRight == ClockInv /\ Len(cfg.clocks) <= Selectable(cfg.chipset) => NearestClockOut
<1> SUFFICES ASSUME ClockInv, Len(cfg.clocks) <= Selectable(cfg.chipset), exit = "done", cfg.chip = "NONE",
                    NEW i \in 0..((IF Div2(cfg) THEN 2 ELSE 1) * Len(cfg.clocks) - 1)
             PROVE  \A q \in DotClocks : Distance(q, want) <= Distance(ClockAt(cfg, i), want)
  BY DEF NearestClockOut
<1>1. /\ cfg \in ConfigFile /\ want \in Nat /\ Index # Nullclock /\ cfg.chipset # "CIRRUS"
  BY DEF ClockInv, FilesOK, Selected, ListedShown
<1>2. Distance(ClockAt(cfg, Index), want) <= Distance(ClockAt(cfg, i), want)
  BY <1>1, ListedIndex DEF Index
<1> QED
  BY <1>2, OnlyItsClock

\* That one was validated; a chip's output is off by the tolerance of StdVga.
LEMMA ValidatedRight ==
  ClockInv /\ (cfg.chip = "NONE" => Len(cfg.clocks) <= Selectable(cfg.chipset)) => ClockAsValidated
<1> SUFFICES ASSUME ClockInv, cfg.chip = "NONE" => Len(cfg.clocks) <= Selectable(cfg.chipset),
                    exit = "done", validate, NEW d \in DotClocks
             PROVE  Distance(d, want) <= MaxClockDeviation
  BY DEF ClockAsValidated
<1>1. CheckClockgen(cfg, want) /\ want \in Nat /\ Selected
  BY DEF ClockInv
<1>2. CASE cfg.chip = "NONE"
  <2>1. d = ClockAt(cfg, Index)
    BY <1>2, OnlyItsClock
  <2> QED
    BY <1>1, <1>2, <2>1 DEF CheckClockgen, ValidateClock, Index
<1>3. CASE cfg.chip # "NONE"
  <2>1. PICK q \in Multiplexed : d = q \div (1 + regs["SR1.3"])
    BY DEF DotClocks
  <2>2. q \in Nat /\ Distance(q, Asked) < 75
    BY <1>1, <1>3 DEF Selected, ChipMakes
  <2>3. CASE Doubled(cfg, want)
    <3>1. Asked = 2 * want /\ d = q \div 2
      BY <1>3, <2>1, <2>3 DEF ClockInv, Halved, Asked
    <3> QED
      BY <1>1, <2>2, <3>1 DEF Distance, MaxClockDeviation
  <2>4. CASE ~Doubled(cfg, want)
    <3>1. Asked = want /\ d = q
      BY <1>3, <2>1, <2>2, <2>4 DEF ClockInv, Halved, Asked
    <3> QED
      BY <1>1, <2>2, <3>1 DEF Distance, MaxClockDeviation
  <2> QED
    BY <2>3, <2>4
<1> QED
  BY <1>2, <1>3
-----------------------------------------------------------------------------
(* Which clock is on the screen.                                           *)

\* On any card but the two whose SetClock function drives too few lines, a
\* Clocks line of the normal length shows one clock (src/std_clock.c).
THEOREM OneClockIsShown ==
  Spec => [](cfg.chipset \notin {"PVGA1", "WDC90C0X"} => OneClockShown)
  BY ClockAlways, OneClockRight, PTL

\* No listed clock is nearer to the wanted one than the card's, if the lines
\* can tell all of them apart (findclosestclock and SetClock, src/setclock.c).
THEOREM NearestClockIsOut ==
  Spec => [](Len(cfg.clocks) <= Selectable(cfg.chipset) => NearestClockOut)
  BY ClockAlways, NearestRight, PTL

\* What the card makes after a validated run is what validation let pass, chip
\* or Clocks line, whatever was left in its registers (do_clock, src/setclock.c).
THEOREM ClockIsAsValidated ==
  Spec => []((cfg.chip = "NONE" => Len(cfg.clocks) <= Selectable(cfg.chipset)) => ClockAsValidated)
  BY ClockAlways, ValidatedRight, PTL
=============================================================================

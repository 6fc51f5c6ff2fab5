--------------------------- MODULE MCClockSelect ----------------------------
(* ClockSelect on small sets of cards, configurations and modes.           *)
EXTENDS ClockSelect

\* With a dummy 0 clock, as real Clocks lines have; beyond 16 distinct ones.
Clocks == <<25175, 28322, 0, 40000, 44900, 36000, 31500, 50350,
            65000, 38000, 56644, 33600, 77000, 12600, 47000, 30000>>
          \o [i \in 1..48 |-> 60000 + 1000 * i]

File(c) == [NoConfig EXCEPT !.chipset = c, !.maxclock = 80000]

\* Clocks lines of four clocks, of the normal length, and of nothing but a
\* dummy.
Listed(c, optsets) ==
  {[File(c) EXCEPT !.clocks = SubSeq(Clocks, 1, n), !.opts = o] :
     n \in {4, IF NormalClocks(c) = 0 THEN 16 ELSE NormalClocks(c)}, o \in optsets}
  \cup {[File(c) EXCEPT !.clocks = <<0>>]}

\* Clock chips, and the same with a memory clock.
WithChip(c, chips, optsets) ==
  {[File(c) EXCEPT !.chip = k, !.opts = o, !.refclk = (k = "IBMRGB5XX")] :
     k \in chips, o \in optsets}
  \cup {[File(c) EXCEPT !.chip = k, !.mclk = TRUE, !.refclk = (k = "IBMRGB5XX")] : k \in chips}

\* What is, or should be, refused.
Odd(c) ==
  {File("NONE"), File(c),
   [File(c) EXCEPT !.prog = TRUE],
   [File(c) EXCEPT !.prog = TRUE, !.clocks = SubSeq(Clocks, 1, 4)],
   [File(c) EXCEPT !.mclk = TRUE, !.clocks = SubSeq(Clocks, 1, 4)],
   [File(c) EXCEPT !.chip = "TI3026", !.clocks = SubSeq(Clocks, 1, 4)],
   [File(c) EXCEPT !.chip = "IBMRGB5XX"],
   [File(c) EXCEPT !.chip = "TI3026", !.mclk = TRUE],
   [File(c) EXCEPT !.chip = "TI3026", !.prog = TRUE]}

MCOptions == {{}, {"ClockDiv2"}, {"SwapHibit", "HibitLow", "ET4000_AltClk"}, {"Legend"}}
ChipOptions == {{}, {"ClockDiv2"}, {"SOG"}, {"ClkChipX", "SpeaMercury"}}

MCChips == {"S3TRIO", "TI3026", "IBMRGB5XX", "ICD2061A", "ICS5341", "ICS5342", "CIRRUS", "ET6000"}
MCCards == {"VGA", "S3", "CIRRUS", "ET4000", "WDC90C3X", "ATIMACH32", "VIDEO7", "ALI", "ET6000"}
Pairs == [c \in MCCards |->
            CASE c = "S3"     -> {"S3TRIO", "IBMRGB5XX", "ICD2061A", "TI3026"}
              [] c = "ET4000" -> {"ICS5341", "ICD2061A"}
              [] c = "CIRRUS" -> {"NONE", "CIRRUS"}
              [] c = "ET6000" -> {"NONE"}
              [] OTHER        -> {}]
MCConfigs == [c \in MCCards |->
                Listed(c, MCOptions) \cup WithChip(c, Pairs[c], ChipOptions) \cup Odd(c)]
MCWanted == {12600, 25200, 36900, 62000}
=============================================================================

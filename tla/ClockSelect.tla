---------------------------- MODULE ClockSelect -----------------------------
(***************************************************************************)
(* How a run gets its pixel clock: what sanitize_cfgfile_data and          *)
(* validate_mode accept, the search in the Clocks line, and the part of    *)
(* do_clock that programs the memory clock, the pixel clock and its        *)
(* division by two.  Runs of SVGATextMode and of the tool ClockProg, which *)
(* may be killed, follow each other on one card, each with its own         *)
(* configuration; the registers stay.                                      *)
(*                                                                         *)
(* Clocks are in kHz.  A clock chip's driver programs what it is asked.    *)
(***************************************************************************)
EXTENDS StdClock, Sequences

CONSTANTS Cards,   \* the chipsets of this model
          Chips,   \* the clock chips of this model
          Configs, \* Configs[card]: the configuration files, as parsed
          Wanted   \* pixel clocks of the mode lines

\* chipset and clock_data, as the parser leaves them.
ConfigFile == [chipset : Cards \cup {"NONE"}, chip : Chips \cup {"NONE"}, clocks : Seq(Nat),
               mclk : BOOLEAN, prog : BOOLEAN, refclk : BOOLEAN, opts : SUBSET Options,
               maxclock : Nat]

ASSUME CardsAssumption == Cards \subseteq Chipsets /\ Cards # {}
ASSUME ConfigsAssumption == /\ DOMAIN Configs = Cards
                            /\ \A c \in Cards : Configs[c] \subseteq ConfigFile
ASSUME WantedAssumption == Wanted \subseteq Nat \ {0}

VARIABLES card,     \* the chipset of the machine
          cfg,      \* what the parser has read
          tool,     \* it is a run of ClockProg
          want,     \* pixelClock of the mode, or ClockProg's argument
          validate, \* no -v switch
          regs,     \* the bits that select a clock, and the chip's frequency
          pc,       \* the step of the run
          divby2,   \* SetClock's divby2, set_clockchip_clock's
          exit      \* how the last run ended: "none" yet, "done", or the step
                    \* in which an error ended it
vars == <<card, cfg, tool, want, validate, regs, pc, divby2, exit>>
-----------------------------------------------------------------------------
(* The clock chips: ClockchipData and the pairs the two switches know.     *)
(* Chips whose cases do the same are one: ICS9161A and DCS2834 are         *)
(* ICD2061A; S3_SDAC, S3GENDAC, ICS5300 are ICS5342; MGAG200 is MGA1064.   *)

ChipRange == [S3TRIO    |-> <<16875, 135000>>, ICS5342 |-> <<12500, 125000>>,
              TI3026    |-> <<13750, 220000>>, ICD2061A |-> <<300, 110000>>,
              IBMRGB5XX |-> <<16250, 220000>>, ICS5341 |-> <<12500, 135000>>,
              CIRRUS    |-> <<14318, 110000>>, ET6000 |-> <<12500, 135000>>,
              RIVA128   |-> <<14318, 110000>>, MGA1064 |-> <<12500, 175000>>,
              TGUI9440  |-> <<8000, 108000>>]
ASSUME ChipsAssumption == /\ Chips \subseteq DOMAIN ChipRange
                          /\ Cards \cap {"CIRRUS", "ET6000", "RIVA128"} \subseteq Chips

MinClock(k) == ChipRange[k][1]
MaxClock(k) == ChipRange[k][2]

\* set_clockchip_clock's switch; the ATIMACH64 and the RIVA128 do not look.
Programs(c) ==
  CASE c = "S3"     -> {"S3TRIO", "ICS5342", "TI3026", "ICD2061A", "IBMRGB5XX"}
    [] c = "ET4000" -> {"ICS5341", "ICD2061A"}
    [] c = "CIRRUS" -> {"CIRRUS"}
    [] c = "ARK"    -> {"ICS5342"}
    [] c = "ET6000" -> {"ET6000"}
    [] c = "MATROX" -> {"TI3026", "MGA1064"}
    [] c = "TGUI"   -> {"TGUI9440"}
    [] c \in {"ATIMACH64", "RIVA128"} -> DOMAIN ChipRange
    [] OTHER        -> {}

\* set_clockchip_Mclock's switch.
ProgramsMClk(c) ==
  CASE c = "S3"     -> {"S3TRIO", "ICS5342"}
    [] c = "ET4000" -> {"ICS5341"}
    [] c = "ARK"    -> {"ICS5342"}
    [] c = "ET6000" -> {"ET6000"}
    [] c = "MATROX" -> {"TI3026", "MGA1064"}
    [] OTHER        -> {}

\* The chips sanitize_cfgfile_data lets through with an MClk line.
MClkChips == {"ICS5342", "ICS5341", "S3TRIO", "ET6000", "TI3026"}

\* Chipsets with a built-in chip; the others keep what the file says.
ForcedChip(f) ==
  IF f.chip = "NONE" /\ f.chipset \in {"CIRRUS", "ET6000", "RIVA128"} THEN f.chipset ELSE f.chip
-----------------------------------------------------------------------------
(* The search in the Clocks line.                                          *)

Div2(f) == "ClockDiv2" \in f.opts
Distance(a, b) == IF a < b THEN b - a ELSE a - b

\* clock_data.clocks[i]; findclosestclock puts the halves behind the rest,
\* and what was never set is 0.
ClockAt(f, i) ==
  LET n == Len(f.clocks)
  IN IF i < n THEN f.clocks[i + 1]
     ELSE IF Div2(f) /\ i < 2 * n THEN f.clocks[i - n + 1] \div 2
     ELSE 0

\* (Mutant: the halves are made, but not looked at.)
WholeIndices(f) == Len(f.clocks)
Indices(f) == IF Div2(f) THEN 2 * Len(f.clocks) ELSE Len(f.clocks)

\* What the for loop ends with: of the clocks at the least distance the
\* first, as a later one must be strictly nearer to replace it.
Closest(f, w) ==
  LET all == 0..(Indices(f) - 1)
      far(i) == Distance(ClockAt(f, i), w)
  IN IF all = {} THEN 0
     ELSE CHOOSE i \in all : \A j \in all : far(i) < far(j) \/ (far(i) = far(j) /\ i <= j)

Nullclock == -1

\* A Cirrus is supposed to make any frequency; the caller's variable is not
\* set, and only do_clock, where it holds the wanted clock, reads it then.
GetClock(f, w) ==
  IF f.chipset = "CIRRUS" THEN 0
  ELSE IF w = 0 \/ ClockAt(f, Closest(f, w)) = 0 THEN Nullclock
  ELSE Closest(f, w)
-----------------------------------------------------------------------------
(* Validation.                                                             *)

MaxClockDeviation == 1500

ValidateClock(f, w) ==
  /\ GetClock(f, w) # Nullclock
  /\ Distance(ClockAt(f, GetClock(f, w)), w) <= MaxClockDeviation
CheckClockgen(f, w) ==
  IF f.chip = "NONE" THEN ValidateClock(f, w)
  ELSE /\ w >= MinClock(f.chip) \div 2
       /\ w >= MinClock(f.chip) \/ Div2(f)
       /\ w <= MaxClock(f.chip)

\* With an 8 pixel font; the sync ranges are the monitor's business.
ValidMode(f, w) == w <= f.maxclock /\ CheckClockgen(f, w)

\* Whatever sanitize_cfgfile_data stops at; f has its forced chip.
\* (Contradictory alone is the mutant: no check of the memory clock.)
Contradictory(f) ==
  \/ f.chipset = "NONE"
  \/ f.clocks = <<>> /\ f.chip = "NONE" /\ ~f.prog
  \/ f.clocks # <<>> /\ f.chip # "NONE"
  \/ f.chip = "IBMRGB5XX" /\ ~f.refclk
  \/ "SOG" \in f.opts /\ f.chip # "TI3026"
Insane(f) == \/ Contradictory(f)
             \/ f.mclk /\ f.chip \notin MClkChips
-----------------------------------------------------------------------------
(* Programming.                                                            *)

\* Does set_clockchip_clock double the frequency and divide it again?
Doubled(f, w) == w < MinClock(f.chip) /\ Div2(f) /\ w >= MinClock(f.chip) \div 2
VgaClock == <<25175, 28300>>
StdVga(k, q) == Distance(q, VgaClock[k + 1]) < 75

\* prefer_vgaclocks, where the chipset's case calls it.
PrefersVga(c) == c \in {"S3", "ET4000", "ARK", "ET6000", "TGUI"}

\* Which clock of the card the chip's output is.  The ICD2061A has two
\* outputs, and one card has it wired four further on.
ChipClock(f) ==
  CASE f.chip = "ICD2061A" -> (IF "ClkChipX" \in f.opts THEN 1 ELSE 2)
                              + (IF f.chipset = "S3" /\ "SpeaMercury" \in f.opts THEN 4 ELSE 0)
    [] f.chip \in {"S3TRIO", "CIRRUS"}             -> 3
    [] f.chip = "TI3026" /\ f.chipset = "MATROX" -> 3
    [] OTHER -> 2

\* The ET4000's case changes the options first.
ChipOpts(f) == IF f.chipset = "ET4000"
               THEN (f.opts \ {"HibitHigh", "Legend", "ET4000_AltClk"}) \cup {"HibitLow"}
               ELSE f.opts

\* Selecting it; the drivers of some chips do that themselves.
SelectChip(f) ==
  CASE f.chip \in {"S3TRIO", "CIRRUS"}         -> SetClockbits01(ChipClock(f))
    [] f.chipset \in {"RIVA128", "ATIMACH64"} -> <<>>
    [] OTHER -> Writes(f.chipset, 4, ChipClock(f), ChipOpts(f))

\* The fixed clock, if any, that is taken instead of the chip.
VgaIndex(f, q) == {k \in {0, 1} : /\ PrefersVga(f.chipset)
                                  /\ StdVga(k, q)
                                  /\ k = 1 => "ClkChipX" \notin f.opts}

\* What set_clockchip_clock leaves when it is to make frequency q.
ChipWrites(f, q) ==
  IF VgaIndex(f, q) = {} THEN SelectChip(f) @@ "PLL" :> q
  ELSE Writes(f.chipset, 4, CHOOSE k \in VgaIndex(f, q) : TRUE, f.opts)

Put(w) == regs' = w @@ regs
-----------------------------------------------------------------------------
(* The steps of a run.                                                     *)

Fields == {"MISC", "LATCH", "CR34.1", "CR42", "SR7.6", "SR7.0", "CR31.6", "CR31.7",
           "CR24.1", "SRD.0", "SRD.1", "SRD.2", "SRD.6", "SRE.4", "BE.4", "B9.1", "B8.67",
           "CR2E.4", "GR0C.1", "SR12.2", "SRA4", "GR0C.5", "GR0B.0", "GR0B.1", "GR0B",
           "OTI06", "OTI0D.5", "SR7", "SR11.67", "SR1F.5", "SR1F.6", "SRC4.0",
           "PLL", "SR1.3"}

\* Whatever the BIOS left; a set memory clock bit is the interesting case,
\* on the chipsets that have it.
Found(c) == {[x \in Fields |-> IF x = "CR2E.4" THEN b ELSE 0] :
                b \in IF c \in {"WDC90C0X"} \cup LateWDC THEN {0, 1} ELSE {0}}

\* What the program starts with.
NoConfig == [chipset |-> "NONE", chip |-> "NONE", clocks |-> <<>>, mclk |-> FALSE,
             prog |-> FALSE, refclk |-> FALSE, opts |-> {}, maxclock |-> 45000]

Init == /\ card \in Cards
        /\ cfg = NoConfig
        /\ tool = FALSE
        /\ want = 0
        /\ validate = TRUE
        /\ regs \in Found(card)
        /\ pc = "idle"
        /\ divby2 = FALSE
        /\ exit = "none"

Perror == pc' = "ended" /\ exit' = pc
Go(from, to) == pc = from /\ pc' = to /\ exit' = exit

\* A new run: its switches, its configuration file, its mode line.
Start == /\ Go("idle", "sanitize")
         /\ cfg' \in Configs[card]
         /\ want' \in Wanted
         /\ tool' = FALSE
         /\ validate' \in BOOLEAN
         /\ UNCHANGED <<card, regs, divby2>>

\* ClockProg asks for a clock of its own and always checks it.
StartClockProg == /\ Go("idle", "sanitize")
                  /\ cfg' \in Configs[card]
                  /\ want' \in Wanted
                  /\ tool' = TRUE
                  /\ validate' = TRUE
                  /\ UNCHANGED <<card, regs, divby2>>

\* The process is gone, and with it all but the registers.
Reap ==
        /\ pc' = "idle" /\ exit' = "none"
        /\ cfg' = NoConfig /\ tool' = FALSE /\ want' = 0 /\ validate' = TRUE /\ divby2' = FALSE
        /\ UNCHANGED <<card, regs>>

Sanitize == /\ pc = "sanitize"
            /\ cfg' = [cfg EXCEPT !.chip = ForcedChip(cfg)]
            /\ IF Insane(cfg') THEN Perror ELSE Go("sanitize", "validate")
            /\ UNCHANGED <<card, tool, want, validate, regs, divby2>>

\* After it main() resizes the kernel's screen; do_clock turns it dark.
Validate == /\ pc = "validate" /\ ~tool
            /\ IF validate /\ ~ValidMode(cfg, want) THEN Perror ELSE Go("validate", "mclk")
            /\ UNCHANGED <<card, cfg, tool, want, validate, regs, divby2>>

\* The memory clock of -m, or that there is none, replaces the file's if an
\* index follows the clock; no font and no limit of the monitor is looked at.
CheckClockProg ==
  /\ pc = "validate" /\ tool
  /\ \E index, m \in BOOLEAN : cfg' = [cfg EXCEPT !.mclk = IF index THEN m ELSE @]
  /\ IF CheckClockgen(cfg, want) THEN Go("validate", "mclk") ELSE Perror
  /\ UNCHANGED <<card, tool, want, validate, regs, divby2>>

SetMclk == /\ pc = "mclk"
           /\ IF cfg.mclk /\ cfg.chip \notin ProgramsMClk(cfg.chipset)
              THEN Perror ELSE Go("mclk", "pixclock")
           /\ UNCHANGED <<card, cfg, tool, want, validate, regs, divby2>>

\* ClockProg gets the clock and its index; what it does is its own affair.
ClockProg == /\ pc = "pixclock"
             /\ cfg.prog
             /\ IF GetClock(cfg, want) = Nullclock
                THEN Perror ELSE pc' = "ended" /\ exit' = "clockprog"
             /\ UNCHANGED <<card, cfg, tool, want, validate, regs, divby2>>

SetClockchip ==
  /\ pc = "pixclock"
  /\ ~cfg.prog
  /\ cfg.chip # "NONE"
  /\ LET double == Doubled(cfg, want)
         q == IF double THEN 2 * want ELSE want
     IN IF cfg.chip \notin Programs(cfg.chipset) /\ VgaIndex(cfg, q) = {}
        THEN Perror /\ UNCHANGED <<regs, divby2>>
        ELSE /\ Go("pixclock", "div2")
             /\ Put(ChipWrites(cfg, q))
             /\ divby2' = double
  /\ UNCHANGED <<card, cfg, tool, want, validate>>

\* The index of a divided clock stands for the real one.
RealIndex(f, i) == IF Div2(f) /\ i > Len(f.clocks) - 1 THEN i - Len(f.clocks) ELSE i

SetClock ==
  /\ pc = "pixclock"
  /\ ~cfg.prog
  /\ cfg.chip = "NONE"
  /\ LET i == GetClock(cfg, want)
     IN IF i = Nullclock
        THEN Perror /\ UNCHANGED <<regs, divby2>>
        ELSE /\ Go("pixclock", "div2")
             /\ Put(Writes(cfg.chipset, Len(cfg.clocks), RealIndex(cfg, i), cfg.opts))
             /\ divby2' = (i # RealIndex(cfg, i))
  /\ UNCHANGED <<card, cfg, tool, want, validate>>

\* Outbit_SEQ(1, 3, ..): always written, or a halved clock would stay so.
\* (Mutant: only written if there is the option.)
Div2BitIfOption == IF Div2(cfg) THEN (IF divby2 THEN 1 ELSE 0) ELSE regs["SR1.3"]
Div2Bit == IF Div2(cfg) /\ divby2 THEN 1 ELSE 0

SetDiv2 == /\ pc = "div2"
           /\ Put("SR1.3" :> Div2Bit)
           /\ pc' = "ended" /\ exit' = "done"
           /\ UNCHANGED <<card, cfg, tool, want, validate, divby2>>

Kill == /\ pc \notin {"idle", "ended"}
        /\ pc' = "ended" /\ exit' = "none"
        /\ UNCHANGED <<card, cfg, tool, want, validate, regs, divby2>>

Next == \/ Start \/ StartClockProg \/ Reap \/ Sanitize \/ Validate \/ CheckClockProg \/ SetMclk
        \/ ClockProg \/ SetClockchip \/ SetClock \/ SetDiv2 \/ Kill

Spec == Init /\ [][Next]_vars
-----------------------------------------------------------------------------
(* Properties.                                                             *)

\* Do the registers hold all of w?
Holds(w) == \A x \in DOMAIN w : regs[x] = w[x]

\* The clocks of the Clocks line whose selection the registers may show,
\* whatever they held before.
Shown == {no \in 0..(Len(cfg.clocks) - 1) : Holds(Writes(cfg.chipset, Len(cfg.clocks), no, cfg.opts))}

\* The frequencies the card may now make.
Multiplexed ==
  IF cfg.chip = "NONE" THEN {cfg.clocks[no + 1] : no \in Shown}
  ELSE IF PrefersVga(cfg.chipset) /\ regs["MISC"] = 0 THEN {VgaClock[1]}
  ELSE IF PrefersVga(cfg.chipset) /\ regs["MISC"] = 1 /\ "ClkChipX" \notin cfg.opts
       THEN {VgaClock[2]}
  ELSE {regs["PLL"]}

DotClocks == {q \div (1 + regs["SR1.3"]) : q \in Multiplexed}

\* After a run that ended normally with its clock validated, the card makes
\* a clock no further from the mode's than validation allowed, whatever an
\* earlier run, a killed one too, left in the registers and the divider.
ClockAsValidated ==
  (exit = "done" /\ validate) =>
     \A q \in DotClocks : Distance(q, want) <= MaxClockDeviation

\* With a Clocks line no clock of it, and with ClockDiv2 no half of one, is
\* nearer to what the mode asks for than the clock the card now makes.
NearestClockOut ==
  (exit = "done" /\ cfg.chip = "NONE") =>
     \A q \in DotClocks, i \in 0..((IF Div2(cfg) THEN 2 ELSE 1) * Len(cfg.clocks) - 1) :
        Distance(q, want) <= Distance(ClockAt(cfg, i), want)

\* A Clocks line no longer than what sanitize_cfgfile_data calls normal for
\* the chipset can be told apart: the registers show one clock of it.
OneClockShown ==
  (/\ exit = "done" /\ cfg.chip = "NONE"
   /\ Len(cfg.clocks) <= NormalClocks(cfg.chipset)) => \E no \in Shown : Shown = {no}

\* "clock number is supposed to be in the allowable range by now": a run on
\* a Clocks line that passed validation is never given up in do_clock, when
\* the kernel's screen and the text mode registers have been changed.
\* (ClockProg, which changes neither, is when it is given a memory clock.)
ListedNeverHalfway ==
  (~tool /\ validate /\ cfg.chip = "NONE") => exit \notin {"mclk", "pixclock"}
=============================================================================

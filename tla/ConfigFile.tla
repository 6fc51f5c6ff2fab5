----------------------------- MODULE ConfigFile -----------------------------
(***************************************************************************)
(* The configuration file: one action per kind of line of the grammar of   *)
(* src/cfgfile.y, in the order the lines stand in the file, each with the  *)
(* checks it makes and the global variables it sets; then                  *)
(* sanitize_cfgfile_data, the choice of the mode line, and validate_mode.  *)
(*                                                                         *)
(* Clocks are in kHz, line rates in Hz, frame rates in mHz, as the program *)
(* stores them.  Labels and names are values; letter case, comments and    *)
(* the tokens of a line are left out: a line the lexer or the grammar does *)
(* not know is of kind "unknown".  Whether the clock generator can make a  *)
(* mode's clock is module ClockSelect's; here it is any answer.            *)
(***************************************************************************)
EXTENDS Integers, SequencesExt

CONSTANTS
  Files,        \* files are made of the lines of one of these: [lines, max],
                \* of at most max lines (a bound)
  Requests,     \* command lines: [label, validate, scan]
  DefaultDac,   \* the limit on the dot clock each chipset has by default
  BuiltIn,      \* chipset -> the clock chip it always comes with, or None
  None          \* no value, no name, no chip

Chipsets == DOMAIN DefaultDac
DEFAULT_MAXCLOCK == 45000
NOT_DEFINED == -1

\* Lines of which the last one counts, and what stands without one.
Initially == [chipset |-> None, clockchip |-> None, mclk |-> NOT_DEFINED,
              refclk |-> NOT_DEFINED, underline |-> -1, border |-> 0, default |-> None,
              resetprog |-> None, clockprog |-> None, fontprog |-> "setfont", fontpath |-> None]
Single == DOMAIN Initially
Programs == {"resetprog", "clockprog", "fontprog", "fontpath"}

ASSUME ConfigAssumption ==
  /\ \A f \in Files : f.max \in Nat
  /\ DefaultDac \in [Chipsets -> Nat]
  /\ BuiltIn \in [Chipsets -> STRING \cup {None}]
  /\ None \notin Chipsets

\* What the lexer hands over: names it knows, and whole numbers.
ASSUME LineAssumption == \A f \in Files : \A l \in f.lines :
  /\ l.kind = "chipset" => l.value \in Chipsets
  /\ l.kind = "dacspeed" => l.value \in Nat
  /\ l.kind = "mode" => l.clock \in Nat /\ l.attributes \in Seq(ToSet(l.attributes))
  /\ l.kind = "sync" => l.which \in {"h", "v"}
  /\ l.kind \in {"sync", "cursor"} => l.ranges \in Seq(Nat \X Nat)

VARIABLES
  lines, max, \* the lines this file is made of, and how many at most
  file,       \* history: the lines read
  pc,         \* "parse", "check", "choose", "validate", or how it ended:
              \* "refused", "listed" or "go"
  set,        \* chipset, clock_data.clockchiptype, .mclk, .refclk, ... by name
  maxclock, clocks,                 \* the rest of clock_data
  options, cursor, fonts, terminals,
  limits,     \* h_mon_limits and v_mon_limits
  modes,      \* text_mode_list
  request, mode, listed

parsed == <<set, maxclock, clocks, options, cursor, fonts, terminals, limits, modes>>
chosen == <<request, mode, listed>>
vars == <<lines, max, file, pc, parsed, chosen>>

FontSizes == (8..9) \X (1..32)

Init ==
  /\ \E f \in Files : lines = f.lines /\ max = f.max
  /\ file = <<>>
  /\ pc = "parse"
  /\ set = Initially
  /\ maxclock = DEFAULT_MAXCLOCK
  /\ clocks = <<>>
  /\ options = {}
  /\ cursor = <<29, 31>>
  /\ fonts = [s \in FontSizes |-> None]
  /\ terminals = <<>>
  /\ limits = [h |-> <<>>, v |-> <<>>]
  /\ modes = <<>>
  /\ request = None
  /\ mode = None
  /\ listed = {}

(***************************************************************************)
(* Mode lines.                                                             *)
(***************************************************************************)
MaxChars == 16384

InRange(l) ==
  /\ l.hds \in 16..2048 /\ l.hss \in l.hds..2048
  /\ l.hse \in (l.hss + 1)..(l.hss + 256) /\ l.hde \in l.hse..2048
  /\ l.vds \in 16..1023 /\ l.vss \in l.vds..1023
  /\ l.vse \in (l.vss + 1)..(l.vss + 16) /\ l.vde \in l.vse..1023

Polarity(vds) == CASE vds < 400 -> <<"POS", "NEG">>
                   [] vds \in 400..479 -> <<"NEG", "POS">>
                   [] vds \in 480..767 -> <<"NEG", "NEG">>
                   [] vds > 767 -> <<"POS", "POS">>

AttributeOk(a) ==
  /\ a[1] = "hshift" => a[2] \in 0..3
  /\ a[1] = "font"   => a[2] \in FontSizes

\* What a line without attributes has.
add_mode_data(l) == [font |-> <<8, 16>>, hshift |-> 0,
                     hsync |-> Polarity(l.vds)[1], vsync |-> Polarity(l.vds)[2]]

\* The attributes that follow the timings: each replaces an earlier one of its
\* kind, but the flags add up.
Attribute(l, kind) == {i \in DOMAIN l.attributes : l.attributes[i][1] = kind}
Flags(l) == {l.attributes[i][2] : i \in Attribute(l, "flag")}
Attributes(l) == [kind \in DOMAIN add_mode_data(l) |->
                    IF Attribute(l, kind) = {} THEN add_mode_data(l)[kind]
                    ELSE l.attributes[Max(Attribute(l, kind))][2]]

Rows(l) == l.vds \div Attributes(l).font[2]
Cols(l) == 2 * (l.hds \div 16)

\* The geometry and the frequencies, once the whole line is known.
complete_modestruct(l) ==
  LET m == Attributes(l)
      scans == IF "doublescan" \in Flags(l) THEN 2 ELSE 1
      fields == IF "interlace" \in Flags(l) THEN 2 ELSE 1
      hfreq == (l.clock * 1000) \div ((l.hde \div 8) * m.font[1])
  IN  [name |-> l.name, clock |-> l.clock, font |-> m.font, flags |-> Flags(l),
       hshift |-> m.hshift, hpol |-> m.hsync, vpol |-> m.vsync,
       rows |-> Rows(l), cols |-> Cols(l), scanlines |-> m.font[2] * Rows(l) * scans,
       hfreq |-> hfreq, vfreq |-> ((hfreq * 1000) \div (l.vde * scans)) * fields]

(***************************************************************************)
(* Reading.  A line is read by the action of its kind, or refused.         *)
(***************************************************************************)
ClockOk(f) == f \in 0..500000          \* check_clock
SyncOk(r)  == r[1] \in 5000..200000 /\ r[2] \in 5000..200000

LineOk(l) ==
  /\ l.kind # "unknown"
  /\ l.kind \in {"dacspeed", "mclk", "refclk"} => ClockOk(l.value)
  /\ l.kind = "clocks"     => \A k \in DOMAIN l.clocks : ClockOk(l.clocks[k])
  /\ l.kind = "underline"  => l.value \in 1..32
  /\ l.kind = "border"     => l.value \in 0..255
  /\ l.kind = "sync"       => \A k \in DOMAIN l.ranges : SyncOk(l.ranges[k])
  /\ l.kind = "fontselect" => \A k \in DOMAIN l.sizes : l.sizes[k] \in FontSizes
  /\ l.kind = "mode" => /\ InRange(l)
                        /\ \A k \in DOMAIN l.attributes : AttributeOk(l.attributes[k])
                        /\ Rows(l) * Cols(l) <= MaxChars

Reads(kinds, l) ==
  /\ pc = "parse" /\ Len(file) < max
  /\ l \in lines /\ l.kind \in kinds
  /\ LineOk(l)
  /\ file' = Append(file, l)
  /\ UNCHANGED <<lines, max, pc, chosen>>

Refused ==
  /\ pc = "parse" /\ Len(file) < max
  /\ \E l \in lines : ~LineOk(l)
  /\ pc' = "refused"
  /\ UNCHANGED <<lines, max, file, parsed, chosen>>

ChipSet == \E l \in lines :
  /\ Reads({"chipset"}, l)
  /\ set' = [set EXCEPT !.chipset = l.value]
  /\ maxclock' = IF maxclock = DEFAULT_MAXCLOCK THEN DefaultDac[l.value] ELSE maxclock
  /\ UNCHANGED <<clocks, options, cursor, fonts, terminals, limits, modes>>

DacSpeed == \E l \in lines :
  /\ Reads({"dacspeed"}, l)
  /\ maxclock' = l.value
  /\ UNCHANGED <<set, clocks, options, cursor, fonts, terminals, limits, modes>>

\* ClockChip, MClk, RefClk, Underline, BorderColor and DefaultMode lines.
Value == \E l \in lines :
  /\ Reads(Single \ (Programs \cup {"chipset"}), l)
  /\ set' = [set EXCEPT ![l.kind] = l.value]
  /\ UNCHANGED <<maxclock, clocks, options, cursor, fonts, terminals, limits, modes>>

\* A path that does not exist counts as none.
check_path(l) == IF l.exists THEN l.value ELSE None
Path == \E l \in lines :
  /\ Reads(Programs, l)
  /\ set' = [set EXCEPT ![l.kind] = check_path(l)]
  /\ UNCHANGED <<maxclock, clocks, options, cursor, fonts, terminals, limits, modes>>

Option == \E l \in lines :
  /\ Reads({"option"}, l)
  /\ options' = options \cup {l.value}
  /\ UNCHANGED <<set, maxclock, clocks, cursor, fonts, terminals, limits, modes>>

Clocks == \E l \in lines :
  /\ Reads({"clocks"}, l)
  /\ clocks' = clocks \o l.clocks
  /\ UNCHANGED <<set, maxclock, options, cursor, fonts, terminals, limits, modes>>

\* The last of the line's ranges, the smaller number first.
Ordered(r) == IF r[1] < r[2] THEN r ELSE <<r[2], r[1]>>
Cursor == \E l \in lines :
  /\ Reads({"cursor"}, l)
  /\ cursor' = IF l.ranges = <<>> THEN cursor ELSE Ordered(Last(l.ranges))
  /\ UNCHANGED <<set, maxclock, clocks, options, fonts, terminals, limits, modes>>

FontSelect == \E l \in lines :
  /\ Reads({"fontselect"}, l)
  /\ fonts' = [s \in FontSizes |-> IF s \in ToSet(l.sizes) THEN l.font ELSE fonts[s]]
  /\ UNCHANGED <<set, maxclock, clocks, options, cursor, terminals, limits, modes>>

\* Names that do not exist are warned about only.
Terminals == \E l \in lines :
  /\ Reads({"terminals"}, l)
  /\ terminals' = Reverse(l.names) \o terminals
  /\ UNCHANGED <<set, maxclock, clocks, options, cursor, fonts, limits, modes>>

\* A range, or one frequency with a margin.
Margin == [h |-> 600, v |-> 1200]
add_sync(which, r) ==
  IF r[1] = r[2] THEN <<r[1] - Margin[which], r[2] + Margin[which]>> ELSE Ordered(r)
Sync == \E l \in lines :
  /\ Reads({"sync"}, l)
  /\ limits' = [limits EXCEPT ![l.which] =
                  Reverse([k \in DOMAIN l.ranges |-> add_sync(l.which, l.ranges[k])]) \o @]
  /\ UNCHANGED <<set, maxclock, clocks, options, cursor, fonts, terminals, modes>>

\* Mutant: the list in the order of the file.
addmode_last(list, m) == Append(list, m)
addmode(list, m) == <<m>> \o list
ModeLine == \E l \in lines :
  /\ Reads({"mode"}, l)
  /\ modes' = addmode(modes, complete_modestruct(l))
  /\ UNCHANGED <<set, maxclock, clocks, options, cursor, fonts, terminals, limits>>

EndOfFile ==
  /\ pc = "parse"
  /\ pc' = "check"
  /\ request' \in Requests
  /\ UNCHANGED <<lines, max, file, parsed, mode, listed>>

(***************************************************************************)
(* sanitize_cfgfile_data.                                                  *)
(***************************************************************************)
SetsMClk == {"S3_SDAC", "S3GENDAC", "ICS5300", "ICS5342", "ICS5341", "S3TRIO", "ET6000", "TI3026"}
Chip == IF set.clockchip = None THEN BuiltIn[set.chipset] ELSE set.clockchip
MakesSense ==
  /\ set.chipset # None
  /\ clocks # <<>> \/ Chip # None \/ set.clockprog # None
  /\ clocks = <<>> \/ Chip = None
  /\ set.mclk # NOT_DEFINED => Chip \in SetsMClk
  /\ Chip = "IBMRGB5XX" => set.refclk # NOT_DEFINED
  /\ "SOG" \in options => Chip \in {"TI3025", "TI3026"}

\* Mutant: the default range is added to those of the file.
OrDefaultToo(list, range) == Append(list, range)
OrDefault(list, range) == IF list = <<>> THEN <<range>> ELSE list
Sanitize ==
  /\ pc = "check"
  /\ IF MakesSense
       THEN /\ pc' = "choose"
            /\ limits' = [h |-> OrDefault(limits.h, <<30000, 32000>>),
                          v |-> OrDefault(limits.v, <<45000, 80000>>)]
            /\ set' = [set EXCEPT !.clockchip = Chip]
       ELSE pc' = "refused" /\ UNCHANGED <<set, limits>>
  /\ UNCHANGED <<lines, max, file, maxclock, clocks, options, cursor, fonts, terminals, modes, chosen>>

(***************************************************************************)
(* The mode: listed, or looked up and validated.  makes is the clock       *)
(* generator's answer.                                                     *)
(***************************************************************************)
CheckRange(f, list) == \E k \in DOMAIN list : f \in list[k][1]..list[k][2]
validate_mode(m, makes) ==
  /\ m.clock <= (maxclock * m.font[1]) \div 8
  /\ makes
  /\ CheckRange(m.hfreq, limits.h)
  /\ CheckRange(m.vfreq, limits.v)

ScanModes ==
  /\ pc = "choose" /\ request.scan
  /\ \E made \in SUBSET DOMAIN modes :
       listed' = {modes[k] : k \in {j \in DOMAIN modes :
                                      ~request.validate \/ validate_mode(modes[j], j \in made)}}
  /\ pc' = "listed"
  /\ UNCHANGED <<lines, max, file, parsed, request, mode>>

Label == IF request.label # None THEN request.label ELSE set.default
Named(label) == {k \in DOMAIN modes : modes[k].name = label}
\* The first in the list; cursor and underline are scaled to its font.
FindMode ==
  /\ pc = "choose" /\ ~request.scan
  /\ IF Label = None \/ Named(Label) = {}
       THEN pc' = "refused" /\ UNCHANGED <<mode, cursor, set>>
       ELSE \E k \in Named(Label) :
              LET high == modes[k].font[2] IN
              /\ \A j \in Named(Label) : k <= j
              /\ mode' = modes[k]
              /\ cursor' = [i \in 1..2 |-> (cursor[i] * high) \div 32]
              /\ set' = [set EXCEPT !.underline = IF @ >= 0 THEN (@ * high) \div 32 ELSE @]
              /\ pc' = "validate"
  /\ UNCHANGED <<lines, max, file, maxclock, clocks, options, fonts, terminals, limits, modes, request, listed>>

Validate ==
  /\ pc = "validate"
  /\ \E makes \in BOOLEAN :
       pc' = IF request.validate /\ ~validate_mode(mode, makes) THEN "refused" ELSE "go"
  /\ UNCHANGED <<lines, max, file, parsed, chosen>>

Read == \/ ChipSet \/ DacSpeed \/ Value \/ Path \/ Option \/ Clocks \/ Cursor
        \/ FontSelect \/ Terminals \/ Sync \/ ModeLine
Next == Read \/ Refused \/ EndOfFile \/ Sanitize \/ ScanModes \/ FindMode \/ Validate
Spec == Init /\ [][Next]_vars
(***************************************************************************)
(* Properties, in terms of the lines read.                                 *)
(***************************************************************************)
LinesOf(kind) == {i \in DOMAIN file : file[i].kind = kind}
\* v is what the last of the lines at says, or none if there are none.
LastSays(at, says, none, v) == \/ at = {} /\ v = none
                               \/ \E i \in at : v = says[i] /\ \A j \in at : j <= i

Given(l) == IF l.kind \in Programs /\ ~l.exists THEN None ELSE l.value
ValuesAreLast ==
  \A k \in Single : LastSays(LinesOf(k), [i \in LinesOf(k) |-> Given(file[i])], Initially[k], set[k])

FontLines(s) == {i \in LinesOf("fontselect") : s \in ToSet(file[i].sizes)}
FontsAreLast ==
  \A s \in FontSizes : LastSays(FontLines(s), [i \in FontLines(s) |-> file[i].font], None, fonts[s])

CursorLines == {i \in LinesOf("cursor") : file[i].ranges # <<>>}
CursorIsLast ==
  LastSays(CursorLines, [i \in CursorLines |-> Ordered(Last(file[i].ranges))], <<29, 31>>, cursor)

ModeLines(name) == {i \in LinesOf("mode") : file[i].name = name}
ModesAreLast ==
  /\ \A i \in LinesOf("mode") : \E k \in DOMAIN modes : modes[k].name = file[i].name
  /\ \A k \in DOMAIN modes :
       (\A j \in DOMAIN modes : j < k => modes[j].name # modes[k].name) =>
          \E i \in ModeLines(modes[k].name) :
             modes[k] = complete_modestruct(file[i]) /\ \A j \in ModeLines(modes[k].name) : j <= i

\* TextConfig(5): "the LAST instance will be used, and all others ignored":
\* of a single value, of a font for each size, of the cursor, and of a mode
\* line, whose list is searched from its front.
LastLineCounts == pc = "parse" => ValuesAreLast /\ FontsAreLast /\ CursorIsLast /\ ModesAreLast

\* A mode that is programmed is the one the user sees in the file: the last
\* line with the label asked for, and unless validation is off its line rate
\* and frame rate, by the timings of that line, are in a range the file gives
\* (the default one if it gives none), and its clock is within the limit of
\* the last DacSpeed line, or else of the chipset.  Excepted from the last are
\* files with two ChipSet lines or a DacSpeed of 45, where the code mistakes
\* a limit for one that was never set.
Fraction(f, a, b) == f * b <= a /\ a < (f + 1) * b       \* f is a / b rounded down
Has(l, flag) == \E i \in DOMAIN l.attributes : l.attributes[i][1] = "flag" /\ l.attributes[i][2] = flag
RatesOf(l, m) ==
  LET scans == IF Has(l, "doublescan") THEN 2 ELSE 1
      fields == IF Has(l, "interlace") THEN 2 ELSE 1
  IN  /\ Fraction(m.hfreq, l.clock * 1000, (l.hde \div 8) * m.font[1])
      /\ m.vfreq % fields = 0
      /\ Fraction(m.vfreq \div fields, m.hfreq * 1000, l.vde * scans)
Ranges(which) == UNION {ToSet(l.ranges) : l \in {x \in ToSet(file) : x.kind = "sync" /\ x.which = which}}
Allows(which, r, f) == \/ r[1] = r[2] /\ f \in (r[1] - Margin[which])..(r[1] + Margin[which])
                       \/ r[1] <= f /\ f <= r[2]
                       \/ r[2] <= f /\ f <= r[1]
Allowed(which, f, default) == \E r \in IF Ranges(which) = {} THEN {default} ELSE Ranges(which) :
                                Allows(which, r, f)
Limits == {DefaultDac[c] : c \in Chipsets} \cup {file[i].value : i \in LinesOf("dacspeed")}
WithinLimit ==
  \E limit \in Limits :
    /\ LastSays(LinesOf("dacspeed"), [i \in LinesOf("dacspeed") |-> file[i].value],
                DefaultDac[set.chipset], limit)
    /\ mode.clock * 8 <= limit * mode.font[1]
OneLimit == /\ \A i, j \in LinesOf("chipset") : i = j
            /\ \A i \in LinesOf("dacspeed") : file[i].value # DEFAULT_MAXCLOCK
Asked(name) == IF request.label # None THEN name = request.label
               ELSE LastSays(LinesOf("default"), [i \in LinesOf("default") |-> file[i].value], None, name)
AcceptedAsWritten == pc = "go" =>
  \E i \in LinesOf("mode") :
    /\ Asked(file[i].name) /\ \A j \in ModeLines(file[i].name) : j <= i
    /\ RatesOf(file[i], mode)
    /\ cursor[1] <= cursor[2]
    /\ request.validate => /\ Allowed("h", mode.hfreq, <<30000, 32000>>)
                           /\ Allowed("v", mode.vfreq, <<45000, 80000>>)
                           /\ OneLimit => WithinLimit

\* TextConfig(5): "A line can appear enywhere in the config file, and will
\* have the same effect", "the LAST instance will be used": of the limit on
\* the dot clock too, without the exceptions above.
LimitAsWritten == pc = "go" /\ request.validate => WithinLimit
=============================================================================

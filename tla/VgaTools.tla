------------------------------ MODULE VgaTools ------------------------------
(***************************************************************************)
(* Programs that access the VGA's registers side by side with the kernel's *)
(* console driver, one port access at a time: setVGAreg, set80 -a, the     *)
(* register calls of SVGATextMode, and setpalette and getpalette with the  *)
(* palette the kernel keeps.  A job gives each program its calls; a        *)
(* program may be killed between any two accesses.                         *)
(*                                                                         *)
(* The kernel's own accesses come in bursts no program interrupts.  They   *)
(* are external: what they touch is what a console driver needs for its    *)
(* cursor, its fonts, its attribute registers and a console switch.        *)
(***************************************************************************)
EXTENDS ToolCalls, SequencesExt

CONSTANTS
  Programs,    \* processes
  Jobs,        \* what is run: records of the calls of each program, and of how
               \* often at most the kernel comes in (bursts) and programs are
               \* killed (kills)
  Palettes,    \* palettes the kernel may start with, 8 bits a colour component
  KernelUses,  \* bursts the kernel may make: a subset of Uses
  BufferLines  \* lines getpalette collects before it writes them to the pipe

Uses == {"cursor", "attributes", "font", "switch"}
ASSUME ToolsAssumption == /\ KernelUses \subseteq Uses
                          /\ \A j \in Jobs : j.bursts \in Nat /\ j.kills \in Nat
                          /\ BufferLines \in Nat \ {0}
                          /\ "nobody" \notin Programs

\* The registers of each set, with data of a byte, and the colours of text.
Sets == Indexed \cup {"ATR", "PORT"}
Byte == 0..255
Text == 0..15

\* The calls a program may be made of: getint and the register tables see to
\* the ranges, and an attribute's index has five bits.
CallSet ==
  [do : {"out"}, set : Sets, index : Nat, data : Byte]
  \cup [do : {"in"}, set : Sets, index : Nat]
  \cup [do : {"modify"}, set : Sets, index : Nat, keep : Byte, or : Byte]
  \cup [do : {"rgb"}, set : {"DAC"}, index : 0..DacSize - 1, rgb : [1..3 -> Int]]
  \cup [do : {"dump"}, set : {"DAC"}, index : 0..DacSize - 1]
  \cup [do : {"GIO_CMAP", "PIO_CMAP", "fontprog", "lines", "exit", "bad"}, set : {"none"}]
Palette == [Text -> [1..3 -> Byte]]

ASSUME CallsAssumption ==
  \A j \in Jobs : /\ j.calls \in [Programs -> Seq(CallSet)]
                 /\ \A p \in Programs : \A c \in ToSet(j.calls[p]) : c.set = "ATR" => c.index \in 0..31
ASSUME PalettesAssumption == Palettes \subseteq Palette
\* SVGATextMode loads a font when it has made all its other register accesses.
EndsWith(cs, end) == LET n == Len(cs) - Len(end) IN
                     n >= 0 /\ \A k \in 1..Len(end) : cs[n + k] = end[k]
ASSUME FontAssumption ==
  \A j \in Jobs : \A p \in Programs : LET cs == j.calls[p] IN
    Call("fontprog") \in ToSet(cs) =>
      Call("lines") \notin ToSet(cs) /\ \E hstext \in BOOLEAN : EndsWith(cs, LoadFont(hstext))
\* setpalette, not reading the pipe, asks the kernel for its palette first and
\* gives it back last.
ASSUME PaintsAssumption ==
  \A j \in Jobs : \A p \in Programs : LET cs == j.calls[p] IN
    Call("PIO_CMAP") \in ToSet(cs) /\ Call("lines") \notin ToSet(cs) =>
      /\ Len(cs) >= 2 /\ cs[1] = Call("GIO_CMAP") /\ cs[Len(cs)] = Call("PIO_CMAP")
      /\ \A k \in 2..Len(cs) - 1 : cs[k].do \in {"rgb", "bad"}
\* With "-" it reads what getpalette writes of the kernel's palette, and is
\* asked to change nothing: the pair by itself, and no console switch, which
\* would move the DAC on between two bytes that getpalette reads.
ASSUME PipesAssumption ==
  \A j \in Jobs : \A p \in Programs :
    Call("PIO_CMAP") \in ToSet(j.calls[p]) /\ Call("lines") \in ToSet(j.calls[p]) =>
      /\ j.calls[p] = SetPalettePipe /\ j.kills = 0 /\ (j.bursts = 0 \/ "switch" \notin KernelUses)
      /\ \E q \in Programs \ {p} : /\ j.calls[q] = GetPaletteAll
                                 /\ \A r \in Programs \ {p, q} : j.calls[r] = <<>>

VARIABLES
  card,      \* VgaPorts' card
  kpal,      \* the kernel's palette, in ANSI order, 8 bits a colour
  font,      \* the order in which the font lies in memory
  job,       \* the calls of each program (constant)
  calls,     \* the calls it still has to make
  pc,        \* its next access within the first of them
  got,       \* the bytes this call has read
  mine,      \* setpalette's kernel_palette
  buf, pipe, \* getpalette's output, before and after it is written
  bursts, kills,
  ended,     \* how the program stands: "run", "done", "aborted" or "killed"
  hits,      \* history: kernel bursts on the registers of this call so far
  old,       \* history: the register before this call
  was,       \* history: the kernel's palette when setpalette read it
  alone,     \* history: no other program made an access since this one began
  loaded,    \* history: its font program succeeded
  last       \* history: the program that ended last, alone and as it should

local   == <<job, calls, pc, got, mine, ended>>
history == <<hits, old, was, alone, loaded, last>>
vars == <<card, kpal, font, buf, pipe, bursts, kills, local, history>>

Nobody == "nobody"

\* The kernel counts colours in ANSI order, red in bit 0 and blue in bit 2.
AnsiOrder(i) == 4 * Bit(i, 0) + 2 * Bit(i, 1) + Bit(i, 2) + 8 * Bit(i, 3)
\* Mutant: without the exchange of red and blue.
color_table_vga == [i \in 1..16 |-> i - 1]
\* setpalette's table for it, by VGA colour.
color_table == <<0, 4, 2, 6, 1, 5, 3, 7, 8, 12, 10, 14, 9, 13, 11, 15>>
KernelColour(rgb) == [k \in 1..3 |-> (rgb[k] * 4) % 256]
DacColour(rgb)    == [k \in 1..3 |-> rgb[k] \div 4]

\* The registers of each set that the jobs and the kernel use.
CursorReg == 15      \* the kernel ends a cursor update on CRTC 0F
UsedCalls == {SCREEN_ON} \cup UNION {ToSet(j.calls[p]) : j \in Jobs, p \in Programs}
Registers ==
  [s \in Sets |-> CASE s = "ATR"  -> 0..31
                    [] s = "CRTC" -> {c.index : c \in {d \in UsedCalls : d.set = s}} \cup {0, CursorReg}
                    [] s \in {"SEQ", "GR", "EXT", "PORT"} ->
                         {c.index : c \in {d \in UsedCalls : d.set = s}} \cup {0}]

FirstCard ==
  [ix   |-> [s \in Sets |-> IF s = "ATR" THEN 32 ELSE 0],
   reg  |-> [s \in Sets |-> [i \in Registers[s] |-> 90]],
   flip |-> FALSE,
   dac  |-> [at |-> 0, n |-> 0, got |-> NoColour, size |-> DacSize,
             col |-> [i \in 0..DacSize - 1 |-> NoColour]]]
Switched(c, pal) ==   \* the kernel writes its palette to the DAC
  [c EXCEPT !.dac.col = [i \in DOMAIN @ |-> IF i \in Text THEN DacColour(pal[AnsiOrder(i)]) ELSE @[i]],
            !.dac.at = 16 % DacSize, !.dac.n = 0, !.dac.got = NoColour]

Init ==
  /\ kpal \in Palettes
  /\ card = Switched(FirstCard, kpal)
  /\ font = "normal"
  /\ \E j \in Jobs : job = j.calls /\ bursts = j.bursts /\ kills = j.kills
  /\ calls = job
  /\ pc = [p \in Programs |-> 1]
  /\ got = [p \in Programs |-> <<>>]
  /\ mine = [p \in Programs |-> [i \in Text |-> NoColour]]
  /\ buf = <<>> /\ pipe = <<>>
  /\ ended = [p \in Programs |-> IF job[p] = <<>> THEN "done" ELSE "run"]
  /\ hits = [p \in Programs |-> 0]
  /\ old = [p \in Programs |-> 0]
  /\ was = [p \in Programs |-> kpal]
  /\ alone = [p \in Programs |-> FALSE]
  /\ loaded = [p \in Programs |-> FALSE]
  /\ last = Nobody

(***************************************************************************)
(* A program's step through its calls.                                     *)
(***************************************************************************)
Running(p) == calls[p] # <<>>
Current(p) == Head(calls[p])
Merge(c, byte) == BitOr(BitAnd(byte, c.keep), c.or)

Code(p) ==
  LET c == Current(p) IN
  CASE c.do = "out"    -> Outb(c.set, c.index, c.data)
    [] c.do = "in"     -> Inb(c.set, c.index)
    [] c.do = "modify" -> Inb(c.set, c.index)
                          \o Outb(c.set, c.index, Merge(c, IF got[p] = <<>> THEN 0 ELSE got[p][1]))
    [] c.do = "rgb"    -> WRITERGB(c.index, c.rgb)
    [] c.do = "dump"   -> ReadRGB(c.index)
UsesPorts(p) == Running(p) /\ Current(p).set # "none"
Finishes(p) == pc[p] = Len(Code(p))      \* the next access is the call's last
Starting(p) == calls[p] = job[p] /\ pc[p] = 1

\* p is the one that acts: every other program is no longer alone, and what
\* stood since the last program ended stands no longer, unless p ends well now.
Acts(p, ends) ==
  LET byItself == IF Starting(p) THEN TRUE ELSE alone[p] IN
  /\ alone' = [q \in Programs |-> q = p /\ byItself]
  /\ last' = IF ends /\ byItself THEN p ELSE Nobody

\* p goes on with the calls in rest; how is how p stands when none are left,
\* or "aborted" at once.
GoOn(p, rest, how) ==
  /\ calls' = [calls EXCEPT ![p] = rest]
  /\ pc' = [pc EXCEPT ![p] = 1]
  /\ got' = [got EXCEPT ![p] = <<>>]
  /\ ended' = [ended EXCEPT ![p] = IF @ = "run" /\ (rest = <<>> \/ how = "aborted") THEN how ELSE @]
  /\ hits' = [hits EXCEPT ![p] = 0]
  /\ Acts(p, rest = <<>> /\ ended[p] = "run" /\ how = "done")
  /\ UNCHANGED job

\* PERROR turns the screen on again and exits.
Abort(p) ==
  /\ GoOn(p, <<SCREEN_ON>>, "aborted")
  /\ UNCHANGED <<card, kpal, font, mine, buf, pipe, bursts, kills, old, was, loaded>>

(***************************************************************************)
(* One port access.  With the last of a call its result is stored.         *)
(***************************************************************************)
Remembers(p) == Finishes(p) /\ Current(p).do = "rgb" /\ Current(p).index \in Text
Access(p) ==
  /\ UsesPorts(p)
  /\ LET c == Current(p)
         a == Code(p)[pc[p]]
         read == got[p] \o Reads(card, a)
         line == <<c.index, read>>
     IN
     /\ card' = Effect(card, a)
     /\ IF Finishes(p)
          THEN GoOn(p, Tail(calls[p]), "done")
          ELSE /\ pc' = [pc EXCEPT ![p] = @ + 1]
               /\ got' = [got EXCEPT ![p] = read]
               /\ Acts(p, FALSE)
               /\ UNCHANGED <<job, calls, ended, hits>>
     /\ mine' = IF Remembers(p)
                  THEN [mine EXCEPT ![p][color_table[c.index + 1]] = KernelColour(c.rgb)]
                  ELSE mine
     /\ buf' = IF Finishes(p) /\ c.do = "dump"
                 THEN (IF Len(buf) = BufferLines - 1 THEN <<>> ELSE Append(buf, line))
                 ELSE buf
     /\ pipe' = IF Finishes(p) /\ c.do = "dump" /\ Len(buf) = BufferLines - 1
                  THEN pipe \o buf \o <<line>> ELSE pipe
     /\ old' = [old EXCEPT ![p] = IF pc[p] = 1 /\ c.set \in Sets THEN card.reg[c.set][c.index] ELSE @]
  /\ UNCHANGED <<kpal, font, bursts, kills, was, loaded>>

(***************************************************************************)
(* Calls that use no port.                                                 *)
(***************************************************************************)
Does(p, name) == Running(p) /\ Current(p).do = name
Rest(p) == Tail(calls[p])

\* A line of setpalette's input that lacks a number.
BadLine(p) == Does(p, "bad") /\ Abort(p)

ReadKernelPalette(p) ==
  /\ Does(p, "GIO_CMAP")
  /\ \/ /\ mine' = [mine EXCEPT ![p] = kpal]
        /\ was' = [was EXCEPT ![p] = kpal]
        /\ GoOn(p, Rest(p), "done")
        /\ UNCHANGED <<card, kpal, font, buf, pipe, bursts, kills, old, loaded>>
     \/ Abort(p)

\* The kernel takes the palette and shows it.
TellKernel(p) ==
  /\ Does(p, "PIO_CMAP")
  /\ \/ /\ kpal' = mine[p]
        /\ card' = Switched(card, kpal')
        /\ GoOn(p, Rest(p), "done")
        /\ UNCHANGED <<font, mine, buf, pipe, bursts, kills, old, was, loaded>>
     \/ Abort(p)

\* The font program stores a font, in the order CRTC 3A asks for, or fails;
\* the program goes on either way.
FontProg(p) ==
  /\ Does(p, "fontprog")
  /\ \E ok \in BOOLEAN :
       /\ font' = IF ~ok THEN font
                  ELSE IF Bit(card.reg["CRTC"][58], 5) = 1 THEN "fast" ELSE "normal"
       /\ loaded' = [loaded EXCEPT ![p] = ok]
  /\ GoOn(p, Rest(p), "done")
  /\ UNCHANGED <<card, kpal, mine, buf, pipe, bursts, kills, old, was>>

\* setpalette - takes the next line of the pipe, or sees its end.
Writers == {q \in Programs : \E c \in ToSet(calls[q]) : c.do \in {"dump", "exit"}}
NextLine(p) ==
  /\ Does(p, "lines")
  /\ IF pipe # <<>>
       THEN /\ GoOn(p, <<Colour(Head(pipe)[1], Head(pipe)[2])>> \o calls[p], "done")
            /\ pipe' = Tail(pipe)
       ELSE Writers = {} /\ GoOn(p, Rest(p), "done") /\ UNCHANGED pipe
  /\ UNCHANGED <<card, kpal, font, mine, buf, bursts, kills, old, was, loaded>>

\* getpalette's exit writes what is left in the buffer.
Exit(p) ==
  /\ Does(p, "exit")
  /\ pipe' = pipe \o buf
  /\ buf' = <<>>
  /\ GoOn(p, Rest(p), "done")
  /\ UNCHANGED <<card, kpal, font, mine, bursts, kills, old, was, loaded>>

Kill(p) ==
  /\ Running(p) /\ kills > 0
  /\ kills' = kills - 1
  /\ calls' = [calls EXCEPT ![p] = <<>>]
  /\ ended' = [ended EXCEPT ![p] = "killed"]
  /\ UNCHANGED <<card, kpal, font, job, pc, got, mine, buf, pipe, bursts, history>>

(***************************************************************************)
(* The kernel.                                                             *)
(***************************************************************************)
Burst(use, sets, c) ==
  /\ use \in KernelUses /\ bursts > 0
  /\ bursts' = bursts - 1
  /\ card' = c
  /\ hits' = [p \in Programs |->
                IF UsesPorts(p) /\ pc[p] > 1 /\ Current(p).set \in sets THEN hits[p] + 1 ELSE hits[p]]
  /\ UNCHANGED <<kpal, font, local, buf, pipe, kills, old, was, alone, loaded, last>>

\* It moves the cursor: the CRTC's index stays on the cursor's register.
KernelCursor == \E where \in {0, 165} :
  Burst("cursor", {"CRTC"}, [card EXCEPT !.ix["CRTC"] = CursorReg, !.reg["CRTC"][CursorReg] = where])
\* It reads the status register, which resets the flip-flop, or goes on to
\* write an attribute register as it is, with the display left on.
KernelAttributes == \E write \in BOOLEAN :
  Burst("attributes", {"ATR"},
        IF write THEN [card EXCEPT !.flip = FALSE, !.ix["ATR"] = 48] ELSE [card EXCEPT !.flip = FALSE])
\* It reads or writes the font memory and puts the registers back.
KernelFont == Burst("font", {"SEQ", "GR"}, [card EXCEPT !.ix["SEQ"] = 0, !.ix["GR"] = 0])
KernelSwitch == Burst("switch", {"DAC"}, Switched(card, kpal))

Calls(p) == \/ Access(p) \/ BadLine(p) \/ ReadKernelPalette(p) \/ TellKernel(p)
            \/ FontProg(p) \/ NextLine(p) \/ Exit(p)
Next == \/ \E p \in Programs : Calls(p) \/ Kill(p)
        \/ KernelCursor \/ KernelAttributes \/ KernelFont \/ KernelSwitch
Spec == Init /\ [][Next]_vars

(***************************************************************************)
(* Properties.                                                             *)
(***************************************************************************)
\* A byte never lands in a register the call does not name.  For the register
\* sets with index and data ports this holds whoever interrupts, because one
\* outw writes both; for the attribute controller and the DAC it holds against
\* the kernel, except that the rest of a colour cut in two by a console switch
\* goes to DAC entry 16, which text mode does not use.
Confined(p) ==
  LET c == Current(p) IN
  /\ \A s \in Sets : \A i \in Registers[s] :
       card'.reg[s][i] # card.reg[s][i] => s = c.set /\ i = c.index
  /\ \A i \in 0..DacSize - 1 :
       card'.dac.col[i] # card.dac.col[i] => c.set = "DAC" /\ (i = c.index \/ (hits[p] > 0 /\ i = 16))
NothingStrays ==
  [][\A p \in Programs : Access(p) /\ (alone'[p] \/ Current(p).set \in Indexed) => Confined(p)]_vars

\* What a finished call has done: a write has arrived, an attribute even if
\* the kernel came in once (Outb_ATR_CTL writes it twice), and leaves the
\* picture on; a read-modify-write has set and cleared its bits even if the
\* kernel came in between, and without that has changed no other bit.
Written(p, new) ==
  LET c == Current(p) IN
  CASE c.do = "out"    -> new = c.data
    [] c.do = "modify" -> BitAnd(new, c.or) = c.or /\ BitAnd(new, 255 - BitOr(c.keep, c.or)) = 0
    [] c.do = "in"     -> TRUE
Arrived(p) ==
  LET c == Current(p)
      new == card'.reg[c.set][c.index]
      undisturbed == alone'[p] /\ hits[p] = 0
  IN
  /\ (c.set \in Indexed \/ (alone'[p] /\ hits[p] <= 1)) => Written(p, new)
  /\ undisturbed /\ c.do = "modify" => new = Merge(c, old[p])
  /\ undisturbed /\ c.set = "ATR" => PaletteOn(card')
CallsTakeEffect ==
  [][\A p \in Programs :
       Access(p) /\ Finishes(p) /\ Current(p).do \in {"out", "in", "modify"} => Arrived(p)]_vars

\* When setpalette has told the kernel, and nobody else has used the card
\* since it began, each of the 16 text colours is the one its last line asked
\* for, on the screen and in the kernel, the others are what the kernel had
\* (to the six bits the DAC keeps, where getpalette's output was piped in),
\* and no console switch, before or after, changes that.
Kept(p, c) == IF Call("lines") \in ToSet(job[p]) THEN KernelColour(DacColour(c)) ELSE c
Lines(p, i) == {k \in 1..Len(job[p]) : job[p][k].do = "rgb" /\ job[p][k].index = i}
ColoursAsAsked ==
  \A p \in Programs : last = p /\ Call("PIO_CMAP") \in ToSet(job[p]) =>
    \A i \in Text :
      IF Lines(p, i) = {}
        THEN /\ kpal[AnsiOrder(i)] = Kept(p, was[p][AnsiOrder(i)])
             /\ card.dac.col[i] = DacColour(was[p][AnsiOrder(i)])
        ELSE LET rgb == job[p][Max(Lines(p, i))].rgb IN
             /\ kpal[AnsiOrder(i)] = KernelColour(rgb)
             /\ card.dac.col[i] = [k \in 1..3 |-> rgb[k] % 64]

\* When SVGATextMode has had a font loaded, whatever programs killed before it
\* left behind, the card fetches the font in the order it is stored in, and
\* the text memory is in its normal order again.
FontAgrees ==
  \A p \in Programs : last = p /\ Call("fontprog") \in ToSet(job[p]) /\ loaded[p] =>
    /\ (Bit(card.reg["CRTC"][49], 6) = 1) = (font = "fast")
    /\ Bit(card.reg["CRTC"][58], 5) = 0
=============================================================================

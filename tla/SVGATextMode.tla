---------------------------- MODULE SVGATextMode ----------------------------
(***************************************************************************)
(* main() of src/SVGATextMode.c from check_if_resize to return(0), run     *)
(* over and over on one machine: every run may ask for another size with   *)
(* other switches, may be ended by PERROR or by a signal between any two   *)
(* steps, and leaves the kernel, the terminals and the VGA registers as    *)
(* they are for the next run, which reads only one terminal's size.        *)
(*                                                                         *)
(* Data is abstracted to the text screen size a mode stands for.  A        *)
(* register group holds the size of the mode whose value was last written  *)
(* to it.  VT_RESIZE and VT_RESIZEX follow the contract of ResizeCall.     *)
(***************************************************************************)
CONSTANTS Size,         \* the sizes of the modes in the config file
          Tiny,         \* the 1x1 screen of the -m fallback
          Text,         \* 80x25, what -o and the boot leave in the registers
          VT,           \* the virtual terminals in use (VT_GETSTATE)
          TermLines,    \* what a "Terminals" line may list; {} without one
          DoSyncReset   \* the DOSYNCRESET build flag

Screen == Size \cup {Tiny}

ASSUME SizeAssumption == Tiny \notin Size /\ Text \in Size
ASSUME VTAssumption == VT # {} /\ TermLines \subseteq SUBSET VT /\ {} \in TermLines
ASSUME FlagAssumption == DoSyncReset \in BOOLEAN

\* The groups of VGA state whose value depends on the mode.
Group == {"clock", "scan", "vert", "horiz", "cell"}

Kernels == {"pre1.1.54", "pre1.3.3", "1.3.3"}

VARIABLES
  pc,       \* the step main() is about to take; "idle" between runs
  opt,      \* the requested size, the Terminals line, -m -a -k -c -r -o
  kver,     \* what check_kernel_version answers on this machine
  kernel,   \* the console geometry of the kernel
  tty,      \* the winsize of every terminal
  hw,       \* the mode each register group was written for
  blank,    \* SEQ 1 bit 5: the screen is off
  held,     \* SEQ 0 bit 1 clear: the sequencer is held in reset
  vgaOpen,  \* vga_open: PERROR may touch the VGA
  sresize,  \* main()'s sresize
  todo,     \* terminals the tty loop has still to resize
  exit,     \* how the last run ended
  kernel0,  \* history: the kernel's geometry when the run began
  skew,     \* history: check_if_resize read a size the kernel did not have
  touched,  \* history: this run has written to a register group
  told,     \* history: this run has run ResetProg
  inStep    \* history: since the last complete resize (CompleteResize) or
            \* the boot, no run has ended with another kernel geometry

screenVars == <<blank, held>>
histVars   == <<kernel0, skew, touched, told, inStep>>
vars == <<pc, opt, kver, kernel, tty, hw, blank, held, vgaOpen, sresize,
          todo, exit, kernel0, skew, touched, told, inStep>>

Options == [size : Size, terminals : TermLines, m : BOOLEAN, a : BOOLEAN,
            k : BOOLEAN, c : BOOLEAN, r : BOOLEAN, o : BOOLEAN]

PC == {"idle", "ended", "check", "ioperm", "decide",
       "vt_resize", "vt_tiny", "vt_done", "vtx_resize", "vtx_tiny", "vtx_done",
       "ttys", "textmode", "blank", "mclk", "pixclock", "unblank",
       "scan", "vert", "horiz", "kdmode", "charwidth", "screen_on",
       "font", "resetprog"}

TypeOK == /\ pc \in PC
          /\ opt \in Options
          /\ kver \in Kernels
          /\ kernel \in Screen
          /\ tty \in [VT -> Screen]
          /\ hw \in [Group -> Size]
          /\ blank \in BOOLEAN
          /\ held \in BOOLEAN
          /\ vgaOpen \in BOOLEAN
          /\ sresize \in BOOLEAN
          /\ todo \subseteq VT
          /\ exit \in {"none", "normal", "error", "killed"}
          /\ kernel0 \in Screen
          /\ skew \in BOOLEAN
          /\ touched \in BOOLEAN
          /\ told \in BOOLEAN
          /\ inStep \in BOOLEAN

NoOptions == [size |-> Text, terminals |-> {}, m |-> FALSE, a |-> FALSE,
              k |-> FALSE, c |-> FALSE, r |-> FALSE, o |-> FALSE]

\* A machine that booted in text mode.
Init == /\ pc = "idle"
        /\ opt = NoOptions
        /\ kver \in Kernels
        /\ kernel = Text
        /\ tty = [v \in VT |-> Text]
        /\ hw = [g \in Group |-> Text]
        /\ blank = FALSE
        /\ held = FALSE
        /\ vgaOpen = FALSE
        /\ sresize = TRUE
        /\ todo = {}
        /\ exit = "none"
        /\ kernel0 = Text
        /\ skew = FALSE
        /\ touched = FALSE
        /\ told = FALSE
        /\ inStep = TRUE
-----------------------------------------------------------------------------
Go(from, to) == pc = from /\ pc' = to

\* (Mutant: the screen stays off.)
PerrorInTheDark == /\ pc' = "ended"
                   /\ exit' = "error"
                   /\ UNCHANGED <<opt, kver, kernel, hw, blank, vgaOpen, sresize, histVars>>

\* PERROR: the screen is switched on again if the VGA is open, and exit(1).
Perror == /\ pc' = "ended"
          /\ exit' = "error"
          /\ blank' = (blank /\ ~vgaOpen)
          /\ UNCHANGED <<opt, kver, kernel, hw, vgaOpen, sresize, histVars>>

\* A new process: options parsed, the config file read, the mode found and
\* validated (check_and_show_mode), program_hardware set.
Start == /\ Go("idle", "check")
         /\ opt' \in Options
         /\ UNCHANGED <<kver, kernel, tty, hw, screenVars, vgaOpen, sresize, todo,
                        exit, histVars>>

\* "Resize or -a, unless -k".  (Mutant: -a is forgotten.)
WantsResizeSeen == sresize /\ ~opt.k
WantsResize == (sresize \/ opt.a) /\ ~opt.k

\* A run that resized ends normally, not at 1x1, and had no Terminals line: it
\* is responsible for every terminal.
CompleteResize ==
  exit = "normal" /\ WantsResize /\ opt.terminals = {} /\ kernel # Tiny

\* The process is gone, and what it kept to itself with it.
Reap == /\ Go("ended", "idle")
        /\ opt' = NoOptions
        /\ exit' = "none"
        /\ vgaOpen' = FALSE
        /\ sresize' = TRUE
        /\ todo' = {}
        /\ kernel0' = kernel
        /\ skew' = FALSE
        /\ touched' = FALSE
        /\ told' = FALSE
        /\ inStep' = (CompleteResize \/ (inStep /\ kernel = kernel0))
        /\ UNCHANGED <<kver, kernel, tty, hw, screenVars>>

\* check_if_resize asks the terminal in the foreground, whichever it is.
CheckIfResize == /\ Go("check", "ioperm")
                 /\ \E v \in VT : /\ sresize' = (tty[v] # opt.size)
                                  /\ skew' = (tty[v] # kernel)
                 /\ UNCHANGED <<opt, kver, kernel, tty, hw, screenVars, vgaOpen, todo,
                                exit, kernel0, touched, told, inStep>>

GetIoPerm == /\ Go("ioperm", "decide")
             /\ vgaOpen' = TRUE
             /\ UNCHANGED <<opt, kver, kernel, tty, hw, screenVars, sresize, todo,
                            exit, histVars>>

NoResize == /\ Go("decide", "textmode")
            /\ ~WantsResize
            /\ UNCHANGED <<opt, kver, kernel, tty, hw, screenVars, vgaOpen, sresize,
                           todo, exit, histVars>>

BeginResize == /\ Go("decide", "vt_resize")
               /\ WantsResize
               /\ kver # "pre1.1.54"
               /\ UNCHANGED <<opt, kver, kernel, tty, hw, screenVars, vgaOpen, sresize,
                              todo, exit, histVars>>
-----------------------------------------------------------------------------
(* do_VT_RESIZE and do_VT_RESIZEX.                                         *)

\* The kernel adopts geometry s; from 1.3.3 on it tells the terminals too.
KernelAdopts(s) == /\ kernel' = s
                   /\ tty' = IF kver = "1.3.3" THEN [v \in VT |-> s] ELSE tty

ResizeFrame == UNCHANGED <<opt, kver, hw, screenVars, vgaOpen, todo, exit, histVars>>

ResizeDirect == /\ Go("vt_resize", "vt_done") \/ Go("vtx_resize", "vtx_done")
                /\ KernelAdopts(opt.size)
                /\ UNCHANGED sresize
                /\ ResizeFrame

\* Only with -m.  (Mutant: always.)
ResizeToTinyAlways == /\ Go("vt_resize", "vt_tiny") \/ Go("vtx_resize", "vtx_tiny")
                      /\ KernelAdopts(Tiny)
                      /\ UNCHANGED sresize
                      /\ ResizeFrame
ResizeToTiny == /\ Go("vt_resize", "vt_tiny") \/ Go("vtx_resize", "vtx_tiny")
                /\ opt.m
                /\ KernelAdopts(Tiny)
                /\ UNCHANGED sresize
                /\ ResizeFrame

\* From 1x1 to the new size, or "Serious trouble": TRUE is returned anyway.
ResizeFromTiny == /\ Go("vt_tiny", "vt_done") \/ Go("vtx_tiny", "vtx_done")
                  /\ \/ KernelAdopts(opt.size)
                     \/ UNCHANGED <<kernel, tty>>
                  /\ sresize' = TRUE
                  /\ ResizeFrame

Again133 == /\ pc = "vt_done"
            /\ pc' = IF kver = "1.3.3" THEN "vtx_resize" ELSE "vtx_done"
            /\ UNCHANGED <<kernel, tty, sresize>>
            /\ ResizeFrame

\* (Mutant: without the line nothing is resized.)
TermsListed == opt.terminals

\* p_terminals if there is such a line, else what VT_GETSTATE reports.
TermsToResize == IF opt.terminals # {} THEN opt.terminals ELSE VT

\* Kernels from 1.3.3 on resized the terminals themselves; for the others
\* those of the Terminals line, or all active ones, are taken one by one.
BeginTtys == /\ pc = "vtx_done"
             /\ \/ /\ kver = "1.3.3"
                   /\ pc' = "textmode"
                   /\ UNCHANGED todo
                \/ /\ kver # "1.3.3"
                   /\ pc' = "ttys"
                   /\ todo' = TermsToResize
             /\ UNCHANGED <<opt, kver, kernel, tty, hw, screenVars, vgaOpen, sresize,
                            exit, histVars>>

ResizeTty(v) == /\ pc = "ttys"
                /\ v \in todo
                /\ tty' = [tty EXCEPT ![v] = opt.size]
                /\ todo' = todo \ {v}
                /\ UNCHANGED <<pc, opt, kver, kernel, hw, screenVars, vgaOpen, sresize,
                               exit, histVars>>

\* (Mutant: the loop ends before the last terminal.)
EndTtysEarly == /\ Go("ttys", "textmode")
                /\ \A v, w \in todo : v = w
                /\ UNCHANGED <<opt, kver, kernel, tty, hw, screenVars, vgaOpen, sresize,
                               todo, exit, histVars>>
EndTtys == /\ Go("ttys", "textmode")
           /\ todo = {}
           /\ UNCHANGED <<opt, kver, kernel, tty, hw, screenVars, vgaOpen, sresize,
                          todo, exit, histVars>>
-----------------------------------------------------------------------------
(* The hardware.                                                           *)

HwFrame == UNCHANGED <<opt, kver, kernel, tty, vgaOpen, sresize, todo, exit,
                       kernel0, skew, told, inStep>>

\* Set_Textmode; unlock; special.  With -o all standard registers go to the
\* 80x25 values, except that CRTC 0..7 (all horizontal, part of the vertical
\* timings) keep theirs while the CRTC is write protected.
SetTextmode == /\ Go("textmode", IF opt.c THEN "scan" ELSE "blank")
               /\ \/ /\ ~opt.o
                     /\ UNCHANGED <<hw, screenVars, touched>>
                  \/ /\ opt.o
                     /\ \E h \in {Text, hw["horiz"]}, v \in {Text, hw["vert"]} :
                          hw' = [hw EXCEPT !["scan"] = Text, !["cell"] = Text,
                                           !["horiz"] = h, !["vert"] = v]
                     /\ blank' = FALSE
                     /\ held' = FALSE
                     /\ touched' = TRUE
               /\ HwFrame

\* do_clock: blank, memory clock, pixel clock inside a sequencer reset, unblank.
ScreenOff == /\ Go("blank", "mclk")
             /\ blank' = TRUE
             /\ UNCHANGED <<hw, held, touched>>
             /\ HwFrame

SetMclk == /\ Go("mclk", "pixclock")
           /\ held' \in {held, held /\ ~DoSyncReset}
           /\ UNCHANGED <<hw, blank, touched>>
           /\ HwFrame

SetPixclock == /\ Go("pixclock", "unblank")
               /\ hw' = [hw EXCEPT !["clock"] = opt.size]
               /\ held' = (held /\ ~DoSyncReset)
               /\ touched' = TRUE
               /\ UNCHANGED blank
               /\ HwFrame

Unblank == /\ Go("unblank", "scan")
           /\ blank' = FALSE
           /\ UNCHANGED <<hw, held, touched>>
           /\ HwFrame

WriteGroup(from, to, g) == /\ Go(from, to)
                           /\ hw' = [hw EXCEPT ![g] = opt.size]
                           /\ touched' = TRUE
                           /\ UNCHANGED screenVars
                           /\ HwFrame

\* (Mutant: the vertical timings are left out.)
SkipVTimings == /\ Go("vert", "horiz")
                /\ UNCHANGED <<hw, screenVars, touched>>
                /\ HwFrame

SetMaxScanline == WriteGroup("scan", "vert", "scan")
SetVTimings    == WriteGroup("vert", "horiz", "vert")
SetHTimings    == WriteGroup("horiz", "kdmode", "horiz")

\* interlace ... 16 color bit, none of which depends on the size; KDSETMODE.
KdSetmode == /\ Go("kdmode", "charwidth")
             /\ UNCHANGED <<hw, screenVars, touched>>
             /\ HwFrame

SetCharwidth == WriteGroup("charwidth", "screen_on", "cell")

ScreenOn == /\ Go("screen_on", "font")
            /\ blank' = FALSE
            /\ UNCHANGED <<hw, held, touched>>
            /\ HwFrame

\* The font program, if one is to be run, is run and succeeds.
LoadFont == /\ Go("font", "resetprog")
            /\ UNCHANGED <<hw, screenVars, touched>>
            /\ HwFrame

\* ResetProg, if there was a resize to tell of.  (Mutant: -a is forgotten.)
ResetProgSeen == /\ pc = "resetprog"
                 /\ pc' = "ended"
                 /\ exit' = "normal"
                 /\ told' = (~opt.r /\ sresize)
                 /\ UNCHANGED <<opt, kver, kernel, tty, hw, screenVars, vgaOpen, sresize,
                                todo, kernel0, skew, touched, inStep>>

ResetProg == /\ pc = "resetprog"
             /\ pc' = "ended"
             /\ exit' = "normal"
             /\ told' = (~opt.r /\ (sresize \/ opt.a))
             /\ UNCHANGED <<opt, kver, kernel, tty, hw, screenVars, vgaOpen, sresize,
                            todo, kernel0, skew, touched, inStep>>
-----------------------------------------------------------------------------
(* The ways out.                                                           *)

\* The steps that end in PERROR when the call they make fails.
MayFail == {"check", "ioperm", "vt_resize", "vt_tiny", "vtx_resize", "vtx_tiny", "ttys",
            "kdmode", "charwidth", "font", "resetprog"}

Fail == /\ \/ pc \in MayFail
           \/ pc = "decide" /\ WantsResize /\ kver = "pre1.1.54"
        /\ Perror
        /\ UNCHANGED <<tty, todo, held>>

\* do_clock's failures.  With DOSYNCRESET the sequencer is in reset while
\* ClockProg or the clock code runs, and only some branches end the reset
\* before they call PERROR.
FailInClock == /\ pc \in {"mclk", "pixclock"}
               /\ Perror
               /\ held' \in (IF DoSyncReset THEN BOOLEAN ELSE {held})
               /\ UNCHANGED <<tty, todo>>

\* A signal: nothing is caught, nothing is restored.
Kill == /\ pc \notin {"idle", "ended"}
        /\ pc' = "ended"
        /\ exit' = "killed"
        /\ UNCHANGED <<opt, kver, kernel, tty, hw, screenVars, vgaOpen, sresize,
                       todo, histVars>>

Run == \/ Reap \/ CheckIfResize \/ GetIoPerm \/ NoResize \/ BeginResize
       \/ ResizeDirect \/ ResizeToTiny \/ ResizeFromTiny \/ Again133
       \/ BeginTtys \/ (\E v \in VT : ResizeTty(v)) \/ EndTtys
       \/ SetTextmode \/ ScreenOff \/ SetMclk \/ SetPixclock \/ Unblank
       \/ SetMaxScanline \/ SetVTimings \/ SetHTimings \/ KdSetmode
       \/ SetCharwidth \/ ScreenOn \/ LoadFont \/ ResetProg
       \/ Fail \/ FailInClock

Next == Start \/ Run \/ Kill

Spec == Init /\ [][Next]_vars
-----------------------------------------------------------------------------
(* Properties.                                                             *)

\* From the first mode-dependent register a run writes, through its end and
\* also when it is aborted or killed, the kernel works with the geometry the
\* hardware is going to: VT_RESIZE comes before the hardware.  The excuses
\* are -k, a screen left at 1x1 by -m, and, without -a, a terminal whose size
\* was not the kernel's when check_if_resize read it.
HardwareNeverAhead ==
  (touched /\ ~opt.k /\ (opt.a \/ ~skew)) =>
     kernel = opt.size \/ (opt.m /\ kernel = Tiny)

\* A run that ends normally has put every register group to its mode,
\* whatever mixture earlier aborted or killed runs left (with -c the clock
\* keeps the value it had).
SuccessProgramsAll ==
  exit = "normal" => \A g \in Group \ (IF opt.c THEN {"clock"} ELSE {}) : hw[g] = opt.size

\* A run that opened the VGA and ended by itself, normally or by PERROR at
\* any step, leaves the screen on and the sequencer running ("PERROR() must
\* switch screen back on, so you can read the error").
LitAtExit ==
  (exit \in {"normal", "error"} /\ vgaOpen) => ~blank /\ ~held

\* check_if_resize judges the kernel's geometry by the size of one terminal.
\* That is right, whichever it is, as long as no run since the last complete
\* resize has moved the geometry and not got through all the terminals (cut
\* short between VT_RESIZE and the end of the loop, left at 1x1, or with a
\* Terminals line); and until then a run that ends normally has brought the
\* kernel and all terminals to its size, also one that skipped the resize.
StaleHasACause ==
  inStep =>
    /\ ~skew
    /\ pc \in {"idle", "check"} => \A v \in VT : tty[v] = kernel
    /\ (exit = "normal" /\ ~opt.k /\ opt.terminals = {} /\ kernel # Tiny) =>
          kernel = opt.size /\ \A v \in VT : tty[v] = opt.size

\* After a resizing run that ends normally every terminal it is responsible
\* for has the new size: all active ones, or those of the Terminals line on
\* kernels that do not do it themselves.
TtysFollow ==
  (exit = "normal" /\ WantsResize /\ kernel # Tiny) =>
     \A v \in VT : (kver = "1.3.3" \/ opt.terminals = {} \/ v \in opt.terminals)
                    => tty[v] = opt.size

\* A run that ends normally and left the kernel with another geometry than
\* it found has told the applications through ResetProg (unless -r).
ChangeIsTold ==
  (exit = "normal" /\ kernel # kernel0 /\ ~opt.r) => told

\* "This is done BEFORE programming any hardware, so if it gives an out of
\* memory error ... the screen isn't left all messed up": without -m, an
\* error before the hardware is touched leaves the kernel its geometry.
ErrorLeavesScreen ==
  (exit = "error" /\ ~touched /\ ~opt.m) => kernel = kernel0

-----------------------------------------------------------------------------
(* The inductive strengthening of the safety properties: what holds at each *)
(* step of a run, from the check to the last register.                     *)

\* Steps that write registers, and those before them.
HwSteps == {"textmode", "blank", "mclk", "pixclock", "unblank", "scan", "vert",
            "horiz", "kdmode", "charwidth", "screen_on", "font", "resetprog"}

EarlySteps == PC \ (HwSteps \cup {"ended"})

\* The geometry the run asked for, or the 1x1 screen -m may leave.
KernelSettled == kernel = opt.size \/ (opt.m /\ kernel = Tiny)

EarlyUntouched == pc \in EarlySteps => ~touched

\* The check found the size asked for, in a terminal that told the truth.
CheckedSize == (pc \in {"ioperm", "decide"} /\ ~sresize /\ ~skew) => kernel = opt.size

ResizeSettled ==
  /\ pc \in {"vt_tiny", "vtx_tiny"} => opt.m /\ kernel = Tiny
  /\ pc \in {"vt_done", "vtx_resize", "vtx_done", "ttys"} => KernelSettled
  /\ (pc \in HwSteps /\ ~opt.k /\ (opt.a \/ ~skew)) => KernelSettled
  /\ (pc \in HwSteps \/ exit = "normal") /\ WantsResize => KernelSettled

\* The steps a register group has been written before.
After(g) ==
  CASE g = "clock" -> {"unblank", "scan", "vert", "horiz", "kdmode", "charwidth",
                       "screen_on", "font", "resetprog"}
    [] g = "scan"  -> {"vert", "horiz", "kdmode", "charwidth", "screen_on", "font", "resetprog"}
    [] g = "vert"  -> {"horiz", "kdmode", "charwidth", "screen_on", "font", "resetprog"}
    [] g = "horiz" -> {"kdmode", "charwidth", "screen_on", "font", "resetprog"}
    [] g = "cell"  -> {"screen_on", "font", "resetprog"}

Programmed ==
  \A g \in Group : (pc \in After(g) /\ ~(g = "clock" /\ opt.c)) => hw[g] = opt.size

ScreenInv == /\ pc \in {"font", "resetprog"} => ~blank
             /\ ~DoSyncReset => ~held

\* The geometry only changes in a run that wants a resize.
ChangeWanted ==
  /\ pc \in {"idle", "check", "ioperm", "decide"} => kernel = kernel0
  /\ pc \in EarlySteps \ {"idle", "check", "ioperm", "decide"} => WantsResize
  /\ kernel # kernel0 => sresize \/ opt.a

\* The terminal loop and what it has done.
TtysSettled ==
  /\ pc = "ttys" => kver # "1.3.3" /\ \A v \in TermsToResize \ todo : tty[v] = opt.size
  /\ (pc \in HwSteps /\ WantsResize /\ kver # "1.3.3") =>
        \A v \in TermsToResize : tty[v] = opt.size

ExitAtEnd == pc # "ended" => exit = "none"

\* From 1.3.3 on the kernel keeps the terminals in step itself.
KernelTells == kver = "1.3.3" => \A v \in VT : tty[v] = kernel

\* The kernels that do not: until the terminal loop every terminal has the size
\* the run began with, and one the loop has done the size asked for.
LateSteps == HwSteps \cup {"ttys", "ended"}
TtysSinceStart ==
  inStep => /\ kernel0 # Tiny
            /\ kver # "1.3.3" => \A v \in VT :
                 \/ tty[v] = kernel0
                 \/ tty[v] = opt.size /\ KernelSettled /\ pc \in LateSteps

IInv == /\ TypeOK
        /\ EarlyUntouched
        /\ CheckedSize
        /\ ResizeSettled
        /\ Programmed
        /\ ScreenInv
        /\ ChangeWanted
        /\ TtysSettled
        /\ ExitAtEnd
        /\ HardwareNeverAhead
        /\ SuccessProgramsAll
        /\ KernelTells
        /\ TtysSinceStart
        /\ StaleHasACause
        /\ TtysFollow
        /\ ChangeIsTold
        /\ (~DoSyncReset => LitAtExit)
-----------------------------------------------------------------------------
\* The two resize calls of a run, as the contract sees them.
Contract == INSTANCE ResizeCall WITH
  phase <- CASE pc \in {"vt_resize", "vtx_resize"} -> "running"
             [] pc \in {"vt_tiny", "vtx_tiny"}     -> "tiny"
             [] pc \in {"vt_done", "vtx_done"}     -> "returned"
             [] OTHER                              -> "idle",
  target <- opt.size,
  allow1x1 <- opt.m

\* main() makes its resize calls within the contract VTResize implements.
UsesContract == Contract!Spec
=============================================================================

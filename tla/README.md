# A TLA+ model of SVGATextMode

SVGATextMode puts a Linux console into a text mode of any size.  It reads a configuration file,
checks the mode it is asked for, tells the kernel about the new geometry (`VT_RESIZE`,
`VT_RESIZEX`), resizes terminals, and programs the VGA's registers and the pixel clock itself.
Everything it does, it does to state that outlives it: the kernel's consoles, the sizes of the
terminals and the registers of the card stay when the process ends, by success, by an error
message (`PERROR`, which exits) or by a signal, and the next run starts from what it finds.
Most of what can go wrong lies there, and most of the properties below are about it.

Line numbers refer to `src/`.  PROJECT.json maps every definition to the lines it models.

## 1. The system

| part | source | state it keeps | operations |
|---|---|---|---|
| main sequence | `SVGATextMode.c` | `sresize`, switches, the chosen mode | check, resize, program, font, ResetProg |
| kernel resize | `ttyresize.c` | retry counter, `errno`; the kernel's geometry and memory | `do_VT_RESIZE`, `do_VT_RESIZEX`, `try_resize`, `make_ram_free` |
| terminal resize | `ttyresize.c` | window sizes of the VTs | `resize_specified_vts`, `resize_active_vts`, `check_if_resize` |
| CRTC programming | `vga_prg.c`, `vga_prg.h`, `unlock_svga.c` | the CRTC's registers | setters, getters, `Set_Textmode`, `set_V_timings`, `set_H_timings` |
| vertical sync wait | `wait_vsync.c`, `wait_vsync.h` | `vtimeout`, SIGALRM's handler, the alarm | `safe_wait_vsync`, `waitframe` |
| pixel clock probe | `probe.c` | frame times | `measure_pixclock` |
| clock selection | `setclock.c`, `clockchip.c` | select bits, divider, clock chip | `do_clock`, `SetClock`, `set_clockchip_clock`, `set_clockchip_Mclock` |
| clock chip drivers | `XFREE/`, called by `clockchip.c` | registers of some 30 chips, their locks and resets | `...SetClock`, divider searches |
| clock index registers | `std_clock.c` | select bits of some 30 chipsets | one function per chipset family |
| validation | `validate.c` | `clock_data` | `sanitize_cfgfile_data`, `validate_mode` |
| configuration | `cfgfile.y`, `cfglex.l` | `clock_data`, mode list, options | one action per kind of line |
| reading a mode back | `grabmode.c`, `modedata.c` | a `t_mode` from the registers | `getmode`, wrap checks, scaling |
| chipset extensions | `unlock_svga.c`, `special_svga.c` | extension registers | `unlock`, `special` |
| fonts, external programs | `special_svga.c`, `run_extprog.c` | font plane, S3 fast text | `S3_StartHSText_FontLoad`, `Run_extern_Prog` |
| tools | `set80.c`, `setVGAreg.c`, `setpalette.c`, `ClockProg.c`, `probeclocks.c` | none of their own; the kernel's palette | use the parts above |

How they interact: `main` calls, in this order, the parser, `sanitize_cfgfile_data`,
`validate_mode`, `check_if_resize` (which reads the size of *one terminal*), `get_VGA_io_perm`, the
two resize calls, the terminal loop, `Set_Textmode`, `do_clock` (with two vertical sync waits
inside), the timing setters, the font loader and ResetProg.  Nothing is handed from one run to the
next but the kernel, the terminals and the registers.  Concurrency comes from outside: other
processes that take the memory a resize needs, the alarm signal, the card's own beam, a signal
that ends the process, and the kernel's console driver, which uses the same VGA ports.

What makes each part correct:

* resize: a screen goes through 1x1 only if that was allowed and only for want of memory; a call
  ends; its return value tells the truth; an abort leaves the old geometry;
* main: the kernel never has another geometry than the hardware is being programmed for; a normal
  end means everything is programmed; the screen is lit whenever the program ends by itself;
  terminals and applications learn of a change;
* CRTC: what is programmed is what was asked, and nothing of what the registers held before mixes
  with it, although one timing is spread over up to four registers and its bits are written one
  at a time;
* reading back: a mode that was programmed comes back as it was asked for; numbers that are wrong
  are not printed without a remark;
* wait: no hang, no alarm without a handler, no stale answer;
* clocks: the dot clock the card ends up with is the one that was validated, whatever an earlier
  run left in the select bits and the divider; nothing is given up half way;
* clock chips: the dot clock decoded from the registers is the one asked for; what a driver opens it
  shuts; the memory of the running machine is never without a clock;
* port accesses: a byte lands in the register it is meant for although the kernel uses the same index
  registers, and the two palettes agree;
* configuration: of several lines the last one counts, wherever it stands, and a mode that is accepted
  is within the limits the file gives.

PROJECT.json lists the hazards by line, each with the properties that cover it or the reason why none does.

## 2. The modules

| module | kind | models |
|---|---|---|
| `ResizeCall` | abstract specification | what one resize call promises its caller |
| `VTResize` | component | the call in detail, with the kernel's memory and rival processes |
| `SVGATextMode` | composition | `main()` over any number of runs; its resize calls are `ResizeCall`'s |
| `CrtcTimings` | component | the 25 CRTC registers bit by bit, setters, getters, the order of `main`'s and of set80's calls |
| `VsyncWait` | component | `safe_wait_vsync`, its alarm, the card, both users, the histogram of the probe |
| `GrabMode` | composition | `grabmode` beside `CrtcTimings`' runs: reading back, unwrapping, guessing |
| `StdClock` | operators | the select bits of every chipset |
| `ClockSelect` | component | sanity checks, validation, search, `do_clock`'s programming; runs of SVGATextMode and of ClockProg |
| `ClockDrivers` | operators | the divider searches of the clock chip drivers, and the clocks their dividers make |
| `ClockChips` | component | the drivers' register writes, one by one, for 28 chips on their cards |
| `VgaPorts` | operators | port accesses and what the card does with each |
| `ToolCalls` | operators | the register calls the programs make, in order |
| `VgaTools` | composition | programs making such calls side by side with the kernel's console driver |
| `ConfigFile` | component | the configuration file line by line, the choice and the validation of the mode |
| `MC...` | | constants for TLC |
| `...Proofs` | | theorems and TLAPS proofs |

`VTResize` implements `ResizeCall` (`ImplementsContract`), and the resize steps of `SVGATextMode` are
steps of `ResizeCall` too (`UsesContract`): `main` relies on nothing about the call but the contract,
and the contract is what the detailed call gives.  `GrabMode` extends `CrtcTimings`, `ClockSelect`
extends `StdClock`, `ClockChips` extends `ClockDrivers`, `VgaTools` extends `ToolCalls` and `ToolCalls`
`VgaPorts`.

### VTResize

State: the geometry the kernel works with, its free memory and what it could get back (`cache`),
and the call's own position, loop counter, `errno` and round (before or after 1x1).  `Call` is the
entry with a target, `-m` and a request that the kernel may reject as a whole; `OpenTty` is
`opentty`, which may fail; `ResizeDone` and `ResizeFails` are one ioctl and the loop test after it;
`MakeRamFree` is the child process that dirties pages, which moves memory from `cache` to `free` and
may itself be beaten; `GiveUp` and `GoTiny` are the branch on `errno` and `allow1x1`.  `Snatch` and
`Release` are all other processes, enabled at any time; `Kill` is a signal.  Memory is counted in
units.  The kernel allocates the new buffers before it frees the old (the reason for the retry and
for the detour), and a geometry already in force costs nothing.  This kernel is external: its
behaviour is taken from how the code and its comments use it.

### SVGATextMode

One action per call `main` makes that changes something, from `check_if_resize` to `return(0)`.  A
register group (`clock`, `scan`, `vert`, `horiz`, `cell`) holds the size of the mode it was last
written for.  Each run picks its size, its switches (`-m -a -k -c -r -o`) and its Terminals line;
`Fail` is `PERROR` at every call that can fail, `Kill` a signal between any two steps, `Reap` the end
of the process, after which only the kernel, the terminals and the registers remain.  The kernel is
of one of three generations (`check_kernel_version`): without resizing, with `VT_RESIZE` only, and
1.3.3 or later, which also resizes the terminals.  The history bit `inStep` says that since the last
resize that got through the terminals (`CompleteResize`), or the boot, no run has ended with the geometry
moved: until then the terminals speak for the kernel.

### CrtcTimings

`crtc` holds 25 bytes.  `Out` is `Outb_CRTC` with the width of its outw (a value is cut to a byte) and
the write protection of registers 0 to 7; each setter of `vga_prg.h` is an operator on register
files, each call of `main` an action, `End` a normal end or a signal between two of them.  `Struct` is
`complete_modestruct`, `V` and `H` the arithmetic of `set_V_timings` and `set_H_timings` with its
integer divisions, `Get...` the getters grabmode reads the same registers with.  A run is one of
SVGATextMode or one of set80 (`StartSet80`), which sets its own 80x25 line with some of the same calls.

### GrabMode

`GetMode` reads `CrtcTimings`' register file with the getters into a `modestruct`; `PreClockprobe`,
`MeasurePixclock` and `PostClockprobe` are the three calls of `getmode` that change it, `Exit` prints.
The operators between them are `modedata.c`'s functions: `Unwrap` is `check2`, `WrapCheck` is
`wrapcheck`, `PresetShift` is `wrapcheck_preset`, and `Post` goes through the guesses in the order of
the code, each on the result of the one before (`WithWidth`, `WithHeight`, `GuessHeight`,
`GuessWidth`).  The `while` loop of the ratio compensation is its closed form (`RatioShift`), and the
float ratios are exact quotients.  `Program` is a step of a run of SVGATextMode, so that a mode is
read back when it is complete, and when a signal has left half of it; `Found` and `adapter` stand for
other programs' graphics modes.  The measured clock enters as a number, a failure, or a number with
a remark; without a measurement it is unset (and printed as `***`).

### VsyncWait

The program polls; `Beam` and `Stall` are the card, `Tick` and `Ring` the alarm clock and the signal.
`Hoisted` is the one liberty a compiler has here: `vtimeout` is a plain global, so a build may read
it before the loops.  The program's part is otherwise step by step `wait_vblk`, `waitframe`,
`do_clock`'s two waits and `measure_pixclock`.  The times of a measurement come out of the clock
sorted (`Sort`: any times a frame may take, less whole seconds), are counted band by band
(`CountBand`, one turn of the outer loop), and those around the fullest band are summed (`Average`);
the mean and the frequencies are left as the fraction they are computed from.

### StdClock and ClockSelect

`Writes(chipset, n, no, opts)` is the function on select bits that a `...ClockSelect` function leaves
when it selects clock `no` of `n`; bits it does not write are not in its domain, so that what an
earlier run left in them stays.  `ClockSelect` runs a configuration through
`sanitize_cfgfile_data` (`Sanitize`, with the chips it forces), `validate_mode` (`Validate`),
`set_clockchip_Mclock` (`SetMclk`) and one of `SetClock`, `set_clockchip_clock` and ClockProg, and then
writes the divider (`SetDiv2`).  A `PERROR` ends the run in the step it is in and `exit` remembers
which; a signal may end it anywhere.  The clock `findclosestclock` ends with is stated by what it is
(`Closest`: of the clocks at the least distance the first), with the halves behind the line as the
code stores them.  Chips whose `case`s do the same are represented by one of them, and their drivers
program what they are asked (how, is `ClockChips`' matter).

A run is of SVGATextMode or of the tool ClockProg (`tool`).  ClockProg takes a clock from its command
line, always checks it, knows neither a font nor the monitor's limit, and replaces the file's memory
clock by `-m`'s, but only if an index follows the clock (`CheckClockProg`), and after the sanity check.

### ClockDrivers and ClockChips

`ClockDrivers` has one operator per search: the dividers it ends with as the best of a set of
candidates, with the first of equals as the loops keep them; and one per chip for the clock such
dividers make, taken from the formulas in the same files.  The drivers that compute in floating point
are modelled with the exact value of their crystal, 157500/11 kHz.  NVIDIA's cards are told apart by
PCI id as `get_gpu_arch` does, and by the straps that say which crystal they have; `CardsAssumption` has
TLC check that the run has a card for each kind of PLL and of crystals in `nvidia_pci_ids`.  Two facts of those
tables: the Aladdin TNT2 (id A0) is in the table and unknown to `get_gpu_arch`, so it is programmed as a
TNT; and on a RIVA128, whose VCO must run between 128 and 230 MHz, no divider fits between 115 and
128 MHz, so that m, n and p stay as the stack had them.  `Mach64Dsp` is the computation of
the MACH64's display FIFO registers.

`ClockChips` makes of a run a script of register writes, first those of `set_clockchip_Mclock`, then
those of `set_clockchip_clock`, and takes them one at a time; a run may be killed between any two, and
the next starts with the registers as they are.  `After` is the hardware: ports that advance a
pointer, words that a serial chip takes over with the last bit, the Matrox memory clock that changes
hands between two PLLs.  The S3 Virge, whose driver is the Trio's with one more bit, is the Trio.  The
Laguna and the Cyber938x are in the module but not in the run: the first because of
`CirrusClk.c:169` (numerator and denominator change registers but not masks, so bit 6 of the numerator
sticks), the second because of `TGUIclk.c:83`.

### VgaPorts, ToolCalls and VgaTools

`VgaPorts` is the level of single port accesses: index registers, data registers, `outw`, the
attribute controller's flip-flop, the DAC with its component counter.  `ToolCalls` writes down which
register calls a program makes and in which order: `unlock`, `special`, `Set_Textmode`,
`set_charwidth`, set80 with `-a`, setVGAreg and getVGAreg, setpalette and getpalette, and the calls
around a font program.  `VgaTools` executes such lists, an access at a time, for several programs at
once; the kernel's console driver comes in anywhere, moving its cursor (which leaves the CRTC's index
behind), touching attributes, loading a font or switching consoles (which reloads the DAC from the
palette the kernel keeps).  Programs may be killed, and a `PERROR` turns the screen on and exits.  The
pipe from getpalette to setpalette goes through a buffer of lines that is written when it is full.

### ConfigFile

One action per kind of line, with the range checks of the grammar's actions, what they assign, and
the lists that grow at the front (`addmode`, font selections) or at the end (sync ranges, clocks).
`complete_modestruct` computes a mode line's derived values with C's integer divisions, in the order of
the code, as the line is read.  After the file come `sanitize_cfgfile_data` (`Sanitize`), `-s`
(`ScanModes`), the choice of the label and the mode (`FindMode`) and `validate_mode` (`Validate`); what
the clock generator says to a mode is any answer here, since `ClockSelect` is about that.

## 3. What the runs show

| run | bounds | distinct states | shows |
|---|---|---|---|
| `vtresize` | 2 sizes costing 2 and 3, 1x1 costing 1, 6 units of memory, 4 rounds | 17 638 | `TinyOnlyIfAllowed`, `InterruptedKeepsGeometry`, `ShrinkNeverStuck`, `CallEnds`, `ImplementsContract` |
| `svgatextmode` | 2 sizes, 2 terminals, with and without a Terminals line, all switches, unboundedly many runs | 6.3 million | `HardwareNeverAhead`, `SuccessProgramsAll`, `LitAtExit`, `StaleHasACause`, `TtysFollow`, `ChangeIsTold`, `UsesContract` |
| `crtc_timings` | 7 mode lines and set80's, 3 initial register files, 2 runs | 61 500 | `TimingsReadBack`, `ScreenMatchesKernel`, `BlankingAroundSync`, `OtherBitsKept` |
| `vsync_wait` | 5 frame times out of 7 values, 2 attempts, 2 seconds | 44 648 | `AlarmIsHandled`, `ResultIsHonest`, `ClockIsHonest`, `WaitReturns`, `UserEnds` |
| `grab_mode` | 8 mode lines, 11 initial register files, 3 adapters, 5 widths and 5 heights, 1 run | 1.1 million | `OrderedOrRemarked`, `RoundTrip`, `NoFalseAlarm`, `PresetHonoured` |
| `clock_select` | 9 cards, some 20 configurations each, 4 pixel clocks, both programs, unboundedly many runs | 1.4 million | `ClockAsValidated`, `NearestClockOut`, `OneClockShown`, `ListedNeverHalfway` |
| `clock_chips` | 28 chips, 3 or 4 frequencies each, no MClk line or one of two, all 256 values of a CH8391's clock select, one killed run, unboundedly many others | 264 481 | `ClockAsAsked`, `NothingLeftOpen`, `MemoryKeepsClock`, `MemoryClockHeld`, `RunEnds` |
| `vga_tools` | every call sequence alone with one visit of the kernel, pairs that meet in a register with a kill, the palette pipe | 302 766 | `NothingStrays`, `CallsTakeEffect`, `ColoursAsAsked`, `FontAgrees` |
| `config_file` | files of up to 4 or 5 lines out of each of 6 sets of 7 to 12 lines, all kinds of command lines | 788 057 | `LastLineCounts`, `AcceptedAsWritten` |

Why the bounds are enough:

* `vtresize`: six units let both screens exist at once or not, depending on the rivals, so every branch
  of the retry is taken in both rounds; the number of rounds is the code's.
* `svgatextmode`: a third size would add no new relation between the geometry before, the one asked
  for and a left-over one, since a register group either has the mode asked for or has not; two
  terminals are what it takes for the loop to be interrupted between them.  There is no bound on runs:
  the reachable states are finite and all are visited.
* `crtc_timings`: the mode lines sit at the parser's limits and on both sides of each division
  (doubled lines, lines past 1023, the largest and the smallest, a long porch); two runs are one to
  leave something behind, killed after any setter, and one to overwrite it.
* `vsync_wait`: of five times three must count, as of a hundred 66, so that the card's own times are
  the most but need not fill the fullest band; the values lie in one band, at its edges, just inside
  and outside of the 15 microseconds around a center, and beyond the wrap of the counter.  The second
  (`Wrap`) is 100 microseconds here and a frame 40.
* `grab_mode`: the mode lines have no, one or two kinds of doubling, the largest and smallest numbers,
  syncs that start with the border or end with the line, and a screen more than ten times as wide as
  high; the register files hold ordinary, doubled, multiply scanned, interlaced, wrapped and
  true colour graphics modes, all zeros and all ones; the presets fit some of them and not others.
* `clock_select`: the cards cover the kinds of select functions (two bits, a second register, inverted
  bits, exchanged bits, the memory clock as a clock, a divider, a built-in chip, external chips); the
  Clocks lines have four clocks or as many as the card is said to have, with a dummy 0 among them.
* `clock_chips`: the frequencies reach the post dividers and the limits of the VCO from both sides and
  include the fixed VGA clocks, which some chipsets take instead of the chip; one killed run leaves
  each possible half of a script behind, and the runs after it are not bounded.  The card is found in one
  state, set up for text mode with its PLLs running, but for the clock select of a CH8391 (`FoundCSR`), whose
  driver decides by what it finds there and which takes every value of a byte.  Of other register contents the run has those
  that earlier runs leave, killed ones included.
* `vga_tools`: the calls of the code do not depend on each other's values except through registers they
  both touch, so a pair that meets in a register shows what pairs can do.  One visit of the kernel per
  job is what `Outb_ATR_CTL`'s second write is meant to stand.  The DAC has 18 entries here instead of
  256, the 16 of text mode and two more, and the pipe's buffer as many lines (`BufferLines`), so that
  it is written out once, with the last dump.  The buffer of the code's getpalette holds about 240 of the 256
  lines and is written out once before that, when setpalette may start to take lines; with fewer lines the
  run has too many states.  The theorem `ToolsColoursAsAsked` holds for every `BufferLines`.
* `config_file`: a file in a set of lines has every order and every repetition of up to five of them;
  each set holds the lines that act on the same variables, with values at the limits of the checks.

TLC checks for deadlock in the runs of `VTResize`, `SVGATextMode`, `GrabMode` and `ClockSelect`.  It does
not where the program ends for good (`VsyncWait`, `VgaTools`, `ConfigFile`), where the bound `Runs` is
reached (`CrtcTimings`), and in `ClockChips`, where the program itself may wait for ever:
`mga_clock.c:557` waits for the lock of a PLL that a killed run may have stopped.

Three properties do not hold, and each has a run in which TLC finds the counterexample:

| run | property | what happens |
|---|---|---|
| `aborted_resize` | `ErrorLeavesScreen` | `VT_RESIZE` succeeds, `VT_RESIZEX` runs out of memory, the program exits: the kernel has the new size and the hardware the old |
| `two_limits` | `LimitAsWritten` | `ChipSet` sets the limit on the dot clock only where it finds the value 45000, so the first of two ChipSet lines decides and `DacSpeed 45` is lost, against the manual's "the LAST instance will be used" |
| `set80` | `Set80Restores` | without `-a` set80 clears neither the double scan bit nor the shift of the mode before |

`AcceptedAsWritten` holds for files with one limit (`OneLimit`); the two above are the reason.

Further disagreements seen while modelling, without a run of their own:

* *Kernel resize.*  A call that gives up at 1x1 still returns TRUE (`ttyresize.c:250`, 257) and `main`
  programs the hardware.  The manual frees once, twice and three times the memory
  (`doc/SVGATextMode.man:475`), the code has four rounds (`ttyresize.c:199`).
* *Errors.*  With `-DDOSYNCRESET` an error while a clock is programmed exits with the sequencer in
  reset; the theorem about `LitAtExit` says so in its assumption.  An MClk line for a TI3026 on a S3, and
  ClockProg's `-m` for a chip whose memory clock cannot be set, are refused in `do_clock` only
  (`clockchip.c:350`, `ClockProg.c:204`), with the screen dark for a moment.  ClockProg's index is said to
  be ignored (`ClockProg.c:96`), but without it `-m` has no effect, and with it and without `-m` the
  file's MClk line has none.
* *Registers.*  With `-o` registers 0 to 7 are written before they are unlocked (`vga_prg.c:309`,
  `SVGATextMode.c:412`, 414), so on a protected card they are not forced, against
  `doc/SVGATextMode.man:307`; the setters write them later, which is why `TimingsReadBack` holds.  A
  vertical sync of eight lines or more is doubled by DoubleScan past its four bits
  (`cfgfile.y:302`, 329).  With a font higher than the screen there are no rows, which nothing
  refuses.
* *The wait.*  `vtimeout` is not volatile: a compiler may read it once before the loops (`Hoisted`), and
  the wait then never ends on a card without retrace.  `WaitReturns` is checked for the other builds.
* *Clocks.*  Bit 2 of the clock number is never written for a PVGA1 and a WDC90C0X
  (`std_clock.c:185`), so two of their clocks are one; options a chipset does not allow are accepted
  silently (`optmask` and `clkchip_mask` are used nowhere); with ClockProg but no Clocks line `GetClock`
  ends the program with "0 MHz clock selected".
* *Clock chips.*  The CH8391's driver means to "make sure the VPLL select bits are all 0" (comment at
  `Ch8391clk.c:178`), as they are ORed with the S3's select lines once the hold bit is set.  It does the
  opposite (`Ch8391clk.c:186`): where it finds some of them set it keeps them and sets the hold bit.  With
  such bits, left by the BIOS or another program, the card may show another clock than the one just
  programmed; without the conjunct `~OwnBitsSelect(regs)` of `ClockAsAsked` TLC finds it in the run
  `clock_chips`.  Besides Laguna and Cyber938x above: the MACH64's `dsp_on`, times a power of two, may
  exceed its field of eleven bits (`mach64.c:696`, a FIXME there); `ATIDivide` (`mach64.c:735`)
  computes something else than the comment above it says; the comment at `mach64.c:358` is about an
  older version.
* *Tools.*  `doc/setpalette.doc:78` says that getpalette into setpalette changes nothing, but the
  kernel's palette loses the bits the DAC has not got (`Kept`); `setpalette.c:282` tests `b` twice and
  never `g`.  Of several DRAM speed options the last written stays.  The font program's exit status is
  ignored.
* *grabmode.*  `doc/grabmode.man` says that registers are read only, but `getmode` clears bit 7 of
  register 0x11 (`modedata.c:383`), and that `-x` and `-y` bypass all the guessing, but the ratio
  compensation (`modedata.c:183`) guesses all the same.  A blanking that ends with the line raises the
  remark that horizontal timings were modified (`vga_prg.c:384`), which is why `NoFalseAlarm` leaves out
  modes whose sync reaches the end of the line.  `clockprobe -c` prints a clock that was never set
  (`grabmode.c:186`).

Where a property is weaker than one would like, the code is the reason: `NothingLeftOpen` asks nothing
after a killed run of the STG1703, the CH8391 and the MACH64, whose drivers put back what they found,
nor of a run that takes a fixed clock; `ClockAsAsked` leaves out a CH8391 whose own select bits count
(above); `UserEnds` promises an end of the probe only on a card that keeps
making frames, and `RunEnds` the end of a run only if no killed one may have stopped a PLL; `CallsTakeEffect` promises the other bits of a
read-modify-write only if nobody came in between (`undisturbed`; what a redirected read found
is written back all the same); `NothingStrays` lets the rest of a colour that a
console switch cuts in two go to DAC entry 16.

## 4. Fairness

`VTResize` assumes weak fairness of the program's own step (`WF(Program)`): the process is scheduled.
Nothing is assumed of its rivals, its user or the kernel's answers; the call ends because its
retries are counted.

`VsyncWait` assumes strong fairness of the program and weak fairness of `Beam`, `Tick` and `Ring`.  The
program is a polling loop that samples the retrace bit every microsecond or so while the bit changes
some hundred times a second; a step of it that is enabled again and again, while the bit has one
value, is therefore taken at some time.  Weak fairness would let it miss every retrace for ever.
`Stall` has no fairness: a card may stop and need not.  `UserEnds` assumes for the probe, whose frame
loops have no alarm, that the card keeps making frames.

`ClockChips` assumes weak fairness of the steps of a run, and none of `Start` and `Kill`.  `Locked` is
enabled when the PLL waited for runs, so its fairness says that a PLL that runs locks.

The other modules state no liveness: they are sequences of steps that end.

## 5. What is proved

The proofs are in `VTResizeProofs`, `SVGATextModeProofs`, `VsyncWaitProofs`, `GrabModeProofs` (which
also has those about `CrtcTimings`, as it needs them), `ClockSelectProofs`, `ConfigFileProofs`,
`ClockChipsProofs` and `VgaToolsProofs`; each is an induction over the steps of the specification, with
one step of the proof per action.

* **VTResize**, for all sizes, costs, amounts of memory and numbers of rounds.  Assumptions: 1x1 costs
  less than any other screen, and every screen fits into the memory there is.  The properties are not
  inductive; `IInv` adds that before 1x1 the geometry is untouched unless the call succeeded
  (`FirstRound`), that the second round is reached only with `-m`, erased, at 1x1 and for `ENOMEM`
  (`SecondRound`, `Errno`), which positions go with which outcomes (`Outcomes`), and that until a rival
  comes the memory of the old consoles is still free (`RoomForOld`: what `ShrinkNeverStuck` needs).
  From it follow `TypeCorrect`, `TinyNeedsPermission`, `InterruptedIsOldOrTiny`, `FalseIsDirect`,
  `ShrinkSucceeds`, and the refinement `ContractKept`.
* **SVGATextMode**, for all sets of sizes and of terminals.  `IInv` says at each step of a run what is
  settled by then: the geometry after the resize calls (`ResizeSettled`), why a skipped resize is
  harmless (`CheckedSize`), which register groups are written (`Programmed`), whether the screen is
  dark (`ScreenInv`), which terminals the loop has done (`TtysSettled`), that the geometry only changes in
  a run that wants it (`ChangeWanted`), that from 1.3.3 on a terminal has the kernel's size
  (`KernelTells`), and that before, while `inStep`, it has the size the run began with or the one it
  asked for (`TtysSinceStart`).  From it follow `TypeCorrect`,
  `HardwareFollowsKernel`, `SuccessIsComplete`, `ScreenLit` (without DOSYNCRESET), `StaleTtyIsExplained`,
  `TtysResized`, `ApplicationsTold` and `ContractUsed`.
* **VsyncWait**, for any number of frames and attempts and any alarm time, and both builds of the
  loops: `WaitTypeCorrect`, `SignalHandled`, `HonestResult`.  The invariant (`WaitInv`) says where the
  alarm is armed and its handler installed (`AlarmInv`), that inside a wait nothing but its own
  alarm has set the flag (`FlagInv`), and how the counters of frames and attempts go with the step
  (`CountInv`).
* **ClockSelect**, for all cards, configurations and modes: `ListedRunsThrough`, from what `Sanitize` and
  `Validate` have settled for the later steps of a run of SVGATextMode (`Settled`), and
  `OneClockIsShown`, `NearestClockIsOut`, `ClockIsAsValidated`.  These rest on three groups of lemmas:
  what the registers must hold for each of `std_clock.c`'s functions (`S3Says` and its like), and from it
  that two clock numbers the same registers may stand for are one (`OneNumber`); that the search of
  `findclosestclock` ends with the first clock at the least distance (`ClosestIsFirst`, from
  `Least`: a set of numbers that is not empty has a least one); and which bits a function writes
  (`WritesLines`), so that the divider, set last, leaves the selection alone.  The invariant
  (`ClockInv`) says that after `SetClock` or `SetClockchip` the lines show the clock of the search or
  the chip makes what was asked (`Selected`), that `divby2` and then the divider's bit are set
  exactly when half of it was wanted (`Halved`), and that what a validated run goes on with is what
  `check_clockgen` let pass.  TLC checked it under `ClockSelect.cfg` first.  `Selectable` is the length up to
  which a chipset's lines tell clocks apart; beyond it the clocks shown are several, and the
  properties fail.  On a PVGA1 and a WDC90C0X it is 4, less than the 8 and 9 clocks
  `sanitize_cfgfile_data` calls normal: `WDCClockSelect` writes bit 2 only for the later chips
  (`std_clock.c:187`).  The assumption on the constants is that the built-in chips are among the
  modelled ones.  `StdClock` defines `:>` and `@@` itself, as TLC's module does, because the
  provers have no definition of TLC's.
* **CrtcTimings**, for all mode lines, register contents and numbers of runs: `RegistersStayBytes`,
  `OtherBitsAreKept`, `TimingsAreReadBack`, `BlankingIsAroundSync`, `ScreenIsTheKernels`.  The assumptions
  are those of the module on its constants.  A setter puts a number's bits into several bytes by adding
  and dividing powers of two; the lemmas (`PutBit`, `PutLow`, one on `Out`) say which bits of a byte it
  leaves, and which of them a getter finds.  The properties are about
  the end of a run, so the invariant (`Inv`) carries each field there from the step that sets it:
  `MadeShow` says that every field whose setter's place in the run has passed shows what the mode
  line wants of it (`Show`, `Want`, `Place`), so that no later setter may disturb it; `Unprotected`
  that CRTC 0 to 7 take writes meanwhile; `OnPath` that the run is one of main() or of set80 with an
  accepted mode; and `BiosText` that set80 -a, whose last call sets every register, leaves the BIOS's.
  What a field must hold is computed from the mode line alone, so that the arithmetic of blanking and
  doubling is done once, about numbers and not about registers.
* **GrabMode**, for all register contents, mode lines, adapters and presets: `NumbersInOrder`,
  `GrabbedModeIsProgrammed`, `OwnModesAreBelieved`, `SizesGivenAreHonoured`.  For the first the invariant
  (`GInv`) says what holds before and after the clock probe: without a remark so far, and without `-r`,
  the numbers are integers and in order (`Settled`); shifting, multiplying and dividing all four of
  them keeps that, and `WrapCheck` either establishes it or leaves a remark.  The others need to know
  which numbers: `Follows` adds that the modestruct is, at every step, the function of the registers
  that the steps so far make of it (`Prepared`, `ProbedFrom`, `Post`), and the lemmas `OwnModeRead`,
  `OwnPre` and `OwnPost` follow the registers of a programmed mode through these functions; that they
  hold what was programmed is a theorem of `CrtcTimings`.  `PresetHonoured` rests on bounds for
  rounded quotients (`QuotientBounds`, `WidthExact`): three per cent is enough because a text mode's
  width is a multiple of eight pixels.  TLC checked `Inv` and `Follows` on the constants of the run
  `grab_mode` before they were proved.
* **ConfigFile**, for any lines, files of any length and command lines: `TheLastLineCounts` and
  `AcceptedModesAreWritten`.  The first is an induction over the lines read: while the file is read, the
  settings, the font selections, the cursor and the front of the mode list are what the last line about
  them says, and a new line becomes the last (`Grow`, `OfKind`, and one lemma per part: `ValuesKept` and
  its like).  The second needs more of the run: that every line was accepted (`FileInv`), that the lists
  of limits hold exactly the ranges of the sync lines, and the default only where there is none
  (`LimitsInv`), that the limit on the clock is that of the last DacSpeed line or of the chipset where
  the code can tell (`MaxInv`), that the settings outlast `sanitize_cfgfile_data` and the scaling of
  the cursor (`SetInv`), and that the mode is made of the last line of its name (`ModeInv`); TLC checked
  the whole (`WrittenInv`) under `ConfigFile.cfg` first.  `RatesAreTheLines` is the arithmetic: two rounded
  quotients whose divisors the range checks keep from zero (`TotalIsLarge`, `FontIsASize`).
  The assumption is what the lexer hands over (`LineAssumption`): the chipsets it knows, and whole
  numbers that are not negative.
* **ClockChips**, for any selection of the 28 chips and the Laguna and the Cyber938x, any frequencies and
  memory clocks, and any number of killed runs: `GatesAreLeftClosed`, `MemoryIsClocked`,
  `MemoryClockStays`.  A run is a script of writes that gets shorter, so the invariants speak of what is
  still to come.  `RunInv` is the bookkeeping of a run.  `GateInv` says that a gate the chip's driver does
  not go through is closed, that the script writes only the registers that driver may, and that one it
  does go through is closed already or its closing write is the last of the script on it (`Comes`);
  after a kill only where `NothingLeftOpen` asks for it (`Clean`).  The lemmas `ClockTidy` and `MclockTidy`
  say so of every driver's script, put together of its parts by `QuietCat`, `EndsBefore` and `EndsAfter`.
  For the memory's clock that is not enough: what a write reaches depends on where a port's pointer
  stands.  `MgaInv` therefore lists the 25 writes of a Matrox's memory clock (`SetMCLKLists`) and the
  registers after each (`At`); `TrioInv` does the same with the Trio's five; `GendacInv` follows the
  pointer through the three writes of interest (`Aims`, `Reached`), for the memory clock to registers 4
  and 5, for the pixel clock to 1 and 2.  `OwnInv` is that nobody else touches what the memory's PLL
  hangs on.  That a run of a Matrox's memory PLL is let run needs the number of doublings that the
  search ends with to be a natural number (`MemDivider`); nothing else about the dividers is used.
  The assumptions are the module's own: chips it knows, frequencies that are positive whole numbers,
  MClk lines only for chips that have a programmable memory clock, a byte in a CH8391's clock select.
  `ClockChips` defines `:>` and `@@`
  itself for the same reason as `StdClock`.
* **VgaTools**, for any number of programs, any calls, any palettes, and any number of kills and of visits
  of the kernel: `ToolsNothingStrays`, `ToolsCallsTakeEffect`, `ToolsFontAgrees`,
  `ToolsColoursAsAsked`.  The lemmas at the bottom say that `BitAnd` and `BitOr` act on each bit of a byte (`MergedBits`), what each kind of port
  access does to the card, and which access a program is at (`IndexedAccess`, `AtrAccess` and their like).
  `TypeInv` gives every program a place inside its call and every index of the card a register it has.
  `CallInv` says how far the call has come, for a program that has been alone since its job began, by
  how often the kernel came in during the call: when the flip-flop of the attribute controller is where
  the program left it and which register its index names, when a value written once is there already and
  what the second write of `Outb_ATR_CTL` still has to repair (`AtrHolds`); that a read-modify-write puts
  back what it read (`ModifyHolds`); and whether the DAC is still at the entry or, after a console switch,
  at the one text mode does not use (`ColourHolds`).  `CallsTakeEffect` follows for one visit of the
  kernel in an attribute call, as it says: with two the write may be lost.
  For the font the order of whole calls counts: `StandInv` says that the calls a program has left are
  the last of its job, and `FontInv` what the commands before the font program have set when four,
  three, two and one of them are left.
  `PaletteInv` is about a setpalette that reads lines: until it tells the kernel, its copy holds for every
  colour what the last of its lines so far asked for, and afterwards the kernel has the copy and shows it;
  that no line disturbs another colour's place is `AnsiInjective`.  `PipeInv` is about `getpalette |
  setpalette -`: before setpalette has read the kernel's palette, the lines in the pipe and in the buffer
  are those of the entries read so far and the DAC shows the kernel's palette (`Reading`); afterwards, as
  setpalette tells the kernel only when the pipe has no writer, the lines not taken are the last ones and
  its copy has the colours of those before (`Taking`).  An access
  of getpalette after that ends the time setpalette is alone, so nothing need be known of what it reads then.
  Assumptions: calls have the ranges `getint` and the register tables give them and an attribute's index
  five bits (`CallsAssumption`); the kernel's palettes are of bytes (`PalettesAssumption`); and a job that
  loads a font ends with the commands around the font program, as no register access follows in
  `SVGATextMode.c:504` (`FontAssumption`); a setpalette that reads lines asks for the kernel's palette first
  and gives it back last (`PaintsAssumption`, `setpalette.c:236` and `:323`); and one that reads
  the pipe has a getpalette at the other end and no other program beside the two, none of them killed, and
  no console switch (`PipesAssumption`).  The last is a limit of what is true: a switch between two bytes
  of a dump moves the DAC on, and a killed getpalette leaves the rest of the colours to eight bits.

`ContractKept` concludes the safety part and, as `ResizeCall` states no fairness, the whole of the
contract.  The type invariants of `VTResize`, `SVGATextMode`, `VsyncWait` and `CrtcTimings` and
`FalseMeansDirect` are proved for all constants, which is why no run checks them.

Only model-checked: `CallEnds`, `WaitReturns`, `UserEnds`, `RunEnds` (liveness under fairness is out of
the prover's reach); `ClockAsAsked`, as how near the searches of `ClockDrivers` come to a frequency is a
fact about each frequency and not about all (`SC11412SetClock` refuses some); `ClockIsHonest`, which is
not true of arbitrary frame times but of the ones the run gives.

## 6. Not modelled, and why

* Console devices, kernel version, files and messages (`ttyresize.c`'s and `file_ops.c`'s helpers): I/O
  whose failure is a `Fail` or `PERROR` in the modules.
* Tokens, letter case and Echo lines of the configuration file: `ConfigFile` starts from the lines the
  lexer has recognised; frequencies are whole kHz, so that the rounding of a float is left out; its
  lists have no end, so `num_clocks` (`cfgfile.y:245`), which the code does not check, cannot be
  stated.  Numbers are not cut to C's `int`, where `complete_modestruct`
  (`cfgfile.y:306`) overflows for a pixel clock above 2147 MHz, which no limit on the clock lets pass
  (500 MHz is DacSpeed's largest), and for a line frequency above 2.1 MHz, which passes only under a
  HorizSync range as high.
* In `VTResize` the kernel either accepts a request but for lack of memory or rejects it in every attempt
  (`rejects`), and `perror()`, which the code calls before it tests `errno` (`ttyresize.c:222`), leaves
  `errno` alone: attempts that fail for different reasons are not covered.
* `Mach64_verify_and_init`, PCI discovery, the loop clock of the TVP3026 on Matrox, ICS2595's
  programming, delays; the DSP registers of the MACH64 only for one memory configuration.
* setVGAreg's DAC, DAC status, ET6000 and idx sets; the last writes index and data with two `outb`
  (`setVGAreg.c:159`), so the kernel may come in between and `NothingStrays` would not hold for it; `user_time.c`; probeclocks.c, which calls `do_clock`
  with the arguments of an older version and is not built.
* `grabmode`'s polarities, character and logical widths, addressing flags and output formats.
* Interlacing; the DRAM speed writes of TGUI and Cirrus inside `std_clock.c`.
* Real time: that clocks are changed inside vertical blanking (`setclock.c:239`).
* `DOS/` and `contrib/` are another platform and other people's tools; `dump_cfgdata` only prints.

## 7. Plan

1. Done: the modules of section 2 and the proofs of section 5.
2. `VsyncWait`: that the histogram ends for any times, from `current` never passing the next of them.
3. `VgaTools`: more than one pair of programs at a pipe, and a third one that changes the DAC meanwhile.

## 8. How to run

    tlc -workers 2 -config VTResize.cfg MCVTResize
    tlc -workers 2 -config SVGATextMode.cfg MCSVGATextMode        (AbortedResize.cfg)
    tlc -workers 2 -config CrtcTimings.cfg MCCrtcTimings          (Set80.cfg)
    tlc -workers 2 -config VsyncWait.cfg VsyncWait
    tlc -workers 2 -config ClockSelect.cfg MCClockSelect
    tlc -workers 2 -config ClockChips.cfg MCClockChips
    tlc -workers 2 -config GrabMode.cfg MCGrabMode
    tlc -workers 2 -config VgaTools.cfg MCVgaTools
    tlc -workers 2 -config ConfigFile.cfg MCConfigFile            (TwoLimits.cfg)
    tlapm VTResizeProofs.tla       (and the other ...Proofs modules)

The configurations in brackets are those under which TLC finds a property violated.

PROJECT.json names a mutant for every property: an operator that replaces a definition of the model
the way a slip in the code would, under which TLC finds the property violated.

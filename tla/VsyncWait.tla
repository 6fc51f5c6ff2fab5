------------------------------ MODULE VsyncWait ------------------------------
(***************************************************************************)
(* safe_wait_vsync of src/wait_vsync.c and its two users: do_clock, which  *)
(* waits for the vertical retrace before it touches the clocks, and        *)
(* measure_pixclock of src/probe.c, which then times a number of frames    *)
(* with the bare waitframe loop, and looks in a histogram of their times   *)
(* for the one that the card makes when nothing comes between.             *)
(*                                                                         *)
(* The wait polls the retrace bit of the VGA; an alarm signal, whose       *)
(* handler sets vtimeout, is to end it when the card makes no retrace.     *)
(* The card and the alarm clock run beside the program: the signal comes   *)
(* between any two steps of it.  vtimeout is a plain variable, so an       *)
(* optimising compiler may read it once before the loops (Hoisted).        *)
(***************************************************************************)
EXTENDS Integers, FiniteSets, Sequences, Functions

CONSTANTS NFRAMES,    \* the frame times of one measurement
          TimeBand,   \* TIME_BAND, the width of a band of the histogram
          Wrap,       \* where the microseconds of a time of day start again
          Elapsed,    \* what may pass between the ends of two waitframes
          Period,     \* what the card needs for a frame
          Retries,    \* M_RETRY
          Seconds,    \* the argument of alarm()
          Hoisted     \* the build reads vtimeout once, before the loops

ASSUME FramesAssumption  == NFRAMES \in Nat \ {0}
ASSUME TimesAssumption   == /\ TimeBand \in Nat \ {0} /\ Wrap \in Nat \ {0}
                            /\ Elapsed \subseteq Nat /\ Period \in Elapsed
ASSUME RetriesAssumption == Retries \in Nat \ {0}
ASSUME SecondsAssumption == Seconds \in Nat \ {0}
ASSUME HoistedAssumption == Hoisted \in BOOLEAN

VARIABLES
  pc,         \* the step the program is about to take
  user,       \* who waits: "do_clock" (its two waits) or "probe"
  second,     \* do_clock is at its second wait
  vtimeout,   \* the flag the handler sets
  cached,     \* what the loops take for vtimeout
  handler,    \* the disposition of SIGALRM
  alarm,      \* seconds until SIGALRM; 0 when no alarm is set
  result,     \* what safe_wait_vsync returned last
  frame,      \* waitframe calls done in this measurement
  attempt,    \* measurements done
  probe,      \* of measure_pixclock: the sorted times, the first i of them
              \* counted, the band counted next, the center of the fullest
              \* and its number; clock: sum and number of the times that
              \* count; remark: MSG_CLOCK_MEASUREMENTS
  retrace,    \* the bit the card shows
  running,    \* the card makes frames at all
  sawRetrace, \* history: the last wait saw the bit go up
  late        \* history: the alarm of the last wait went off

card == <<retrace, running>>
user_vars == <<user, second, frame, attempt, probe>>
flags == <<vtimeout, cached, handler, alarm>>
vars == <<pc, user, second, vtimeout, cached, handler, alarm, result, frame,
          attempt, probe, retrace, running, sawRetrace, late>>

WaitSteps == {"reset", "arm", "in_retrace", "in_display", "disarm", "restore"}
PC == WaitSteps \cup {"returned", "program", "frame_display", "frame_retrace",
                      "evaluate", "histogram", "average", "end", "killed"}

\* One waitframe to synchronize, and one more than there are times.
Frames == NFRAMES + 2
NoProbe == [times |-> <<>>, i |-> 0, current |-> 0, center |-> 0, most |-> 0,
            clock |-> <<0, 0>>, remark |-> FALSE]

TypeOK == /\ pc \in PC
          /\ user \in {"do_clock", "probe"}
          /\ second \in BOOLEAN
          /\ vtimeout \in BOOLEAN
          /\ cached \in BOOLEAN
          /\ handler \in {"default", "badsync"}
          /\ alarm \in 0..Seconds
          /\ result \in BOOLEAN
          /\ frame \in 0..Frames
          /\ attempt \in 0..Retries
          /\ retrace \in BOOLEAN
          /\ running \in BOOLEAN
          /\ sawRetrace \in BOOLEAN
          /\ late \in BOOLEAN

Init == /\ pc = "reset"
        /\ user \in {"do_clock", "probe"}
        /\ second = FALSE
        /\ vtimeout = FALSE
        /\ cached = FALSE
        /\ handler = "default"
        /\ alarm = 0
        /\ result = FALSE
        /\ frame = 0
        /\ attempt = 0
        /\ probe = NoProbe
        /\ retrace \in BOOLEAN
        /\ running \in BOOLEAN
        /\ sawRetrace = FALSE
        /\ late = FALSE
-----------------------------------------------------------------------------
(* safe_wait_vsync.                                                        *)

Go(from, to) == pc = from /\ pc' = to

\* (Mutant: the flag of an earlier wait is kept.)
ResetKeepingFlag == /\ Go("reset", "arm")
                    /\ handler' = "badsync"
                    /\ sawRetrace' = FALSE /\ late' = FALSE
                    /\ UNCHANGED <<vtimeout, cached, alarm, result, user_vars, card>>

\* vtimeout=FALSE; signal(SIGALRM, badsync).
Reset == /\ Go("reset", "arm")
         /\ vtimeout' = FALSE
         /\ handler' = "badsync"
         /\ sawRetrace' = FALSE /\ late' = FALSE
         /\ UNCHANGED <<cached, alarm, result, user_vars, card>>

\* alarm(2), and the loop's first look at the flag.
Arm == /\ Go("arm", "in_retrace")
       /\ alarm' = Seconds
       /\ cached' = vtimeout
       /\ UNCHANGED <<vtimeout, handler, result, user_vars, card, sawRetrace, late>>

\* What the loop conditions see of vtimeout.
TimedOut == IF Hoisted THEN cached ELSE vtimeout

\* wait_vblk, first half: until a retrace in progress is over.
LeaveRetrace == /\ Go("in_retrace", "in_display")
                /\ ~retrace \/ TimedOut
                /\ UNCHANGED <<flags, result, user_vars, card, sawRetrace, late>>

\* (Mutant: the second loop does not look at the flag.)
LeaveDisplayInTime == /\ Go("in_display", "disarm")
                      /\ retrace
                      /\ sawRetrace' = TRUE
                      /\ UNCHANGED <<flags, result, user_vars, card, late>>

\* Second half: until the next one begins.
LeaveDisplay == /\ Go("in_display", "disarm")
                /\ retrace \/ TimedOut
                /\ sawRetrace' = retrace
                /\ UNCHANGED <<flags, result, user_vars, card, late>>

\* (Mutant: the handler is gone before the alarm is.)
DisarmAfterRestore == /\ Go("disarm", "restore")
                      /\ handler' = "default"
                      /\ UNCHANGED <<vtimeout, cached, alarm, result, user_vars, card,
                                     sawRetrace, late>>

\* alarm(0).
Disarm == /\ Go("disarm", "restore")
          /\ alarm' = 0
          /\ UNCHANGED <<vtimeout, cached, handler, result, user_vars, card,
                         sawRetrace, late>>

\* signal(SIGALRM, SIG_DFL); return(!vtimeout).
Restore == /\ Go("restore", "returned")
           /\ handler' = "default"
           /\ result' = ~vtimeout
           /\ UNCHANGED <<vtimeout, cached, alarm, user_vars, card, sawRetrace, late>>
-----------------------------------------------------------------------------
(* do_clock: it does not look at the result.  Programming a clock may stop *)
(* the card's frames, or start them.                                       *)

ProgramClock == /\ user = "do_clock"
                /\ Go("returned", "program")
                /\ running' \in BOOLEAN
                /\ UNCHANGED <<flags, result, user_vars, retrace, sawRetrace, late>>

NextWait == /\ user = "do_clock"
            /\ pc = "program"
            /\ pc' = IF second THEN "end" ELSE "reset"
            /\ second' = TRUE
            /\ UNCHANGED <<flags, result, user, frame, attempt, probe, card, sawRetrace, late>>
-----------------------------------------------------------------------------
(* measure_pixclock.                                                       *)

\* No retrace: MSG_CLOCKPROBE_FAILED, and nothing is measured.
ProbeFails == /\ user = "probe"
              /\ Go("returned", "end")
              /\ ~result
              /\ UNCHANGED <<flags, result, user_vars, card, sawRetrace, late>>

ProbeMeasures == /\ user = "probe"
                 /\ Go("returned", "frame_display")
                 /\ result
                 /\ UNCHANGED <<flags, result, user_vars, card, sawRetrace, late>>

\* waitframe: the same two loops the other way round, with no alarm set; the
\* program calls user_time() in them, so vtimeout is read each time.
FrameDisplay == /\ Go("frame_display", "frame_retrace")
                /\ retrace \/ vtimeout
                /\ UNCHANGED <<flags, result, user_vars, card, sawRetrace, late>>

FrameRetrace == /\ pc = "frame_retrace"
                /\ ~retrace \/ vtimeout
                /\ frame' = frame + 1
                /\ pc' = IF frame' = Frames THEN "evaluate" ELSE "frame_display"
                /\ UNCHANGED <<flags, result, user, second, attempt, probe, card, sawRetrace, late>>

\* Differences of two microsecond counters, sorted: what passed, but for
\* whole seconds.
Measured == {d % Wrap : d \in Elapsed}
Measurements == {m \in [1..NFRAMES -> Measured] : \A j, k \in 1..NFRAMES : j < k => m[j] <= m[k]}

Sort == /\ Go("evaluate", "histogram")
        /\ \E m \in Measurements :
             probe' = [NoProbe EXCEPT !.times = m, !.current = m[1], !.center = m[1] + TimeBand \div 2]
        /\ UNCHANGED <<flags, result, user, second, frame, attempt, card, sawRetrace, late>>

Within(j, x, d) == probe.times[j] - x < d /\ x - probe.times[j] < d

\* The times of one band; the first of the fullest bands is kept.
CountBand ==
  /\ pc = "histogram"
  /\ LET left == (probe.i + 1)..NFRAMES
         num  == Cardinality({j \in left : \A k \in left : k <= j => Within(k, probe.current, TimeBand)})
         more == num > probe.most
     IN /\ probe' = [probe EXCEPT !.i = @ + num, !.current = @ + TimeBand,
                                  !.most = IF more THEN num ELSE @,
                                  !.center = IF more THEN probe.current + TimeBand \div 2 ELSE @]
        /\ pc' = IF probe'.i = NFRAMES THEN "average" ELSE "histogram"
  /\ UNCHANGED <<flags, result, user, second, frame, attempt, card, sawRetrace, late>>

\* The times that count: those around the center.  (Mutant: all.)
EveryTime == 1..NFRAMES
Near == {j \in 1..NFRAMES : Within(j, probe.center, 3 * TimeBand)}
VALID_MEASR == (NFRAMES * 2) \div 3

\* Their sum and their number: av, before the division.
Clock == <<FoldFunctionOnSet(+, 0, probe.times, Near), Cardinality(Near)>>

Retry(good) == attempt + 1 < Retries /\ ~good

\* Enough of them, or another attempt, M_RETRY at most, that begins anew.
Average ==
  /\ pc = "average"
  /\ LET good == Cardinality(Near) >= VALID_MEASR IN
       /\ pc' = IF Retry(good) THEN "frame_display" ELSE "end"
       /\ probe' = IF Retry(good) THEN NoProbe
                   ELSE [probe EXCEPT !.clock = Clock, !.remark = ~good]
  /\ attempt' = attempt + 1
  /\ frame' = 0
  /\ UNCHANGED <<flags, result, user, second, card, sawRetrace, late>>
-----------------------------------------------------------------------------
(* The card and the alarm clock.                                           *)

Beam == /\ running
        /\ retrace' = ~retrace
        /\ UNCHANGED <<pc, flags, result, user_vars, running, sawRetrace, late>>

\* The card stops making frames: somebody else reprograms it.
Stall == /\ running
         /\ running' = FALSE
         /\ UNCHANGED <<pc, flags, result, user_vars, retrace, sawRetrace, late>>

Tick == /\ alarm > 1
        /\ alarm' = alarm - 1
        /\ UNCHANGED <<pc, vtimeout, cached, handler, result, user_vars, card,
                       sawRetrace, late>>

\* SIGALRM: badsync, or the end of the process.
Ring == /\ alarm = 1
        /\ alarm' = 0
        /\ late' = TRUE
        /\ IF handler = "badsync"
             THEN vtimeout' = TRUE /\ UNCHANGED pc
             ELSE pc' = "killed" /\ UNCHANGED vtimeout
        /\ UNCHANGED <<cached, handler, result, user_vars, card, sawRetrace>>

Program == \/ Reset \/ Arm \/ LeaveRetrace \/ LeaveDisplay \/ Disarm \/ Restore
           \/ ProgramClock \/ NextWait
           \/ ProbeFails \/ ProbeMeasures \/ FrameDisplay \/ FrameRetrace
           \/ Sort \/ CountBand \/ Average

Next == Program \/ Beam \/ Stall \/ Tick \/ Ring

\* The program polls the bit again and again while the card changes it, so it
\* does not miss every change (strong fairness); time passes.
Fairness == SF_vars(Program) /\ WF_vars(Beam) /\ WF_vars(Tick) /\ WF_vars(Ring)

Spec == Init /\ [][Next]_vars /\ Fairness
-----------------------------------------------------------------------------
(* Properties.                                                             *)

\* The alarm never outlives its handler: SIGALRM, whose default action ends
\* the process with the screen off, only ever meets badsync.
AlarmIsHandled == pc # "killed" /\ (alarm > 0 => handler = "badsync")

\* TRUE promises that the wait ended because a retrace began; FALSE is never
\* a left-over of an earlier wait: the alarm of this one has gone off.
ResultIsHonest ==
  pc = "returned" => /\ result => sawRetrace
                     /\ ~result => late

\* "Doesn't hang when no VSYNC" (wait_vsync.c:22): every wait comes to its
\* end, with a card that makes frames, stops making them, or never did.
WaitReturns == (pc \in WaitSteps) ~> (pc = "returned")

\* The program gets through both waits of do_clock, or through the probe,
\* whose bare waitframe loops have no alarm: as long as the card makes frames.
UserEnds == (user = "do_clock" \/ <>[]running) => <>(pc = "end")

\* The clock that is reported: never of no times at all, and, unless a remark
\* says that too few were valid, off by less than three bands a frame if as
\* many of the times as must be valid were those of the card to half a band.
\* (The rest are what other processes and the wrap of the counter make.)
Right == {j \in 1..NFRAMES : Within(j, Period, TimeBand \div 2 + 1)}
ClockIsHonest ==
  LET sum == probe.clock[1]
      num == probe.clock[2]
  IN (pc = "end" /\ user = "probe" /\ attempt > 0) =>
       /\ num > 0
       /\ (~probe.remark /\ Cardinality(Right) >= VALID_MEASR) =>
            /\ sum - num * Period < num * 3 * TimeBand
            /\ num * Period - sum < num * 3 * TimeBand
=============================================================================

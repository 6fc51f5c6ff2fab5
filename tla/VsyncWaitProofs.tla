--------------------------- MODULE VsyncWaitProofs ---------------------------
(***************************************************************************)
(* The safety of safe_wait_vsync for any alarm time, any number of frames  *)
(* and attempts, and both builds of the loops: its signal always meets its *)
(* handler, and its result says what happened in this wait.                *)
(***************************************************************************)
EXTENDS VsyncWait, TLAPS

Looping == {"in_retrace", "in_display", "disarm"}

\* The alarm is set only while the wait is on, under its handler; the flag is
\* down when the loops look at it first, and goes up with the alarm only.
AlarmInv ==
  /\ pc # "killed"
  /\ alarm > 0 => pc \in Looping
  /\ pc \in Looping \cup {"arm", "restore"} => handler = "badsync"

FlagInv ==
  /\ pc = "arm" => ~vtimeout
  /\ pc \in Looping \cup {"restore"} => ~cached /\ (vtimeout => late)
  /\ pc \in {"disarm", "restore"} => sawRetrace \/ vtimeout
  /\ ResultIsHonest

Measuring == {"frame_display", "frame_retrace", "evaluate", "histogram", "average"}

\* An attempt is begun only if there is one left.
CountInv ==
  /\ pc \notin Measuring \cup {"end"} => frame = 0 /\ attempt = 0
  /\ pc \in Measuring => attempt < Retries
  /\ pc \in {"frame_display", "frame_retrace"} => frame < Frames

WaitInv == TypeOK /\ AlarmInv /\ FlagInv /\ CountInv

LEMMA FramesAreCounted == Frames \in Nat \ {0}
  BY FramesAssumption DEF Frames

LEMMA WaitInit == Init => WaitInv
  <1>1. Init => frame \in 0..Frames /\ attempt \in 0..Retries /\ alarm \in 0..Seconds
    BY FramesAreCounted, RetriesAssumption, SecondsAssumption DEF Init
  <1>2. Init => TypeOK
    BY <1>1, Zenon DEF Init, TypeOK, PC, WaitSteps
  <1> QED
    BY <1>2, FramesAreCounted, RetriesAssumption
    DEF Init, WaitInv, AlarmInv, FlagInv, CountInv, Measuring, Looping, ResultIsHonest

LEMMA CountersBounded ==
  ASSUME WaitInv, Next
  PROVE  TypeOK' /\ CountInv'
  <1> USE FramesAreCounted, RetriesAssumption, SecondsAssumption
      DEF WaitInv, CountInv, Measuring, TypeOK, PC, WaitSteps, Go, user_vars, flags, card
  <1>1. CASE Reset \/ LeaveRetrace \/ LeaveDisplay \/ Restore
    <2>1. CASE Reset
      BY <2>1 DEF Reset
    <2>2. CASE LeaveRetrace
      BY <2>2 DEF LeaveRetrace
    <2>3. CASE LeaveDisplay
      BY <2>3 DEF LeaveDisplay
    <2>4. CASE Restore
      <3>1. result' \in BOOLEAN
        BY <2>4, Zenon DEF Restore
      <3> QED
        BY <2>4, <3>1 DEF Restore
    <2> QED
      BY <1>1, <2>1, <2>2, <2>3, <2>4
  <1>2. CASE Arm \/ Disarm
    BY <1>2 DEF Arm, Disarm
  <1>3. CASE ProgramClock
    BY <1>3 DEF ProgramClock
  <1>4. CASE NextWait
    BY <1>4 DEF NextWait
  <1>5. CASE ProbeFails \/ ProbeMeasures
    BY <1>5 DEF ProbeFails, ProbeMeasures
  <1>6. CASE FrameDisplay
    BY <1>6 DEF FrameDisplay
  <1>7. CASE FrameRetrace
    BY <1>7 DEF FrameRetrace
  <1>8. CASE Sort \/ CountBand \/ Average
    <2>1. CASE Sort
      BY <2>1 DEF Sort
    <2>2. CASE CountBand
      BY <2>2 DEF CountBand
    <2>3. CASE Average
      BY <2>3 DEF Average, Retry
    <2> QED
      BY <1>8, <2>1, <2>2, <2>3
  <1>9. CASE Beam
    <2>1. retrace' \in BOOLEAN
      BY <1>9, Zenon DEF Beam
    <2> QED
      BY <1>9, <2>1 DEF Beam
  <1>10. CASE Stall
    <2>1. running' \in BOOLEAN
      BY <1>10, Zenon DEF Stall
    <2>2. UNCHANGED <<pc, user, second, vtimeout, cached, handler, alarm, result, frame,
                      attempt, retrace, sawRetrace, late>>
      BY <1>10, Zenon DEF Stall
    <2> QED
      BY <2>1, <2>2
  <1>11. CASE Tick
    <2>1. alarm' \in 0..Seconds
      BY <1>11 DEF Tick
    <2>2. UNCHANGED <<pc, user, second, vtimeout, cached, handler, result, frame, attempt,
                      retrace, running, sawRetrace, late>>
      BY <1>11, Zenon DEF Tick
    <2> QED
      BY <2>1, <2>2
  <1>12. CASE Ring
    <2>1. handler = "badsync" /\ alarm' = 0
      BY <1>12 DEF Ring, AlarmInv, Looping
    <2>2. vtimeout' \in BOOLEAN /\ late' \in BOOLEAN /\ pc' = pc
      BY <1>12, <2>1, Zenon DEF Ring
    <2>3. UNCHANGED <<user, second, cached, handler, result, frame, attempt, retrace,
                      running, sawRetrace>>
      BY <1>12, Zenon DEF Ring
    <2>4. alarm' \in 0..Seconds
      BY <2>1
    <2> QED
      BY <2>2, <2>3, <2>4
  <1> QED
    BY <1>1, <1>2, <1>3, <1>4, <1>5, <1>6, <1>7, <1>8, <1>9, <1>10, <1>11, <1>12 DEF Next, Program

LEMMA AlarmKept ==
  ASSUME WaitInv, Next
  PROVE  AlarmInv'
  <1> USE DEF WaitInv, AlarmInv, TypeOK, PC, WaitSteps, Looping, Go, flags, user_vars, card
  <1>1. CASE Reset
    BY <1>1 DEF Reset
  <1>2. CASE Arm
    BY <1>2 DEF Arm
  <1>3. CASE LeaveRetrace \/ LeaveDisplay
    BY <1>3 DEF LeaveRetrace, LeaveDisplay
  <1>4. CASE Disarm
    BY <1>4 DEF Disarm
  <1>5. CASE Restore
    BY <1>5 DEF Restore
  <1>6. CASE ProgramClock \/ NextWait
    BY <1>6 DEF ProgramClock, NextWait
  <1>7. CASE ProbeFails \/ ProbeMeasures \/ FrameDisplay \/ FrameRetrace
            \/ Sort \/ CountBand \/ Average
    BY <1>7 DEF ProbeFails, ProbeMeasures, FrameDisplay, FrameRetrace,
           Sort, CountBand, Average
  <1>8. CASE Beam \/ Stall
    BY <1>8 DEF Beam, Stall
  <1>9. CASE Tick
    BY <1>9 DEF Tick
  <1>10. CASE Ring
    BY <1>10 DEF Ring
  <1> QED
    BY <1>1, <1>2, <1>3, <1>4, <1>5, <1>6, <1>7, <1>8, <1>9, <1>10 DEF Next, Program

LEMMA FlagKept ==
  ASSUME WaitInv, Next
  PROVE  FlagInv'
  <1> USE DEF WaitInv, FlagInv, ResultIsHonest, TypeOK, Looping, Go, flags, user_vars, card
  <1>1. CASE Reset
    BY <1>1 DEF Reset
  <1>2. CASE Arm
    BY <1>2 DEF Arm
  <1>3. CASE LeaveRetrace
    BY <1>3 DEF LeaveRetrace
  <1>4. CASE LeaveDisplay
    BY <1>4 DEF LeaveDisplay, TimedOut
  <1>5. CASE Disarm
    BY <1>5 DEF Disarm
  <1>6. CASE Restore
    BY <1>6 DEF Restore
  <1>7. CASE ProgramClock \/ NextWait
    BY <1>7 DEF ProgramClock, NextWait
  <1>8. CASE ProbeFails \/ ProbeMeasures \/ FrameDisplay \/ FrameRetrace
            \/ Sort \/ CountBand \/ Average
    BY <1>8 DEF ProbeFails, ProbeMeasures, FrameDisplay, FrameRetrace,
           Sort, CountBand, Average
  <1>9. CASE Beam \/ Stall \/ Tick
    BY <1>9 DEF Beam, Stall, Tick
  <1>10. CASE Ring
    BY <1>10 DEF Ring, AlarmInv
  <1> QED
    BY <1>1, <1>2, <1>3, <1>4, <1>5, <1>6, <1>7, <1>8, <1>9, <1>10 DEF Next, Program

LEMMA WaitStep == WaitInv /\ [Next]_vars => WaitInv'
  <1> SUFFICES ASSUME WaitInv, [Next]_vars PROVE WaitInv'
    OBVIOUS
  <1>1. CASE Next
    BY <1>1, CountersBounded, AlarmKept, FlagKept DEF WaitInv
  <1>2. CASE UNCHANGED vars
    BY <1>2 DEF vars, WaitInv, TypeOK, AlarmInv, FlagInv, CountInv, ResultIsHonest
  <1> QED
    BY <1>1, <1>2

\* Type correctness: an attempt is counted at most Retries times, a frame at
\* most Frames times (measure_pixclock's loops).
THEOREM WaitTypeCorrect == Spec => []TypeOK
  <1>1. WaitInv => TypeOK
    BY DEF WaitInv
  <1> QED
    BY WaitInit, WaitStep, <1>1, PTL DEF Spec

\* SIGALRM meets badsync and never its default action, however its second
\* falls between the steps of any wait (safe_wait_vsync).
THEOREM SignalHandled == Spec => []AlarmIsHandled
  <1>1. WaitInv => AlarmIsHandled
    BY DEF WaitInv, AlarmInv, AlarmIsHandled, Looping
  <1> QED
    BY WaitInit, WaitStep, <1>1, PTL DEF Spec

\* The result of a wait is that of this wait, also where the loops read the
\* flag only once (return(!vtimeout)).
THEOREM HonestResult == Spec => []ResultIsHonest
  <1>1. WaitInv => ResultIsHonest
    BY DEF WaitInv, FlagInv
  <1> QED
    BY WaitInit, WaitStep, <1>1, PTL DEF Spec
=============================================================================

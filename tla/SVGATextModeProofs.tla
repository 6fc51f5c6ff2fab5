------------------------- MODULE SVGATextModeProofs -------------------------
(***************************************************************************)
(* The safety of main()'s run, proved for every set of sizes and terminals *)
(* and every Terminals line: type correctness first, then the inductive    *)
(* invariant IInv of SVGATextMode, one step per action.                    *)
(***************************************************************************)
EXTENDS SVGATextMode, TLAPS

USE SizeAssumption, VTAssumption, FlagAssumption

-----------------------------------------------------------------------------
(* Types.                                                                  *)

\* The options a process has before main() parses its own are well typed.
LEMMA NoOptionsType == NoOptions \in Options
<1>1. Text \in Size /\ {} \in TermLines
  OBVIOUS
<1> QED
  BY <1>1, Zenon DEF NoOptions, Options

\* A machine that booted in text mode is well typed.
LEMMA TypeInit == Init => TypeOK
  BY NoOptionsType DEF Init, TypeOK, PC, Kernels, Screen, Group

\* Writing a register group for the mode of the run (the Set_ macros) keeps the types.
LEMMA WriteGroupType ==
  ASSUME TypeOK, NEW from, NEW to \in PC, NEW g \in Group, WriteGroup(from, to, g)
  PROVE  TypeOK'
<1>1. opt.size \in Size
  BY DEF TypeOK, Options
<1>2. hw' \in [Group -> Size] /\ pc' \in PC /\ touched' \in BOOLEAN
  BY <1>1 DEF TypeOK, WriteGroup, Go
<1> QED
  BY <1>2 DEF TypeOK, WriteGroup, Go, HwFrame, screenVars

\* Every step of a run keeps every variable in its type.
LEMMA TypeStep == TypeOK /\ [Next]_vars => TypeOK'
<1> SUFFICES ASSUME TypeOK, [Next]_vars PROVE TypeOK'
  OBVIOUS
<1> USE DEF TypeOK, PC, Kernels, Screen, Group, histVars, screenVars
<1>1. CASE Start
  BY <1>1 DEF Start, Go
<1>2. CASE Reap
  BY <1>2 DEF Reap, Go, Options, NoOptions
<1>3. CASE CheckIfResize
  BY <1>3 DEF CheckIfResize, Go, Screen
<1>4. CASE GetIoPerm
  BY <1>4 DEF GetIoPerm, Go
<1>5. CASE NoResize
  BY <1>5 DEF NoResize, Go, WantsResize
<1>6. CASE BeginResize
  BY <1>6 DEF BeginResize, Go, WantsResize
<1>7. CASE ResizeDirect
  BY <1>7 DEF ResizeDirect, Go, ResizeFrame, KernelAdopts, Options, NoOptions
<1>8. CASE ResizeToTiny
  BY <1>8 DEF ResizeToTiny, Go, ResizeFrame, KernelAdopts
<1>9. CASE ResizeFromTiny
  BY <1>9 DEF ResizeFromTiny, Go, ResizeFrame, KernelAdopts, Options, NoOptions
<1>10. CASE Again133
  BY <1>10 DEF Again133, ResizeFrame
<1>11. CASE BeginTtys
  BY <1>11 DEF BeginTtys, TermsToResize, Options, NoOptions
<1>12. CASE \E v \in VT : ResizeTty(v)
  BY <1>12 DEF ResizeTty, Options, NoOptions
<1>13. CASE EndTtys
  BY <1>13 DEF EndTtys, Go
<1>14. CASE SetTextmode
  <2>1. hw' \in [Group -> Size]
    BY <1>14 DEF SetTextmode
  <2>2. pc' \in PC /\ blank' \in BOOLEAN /\ held' \in BOOLEAN /\ touched' \in BOOLEAN
    BY <1>14 DEF SetTextmode, Go
  <2> QED
    BY <1>14, <2>1, <2>2 DEF SetTextmode, HwFrame
<1>15. CASE ScreenOff
  <2>1. pc' \in PC /\ blank' \in BOOLEAN /\ held' \in BOOLEAN
    BY <1>15 DEF ScreenOff, Go
  <2>2. UNCHANGED <<hw, touched>>
    BY <1>15 DEF ScreenOff
  <2> QED
    BY <1>15, <2>1, <2>2 DEF ScreenOff, HwFrame
<1>16. CASE SetMclk
  <2>1. held' \in BOOLEAN
    BY <1>16, Zenon DEF SetMclk
  <2> QED
    BY <1>16, <2>1 DEF SetMclk, Go, HwFrame
<1>17. CASE SetPixclock
  BY <1>17 DEF SetPixclock, Go, HwFrame, Options, NoOptions
<1>18. CASE Unblank
  <2>1. pc' \in PC /\ blank' \in BOOLEAN /\ held' \in BOOLEAN
    BY <1>18 DEF Unblank, Go
  <2>2. UNCHANGED <<hw, touched>>
    BY <1>18 DEF Unblank
  <2> QED
    BY <1>18, <2>1, <2>2 DEF Unblank, HwFrame
<1>19. CASE SetMaxScanline
  BY <1>19, WriteGroupType DEF SetMaxScanline, Group, PC
<1>20. CASE SetVTimings
  BY <1>20, WriteGroupType DEF SetVTimings, Group, PC
<1>21. CASE SetHTimings
  BY <1>21, WriteGroupType DEF SetHTimings, Group, PC
<1>22. CASE KdSetmode
  <2>1. pc' \in PC /\ blank' \in BOOLEAN /\ held' \in BOOLEAN
    BY <1>22 DEF KdSetmode, Go
  <2>2. UNCHANGED <<hw, touched>>
    BY <1>22 DEF KdSetmode
  <2> QED
    BY <1>22, <2>1, <2>2 DEF KdSetmode, HwFrame
<1>23. CASE SetCharwidth
  BY <1>23, WriteGroupType DEF SetCharwidth, Group, PC
<1>24. CASE ScreenOn
  <2>1. pc' \in PC /\ blank' \in BOOLEAN /\ held' \in BOOLEAN
    BY <1>24 DEF ScreenOn, Go
  <2>2. UNCHANGED <<hw, touched>>
    BY <1>24 DEF ScreenOn
  <2> QED
    BY <1>24, <2>1, <2>2 DEF ScreenOn, HwFrame
<1>25. CASE LoadFont
  <2>1. pc' \in PC /\ blank' \in BOOLEAN /\ held' \in BOOLEAN
    BY <1>25 DEF LoadFont, Go
  <2>2. UNCHANGED <<hw, touched>>
    BY <1>25 DEF LoadFont
  <2> QED
    BY <1>25, <2>1, <2>2 DEF LoadFont, HwFrame
<1>26. CASE ResetProg
  BY <1>26 DEF ResetProg
<1>27. CASE Fail
  BY <1>27 DEF Fail, Perror
<1>28. CASE FailInClock
  BY <1>28 DEF FailInClock, Perror
<1>29. CASE Kill
  BY <1>29 DEF Kill
<1>30. CASE UNCHANGED vars
  BY <1>30 DEF vars
<1> QED
  BY <1>1, <1>2, <1>3, <1>4, <1>5, <1>6, <1>7, <1>8, <1>9, <1>10, <1>11, <1>12, <1>13, <1>14, <1>15, <1>16, <1>17, <1>18, <1>19, <1>20, <1>21, <1>22, <1>23, <1>24, <1>25, <1>26, <1>27, <1>28, <1>29, <1>30 DEF Next, Run

\* Type correctness of the whole history of runs.
THEOREM TypeCorrect == Spec => []TypeOK
  BY TypeInit, TypeStep, PTL DEF Spec
-----------------------------------------------------------------------------
(* The inductive invariant, in four parts that a step may disturb.         *)

\* Where the kernel's geometry stands at each step, up to the hardware writes.
LEMMA GeometryStep ==
  ASSUME TypeOK, EarlyUntouched, CheckedSize, ResizeSettled, ExitAtEnd, HardwareNeverAhead,
         [Next]_vars
  PROVE  (EarlyUntouched /\ CheckedSize /\ ResizeSettled /\ ExitAtEnd /\ HardwareNeverAhead)'
<1> USE DEF TypeOK, PC, Kernels, Screen, histVars, screenVars,
            EarlyUntouched, CheckedSize, ResizeSettled, ExitAtEnd, HardwareNeverAhead, KernelSettled, HwSteps, EarlySteps, WantsResize
<1>1. CASE Start
  BY <1>1 DEF Start, Go
<1>2. CASE Reap
  BY <1>2 DEF Reap, Go
<1>3. CASE CheckIfResize
  BY <1>3 DEF CheckIfResize, Go, Screen
<1>4. CASE GetIoPerm
  BY <1>4 DEF GetIoPerm, Go
<1>5. CASE NoResize
  BY <1>5 DEF NoResize, Go
<1>6. CASE BeginResize
  BY <1>6 DEF BeginResize, Go
<1>7. CASE ResizeDirect
  BY <1>7 DEF ResizeDirect, Go, ResizeFrame, KernelAdopts
<1>8. CASE ResizeToTiny
  BY <1>8 DEF ResizeToTiny, Go, ResizeFrame, KernelAdopts
<1>9. CASE ResizeFromTiny
  BY <1>9 DEF ResizeFromTiny, Go, ResizeFrame, KernelAdopts
<1>10. CASE Again133
  BY <1>10 DEF Again133, ResizeFrame
<1>11. CASE BeginTtys
  BY <1>11 DEF BeginTtys, TermsToResize
<1>12. CASE \E v \in VT : ResizeTty(v)
  BY <1>12 DEF ResizeTty
<1>13. CASE EndTtys
  BY <1>13 DEF EndTtys, Go
<1>14. CASE SetTextmode
  BY <1>14 DEF SetTextmode, Go, HwFrame
<1>15. CASE ScreenOff
  BY <1>15 DEF ScreenOff, Go, HwFrame
<1>16. CASE SetMclk
  BY <1>16 DEF SetMclk, Go, HwFrame
<1>17. CASE SetPixclock
  BY <1>17 DEF SetPixclock, Go, HwFrame
<1>18. CASE Unblank
  BY <1>18 DEF Unblank, Go, HwFrame
<1>19. CASE SetMaxScanline
  BY <1>19 DEF SetMaxScanline, WriteGroup, Go, HwFrame
<1>20. CASE SetVTimings
  BY <1>20 DEF SetVTimings, WriteGroup, Go, HwFrame
<1>21. CASE SetHTimings
  BY <1>21 DEF SetHTimings, WriteGroup, Go, HwFrame
<1>22. CASE KdSetmode
  BY <1>22 DEF KdSetmode, Go, HwFrame
<1>23. CASE SetCharwidth
  BY <1>23 DEF SetCharwidth, WriteGroup, Go, HwFrame
<1>24. CASE ScreenOn
  BY <1>24 DEF ScreenOn, Go, HwFrame
<1>25. CASE LoadFont
  BY <1>25 DEF LoadFont, Go, HwFrame
<1>26. CASE ResetProg
  BY <1>26 DEF ResetProg
<1>27. CASE Fail
  BY <1>27 DEF Fail, Perror
<1>28. CASE FailInClock
  BY <1>28 DEF FailInClock, Perror
<1>29. CASE Kill
  BY <1>29 DEF Kill
<1>30. CASE UNCHANGED vars
  BY <1>30 DEF vars
<1> QED
  BY <1>1, <1>2, <1>3, <1>4, <1>5, <1>6, <1>7, <1>8, <1>9, <1>10, <1>11, <1>12, <1>13, <1>14,
     <1>15, <1>16, <1>17, <1>18, <1>19, <1>20, <1>21, <1>22, <1>23, <1>24, <1>25, <1>26, <1>27, <1>28, <1>29, <1>30 DEF Next, Run

\* Which register groups hold the mode of the run at each step.
LEMMA RegistersStep ==
  ASSUME TypeOK, Programmed, SuccessProgramsAll, ExitAtEnd,
         [Next]_vars
  PROVE  (Programmed /\ SuccessProgramsAll)'
<1> USE DEF TypeOK, PC, Kernels, Screen, histVars, screenVars,
            Programmed, SuccessProgramsAll, ExitAtEnd, After, Group
<1>1. CASE Start
  BY <1>1 DEF Start, Go
<1>2. CASE Reap
  BY <1>2 DEF Reap, Go
<1>3. CASE CheckIfResize
  BY <1>3 DEF CheckIfResize, Go, Screen
<1>4. CASE GetIoPerm
  BY <1>4 DEF GetIoPerm, Go
<1>5. CASE NoResize
  BY <1>5 DEF NoResize, Go, WantsResize
<1>6. CASE BeginResize
  BY <1>6 DEF BeginResize, Go, WantsResize
<1>7. CASE ResizeDirect
  BY <1>7 DEF ResizeDirect, Go, ResizeFrame, KernelAdopts
<1>8. CASE ResizeToTiny
  BY <1>8 DEF ResizeToTiny, Go, ResizeFrame, KernelAdopts
<1>9. CASE ResizeFromTiny
  BY <1>9 DEF ResizeFromTiny, Go, ResizeFrame, KernelAdopts
<1>10. CASE Again133
  BY <1>10 DEF Again133, ResizeFrame
<1>11. CASE BeginTtys
  BY <1>11 DEF BeginTtys, TermsToResize
<1>12. CASE \E v \in VT : ResizeTty(v)
  BY <1>12 DEF ResizeTty
<1>13. CASE EndTtys
  BY <1>13 DEF EndTtys, Go
<1>14. CASE SetTextmode
  BY <1>14 DEF SetTextmode, Go, HwFrame
<1>15. CASE ScreenOff
  BY <1>15 DEF ScreenOff, Go, HwFrame
<1>16. CASE SetMclk
  BY <1>16 DEF SetMclk, Go, HwFrame
<1>17. CASE SetPixclock
  BY <1>17 DEF SetPixclock, Go, HwFrame
<1>18. CASE Unblank
  BY <1>18 DEF Unblank, Go, HwFrame
<1>19. CASE SetMaxScanline
  BY <1>19 DEF SetMaxScanline, WriteGroup, Go, HwFrame
<1>20. CASE SetVTimings
  BY <1>20 DEF SetVTimings, WriteGroup, Go, HwFrame
<1>21. CASE SetHTimings
  BY <1>21 DEF SetHTimings, WriteGroup, Go, HwFrame
<1>22. CASE KdSetmode
  BY <1>22 DEF KdSetmode, Go, HwFrame
<1>23. CASE SetCharwidth
  BY <1>23 DEF SetCharwidth, WriteGroup, Go, HwFrame
<1>24. CASE ScreenOn
  BY <1>24 DEF ScreenOn, Go, HwFrame
<1>25. CASE LoadFont
  BY <1>25 DEF LoadFont, Go, HwFrame
<1>26. CASE ResetProg
  BY <1>26 DEF ResetProg
<1>27. CASE Fail
  BY <1>27 DEF Fail, Perror
<1>28. CASE FailInClock
  BY <1>28 DEF FailInClock, Perror
<1>29. CASE Kill
  BY <1>29 DEF Kill
<1>30. CASE UNCHANGED vars
  BY <1>30 DEF vars
<1> QED
  BY <1>1, <1>2, <1>3, <1>4, <1>5, <1>6, <1>7, <1>8, <1>9, <1>10, <1>11, <1>12, <1>13, <1>14,
     <1>15, <1>16, <1>17, <1>18, <1>19, <1>20, <1>21, <1>22, <1>23, <1>24, <1>25, <1>26, <1>27, <1>28, <1>29, <1>30 DEF Next, Run

\* The screen is on when a run that opened the VGA ends by itself.
LEMMA ScreenOnStep ==
  ASSUME TypeOK, ScreenInv, ExitAtEnd, (~DoSyncReset => LitAtExit),
         [Next]_vars
  PROVE  (ScreenInv /\ (~DoSyncReset => LitAtExit))'
<1> USE DEF TypeOK, PC, Kernels, Screen, histVars, screenVars,
            ScreenInv, ExitAtEnd, LitAtExit
<1>1. CASE Start
  BY <1>1 DEF Start, Go
<1>2. CASE Reap
  BY <1>2 DEF Reap, Go
<1>3. CASE CheckIfResize
  BY <1>3 DEF CheckIfResize, Go, Screen
<1>4. CASE GetIoPerm
  BY <1>4 DEF GetIoPerm, Go
<1>5. CASE NoResize
  BY <1>5 DEF NoResize, Go, WantsResize
<1>6. CASE BeginResize
  BY <1>6 DEF BeginResize, Go, WantsResize
<1>7. CASE ResizeDirect
  BY <1>7 DEF ResizeDirect, Go, ResizeFrame, KernelAdopts
<1>8. CASE ResizeToTiny
  BY <1>8 DEF ResizeToTiny, Go, ResizeFrame, KernelAdopts
<1>9. CASE ResizeFromTiny
  BY <1>9 DEF ResizeFromTiny, Go, ResizeFrame, KernelAdopts
<1>10. CASE Again133
  BY <1>10 DEF Again133, ResizeFrame
<1>11. CASE BeginTtys
  BY <1>11 DEF BeginTtys, TermsToResize
<1>12. CASE \E v \in VT : ResizeTty(v)
  BY <1>12 DEF ResizeTty
<1>13. CASE EndTtys
  BY <1>13 DEF EndTtys, Go
<1>14. CASE SetTextmode
  BY <1>14 DEF SetTextmode, Go, HwFrame
<1>15. CASE ScreenOff
  BY <1>15 DEF ScreenOff, Go, HwFrame
<1>16. CASE SetMclk
  BY <1>16 DEF SetMclk, Go, HwFrame
<1>17. CASE SetPixclock
  BY <1>17 DEF SetPixclock, Go, HwFrame
<1>18. CASE Unblank
  BY <1>18 DEF Unblank, Go, HwFrame
<1>19. CASE SetMaxScanline
  BY <1>19 DEF SetMaxScanline, WriteGroup, Go, HwFrame
<1>20. CASE SetVTimings
  BY <1>20 DEF SetVTimings, WriteGroup, Go, HwFrame
<1>21. CASE SetHTimings
  BY <1>21 DEF SetHTimings, WriteGroup, Go, HwFrame
<1>22. CASE KdSetmode
  BY <1>22 DEF KdSetmode, Go, HwFrame
<1>23. CASE SetCharwidth
  BY <1>23 DEF SetCharwidth, WriteGroup, Go, HwFrame
<1>24. CASE ScreenOn
  BY <1>24 DEF ScreenOn, Go, HwFrame
<1>25. CASE LoadFont
  BY <1>25 DEF LoadFont, Go, HwFrame
<1>26. CASE ResetProg
  BY <1>26 DEF ResetProg
<1>27. CASE Fail
  BY <1>27 DEF Fail, Perror
<1>28. CASE FailInClock
  BY <1>28 DEF FailInClock, Perror
<1>29. CASE Kill
  BY <1>29 DEF Kill
<1>30. CASE UNCHANGED vars
  BY <1>30 DEF vars
<1> QED
  BY <1>1, <1>2, <1>3, <1>4, <1>5, <1>6, <1>7, <1>8, <1>9, <1>10, <1>11, <1>12, <1>13, <1>14,
     <1>15, <1>16, <1>17, <1>18, <1>19, <1>20, <1>21, <1>22, <1>23, <1>24, <1>25, <1>26, <1>27, <1>28, <1>29, <1>30 DEF Next, Run

\* What the terminals and the applications know of the geometry.
LEMMA TtysStep ==
  ASSUME TypeOK, EarlyUntouched, ResizeSettled, ExitAtEnd, ChangeWanted, TtysSettled, KernelTells, TtysFollow, ChangeIsTold,
         [Next]_vars
  PROVE  (ChangeWanted /\ TtysSettled /\ KernelTells /\ TtysFollow /\ ChangeIsTold)'
<1> USE DEF TypeOK, PC, Kernels, Screen, histVars, screenVars,
            ChangeWanted, TtysSettled, ResizeSettled, ExitAtEnd, KernelTells, TtysFollow, ChangeIsTold, KernelSettled, HwSteps, EarlySteps, WantsResize, TermsToResize
<1>1. CASE Start
  BY <1>1 DEF Start, Go
<1>2. CASE Reap
  BY <1>2 DEF Reap, Go
<1>3. CASE CheckIfResize
  BY <1>3 DEF CheckIfResize, Go, Screen
<1>4. CASE GetIoPerm
  BY <1>4 DEF GetIoPerm, Go
<1>5. CASE NoResize
  BY <1>5 DEF NoResize, Go
<1>6. CASE BeginResize
  BY <1>6 DEF BeginResize, Go
<1>7. CASE ResizeDirect
  BY <1>7 DEF ResizeDirect, Go, ResizeFrame, KernelAdopts
<1>8. CASE ResizeToTiny
  BY <1>8 DEF ResizeToTiny, Go, ResizeFrame, KernelAdopts
<1>9. CASE ResizeFromTiny
  BY <1>9 DEF ResizeFromTiny, Go, ResizeFrame, KernelAdopts
<1>10. CASE Again133
  BY <1>10 DEF Again133, ResizeFrame
<1>11. CASE BeginTtys
  BY <1>11 DEF BeginTtys
<1>12. CASE \E v \in VT : ResizeTty(v)
  BY <1>12 DEF ResizeTty
<1>13. CASE EndTtys
  BY <1>13 DEF EndTtys, Go
<1>14. CASE SetTextmode
  BY <1>14 DEF SetTextmode, Go, HwFrame
<1>15. CASE ScreenOff
  BY <1>15 DEF ScreenOff, Go, HwFrame
<1>16. CASE SetMclk
  BY <1>16 DEF SetMclk, Go, HwFrame
<1>17. CASE SetPixclock
  BY <1>17 DEF SetPixclock, Go, HwFrame
<1>18. CASE Unblank
  BY <1>18 DEF Unblank, Go, HwFrame
<1>19. CASE SetMaxScanline
  BY <1>19 DEF SetMaxScanline, WriteGroup, Go, HwFrame
<1>20. CASE SetVTimings
  BY <1>20 DEF SetVTimings, WriteGroup, Go, HwFrame
<1>21. CASE SetHTimings
  BY <1>21 DEF SetHTimings, WriteGroup, Go, HwFrame
<1>22. CASE KdSetmode
  BY <1>22 DEF KdSetmode, Go, HwFrame
<1>23. CASE SetCharwidth
  BY <1>23 DEF SetCharwidth, WriteGroup, Go, HwFrame
<1>24. CASE ScreenOn
  BY <1>24 DEF ScreenOn, Go, HwFrame
<1>25. CASE LoadFont
  BY <1>25 DEF LoadFont, Go, HwFrame
<1>26. CASE ResetProg
  BY <1>26 DEF ResetProg
<1>27. CASE Fail
  BY <1>27 DEF Fail, Perror
<1>28. CASE FailInClock
  BY <1>28 DEF FailInClock, Perror
<1>29. CASE Kill
  BY <1>29 DEF Kill
<1>30. CASE UNCHANGED vars
  BY <1>30 DEF vars
<1> QED
  BY <1>1, <1>2, <1>3, <1>4, <1>5, <1>6, <1>7, <1>8, <1>9, <1>10, <1>11, <1>12, <1>13, <1>14,
     <1>15, <1>16, <1>17, <1>18, <1>19, <1>20, <1>21, <1>22, <1>23, <1>24, <1>25, <1>26, <1>27, <1>28, <1>29, <1>30 DEF Next, Run

\* A step that leaves the terminals, the kernel and the history alone.
LEMMA QuietStep ==
  ASSUME TtysSinceStart, UNCHANGED <<opt, kver, kernel, tty, kernel0, inStep>>,
         pc \in LateSteps => pc' \in LateSteps
  PROVE  TtysSinceStart'
  BY DEF TtysSinceStart, KernelSettled

\* Which sizes the terminals may have since the run began, and why none is stale.
LEMMA StaleStep ==
  ASSUME TypeOK, ResizeSettled, ExitAtEnd, ChangeWanted, TtysSettled, KernelTells, TtysFollow,
         TtysSinceStart, StaleHasACause, [Next]_vars
  PROVE  (TtysSinceStart /\ StaleHasACause)'
<1> USE DEF TypeOK, PC, Kernels, Screen, histVars, screenVars, ExitAtEnd, HwSteps
<1>1. CASE Start
  <2>1. TtysSinceStart'
    BY <1>1 DEF Start, Go, TtysSinceStart, KernelSettled, LateSteps
  <2> QED
    BY <1>1, <2>1 DEF Start, Go, StaleHasACause
<1>2. CASE Reap
  <2>1. inStep' => kernel # Tiny /\ \A v \in VT : tty[v] = kernel
    <3>1. CASE CompleteResize
      <4>1. \A v \in VT : tty[v] = opt.size
        BY <3>1 DEF CompleteResize, TtysFollow
      <4>2. kernel = opt.size
        BY <3>1 DEF CompleteResize, ResizeSettled, KernelSettled
      <4> QED
        BY <3>1, <4>1, <4>2 DEF CompleteResize
    <3>2. CASE inStep /\ kernel = kernel0
      <4>1. \A v \in VT : tty[v] = kernel
        <5>1. CASE kver = "1.3.3"
          BY <5>1 DEF KernelTells
        <5>2. CASE kver # "1.3.3"
          BY <3>2, <5>2 DEF TtysSinceStart, KernelSettled
        <5> QED
          BY <5>1, <5>2
      <4> QED
        BY <3>2, <4>1 DEF TtysSinceStart
    <3> QED
      BY <1>2, <3>1, <3>2 DEF Reap
  <2>2. UNCHANGED <<kernel, tty, kver>> /\ kernel0' = kernel /\ pc' = "idle" /\ exit' = "none" /\ ~skew'
    BY <1>2 DEF Reap, Go
  <2> QED
    BY <2>1, <2>2 DEF TtysSinceStart, StaleHasACause
<1>3. CASE CheckIfResize
  <2>1. TtysSinceStart'
    BY <1>3, QuietStep DEF CheckIfResize, Go, LateSteps
  <2> QED
    BY <1>3, <2>1 DEF CheckIfResize, Go, StaleHasACause
<1>4. CASE GetIoPerm \/ NoResize \/ BeginResize \/ Again133
  BY <1>4, QuietStep DEF GetIoPerm, NoResize, BeginResize, Again133, ResizeFrame, Go, LateSteps, StaleHasACause
<1>5. CASE ResizeDirect \/ ResizeToTiny \/ ResizeFromTiny
  <2>1. /\ pc \notin LateSteps /\ pc' \notin {"idle", "check"}
        /\ UNCHANGED <<opt, kver, kernel0, inStep, skew, exit>> /\ (kver # "1.3.3" => UNCHANGED tty)
    BY <1>5 DEF ResizeDirect, ResizeToTiny, ResizeFromTiny, ResizeFrame, KernelAdopts, Go, LateSteps
  <2>2. exit' = "none"
    BY <2>1 DEF LateSteps
  <2> QED
    BY <2>1, <2>2 DEF TtysSinceStart, StaleHasACause
<1>6. CASE BeginTtys
  BY <1>6, QuietStep DEF BeginTtys, LateSteps, StaleHasACause
<1>7. CASE \E v \in VT : ResizeTty(v)
  <2> PICK v \in VT : ResizeTty(v)
    BY <1>7
  <2>1. KernelSettled /\ kver # "1.3.3" /\ pc = "ttys"
    BY DEF ResizeTty, ResizeSettled, TtysSettled
  <2>2. TtysSinceStart'
    BY <2>1 DEF ResizeTty, TtysSinceStart, KernelSettled, LateSteps
  <2> QED
    BY <2>1, <2>2 DEF ResizeTty, StaleHasACause
<1>8. CASE EndTtys
  BY <1>8, QuietStep DEF EndTtys, Go, LateSteps, StaleHasACause
<1>9. CASE \/ SetTextmode \/ ScreenOff \/ SetMclk \/ SetPixclock \/ Unblank
           \/ SetMaxScanline \/ SetVTimings \/ SetHTimings \/ KdSetmode
           \/ SetCharwidth \/ ScreenOn \/ LoadFont
  <2>1. /\ pc \in HwSteps /\ pc' \in HwSteps
        /\ UNCHANGED <<opt, kver, kernel, tty, kernel0, inStep, skew, exit>>
    BY <1>9 DEF SetTextmode, ScreenOff, SetMclk, SetPixclock, Unblank, SetMaxScanline,
       SetVTimings, SetHTimings, KdSetmode, SetCharwidth, ScreenOn, LoadFont,
       WriteGroup, HwFrame, Go
  <2> QED
    BY <2>1, QuietStep DEF LateSteps, StaleHasACause
<1>10. CASE ResetProg
  <2>1. TtysSinceStart'
    BY <1>10, QuietStep DEF ResetProg, LateSteps
  <2>2. ASSUME inStep, ~opt.k, opt.terminals = {}, kernel # Tiny
        PROVE  kernel = opt.size /\ \A v \in VT : tty[v] = opt.size
    <3>1. kernel = opt.size
      BY <1>10, <2>2 DEF ResetProg, ResizeSettled, KernelSettled, StaleHasACause
    <3>2. CASE WantsResize /\ kver # "1.3.3"
      <4>1. pc \in HwSteps /\ TermsToResize = VT
        BY <1>10, <2>2 DEF ResetProg, TermsToResize
      <4>2. \A v \in TermsToResize : tty[v] = opt.size
        BY <3>2, <4>1 DEF TtysSettled
      <4> QED
        BY <3>1, <4>1, <4>2
    <3>3. CASE kver = "1.3.3"
      BY <3>1, <3>3 DEF KernelTells
    <3>4. CASE ~WantsResize /\ kver # "1.3.3"
      <4>1. kernel = kernel0
        BY <2>2, <3>4 DEF ChangeWanted, WantsResize
      <4> QED
        BY <2>2, <3>1, <3>4, <4>1 DEF TtysSinceStart
    <3> QED
      BY <3>2, <3>3, <3>4
  <2>3. UNCHANGED <<opt, kernel, tty, inStep, skew>> /\ pc' = "ended"
    BY <1>10 DEF ResetProg
  <2> QED
    BY <2>1, <2>2, <2>3 DEF StaleHasACause
<1>11. CASE Fail \/ FailInClock \/ Kill
  <2>1. /\ pc' = "ended" /\ exit' \in {"error", "killed"}
        /\ UNCHANGED <<opt, kver, kernel, tty, kernel0, inStep, skew>>
    BY <1>11 DEF Fail, FailInClock, Kill, Perror
  <2> QED
    BY <2>1, QuietStep DEF LateSteps, StaleHasACause
<1>12. CASE UNCHANGED vars
  BY <1>12, QuietStep DEF vars, StaleHasACause
<1> QED
  BY <1>1, <1>2, <1>3, <1>4, <1>5, <1>6, <1>7, <1>8, <1>9, <1>10, <1>11, <1>12 DEF Next, Run

\* The invariant holds when the machine has booted.
LEMMA IInvInit == Init => IInv
<1> SUFFICES ASSUME Init PROVE IInv
  OBVIOUS
<1>1. TypeOK
  BY TypeInit
<1> QED
  BY <1>1 DEF Init, IInv, EarlyUntouched, CheckedSize, ResizeSettled, Programmed, After,
     ScreenInv, ChangeWanted, TtysSettled, ExitAtEnd, HardwareNeverAhead, EarlySteps,
     SuccessProgramsAll, KernelTells, TtysSinceStart, StaleHasACause, TtysFollow, ChangeIsTold, LitAtExit,
     HwSteps, Group, Screen

\* Every step of every run keeps it.
LEMMA IInvStep == IInv /\ [Next]_vars => IInv'
  BY TypeStep, GeometryStep, RegistersStep, ScreenOnStep, TtysStep, StaleStep DEF IInv

\* The inductive invariant holds through any history of runs, failures and
\* signals.
THEOREM Inductive == Spec => []IInv
  BY IInvInit, IInvStep, PTL DEF Spec

\* VT_RESIZE comes before the hardware, for any sizes, switches and failures.
THEOREM HardwareFollowsKernel == Spec => []HardwareNeverAhead
<1>1. IInv => HardwareNeverAhead
  BY DEF IInv
<1> QED
  BY <1>1, Inductive, PTL

\* A normal end means a completely programmed mode, whatever was there before.
THEOREM SuccessIsComplete == Spec => []SuccessProgramsAll
<1>1. IInv => SuccessProgramsAll
  BY DEF IInv
<1> QED
  BY <1>1, Inductive, PTL

\* In a build without DOSYNCRESET no run that ends by itself leaves the
\* screen dark.
THEOREM ScreenLit == ASSUME ~DoSyncReset PROVE Spec => []LitAtExit
<1>1. IInv => LitAtExit
  BY DEF IInv
<1> QED
  BY <1>1, Inductive, PTL

\* The size check_if_resize reads is the kernel's until a run moves the geometry
\* and does not get through the terminals, whatever the runs before it were.
THEOREM StaleTtyIsExplained == Spec => []StaleHasACause
<1>1. IInv => StaleHasACause
  BY DEF IInv
<1> QED
  BY <1>1, Inductive, PTL

\* After a resizing run the terminals it is responsible for have the new size.
THEOREM TtysResized == Spec => []TtysFollow
<1>1. IInv => TtysFollow
  BY DEF IInv
<1> QED
  BY <1>1, Inductive, PTL

\* A run that changed the geometry and ended normally ran ResetProg, unless -r.
THEOREM ApplicationsTold == Spec => []ChangeIsTold
<1>1. IInv => ChangeIsTold
  BY DEF IInv
<1> QED
  BY <1>1, Inductive, PTL
-----------------------------------------------------------------------------
(* main() uses the contract of the resize calls.                           *)

\* What a step of main() may do, as the contract sees it.
LEMMA ContractStep ==
  ASSUME TypeOK, TypeOK', ResizeSettled, [Next]_vars
  PROVE  [Contract!Next]_(Contract!callVars)
<1> USE DEF Contract!Next, Contract!callVars
<1>a. opt'.size \in Size /\ opt'.m \in BOOLEAN
  BY DEF TypeOK, Options
<1>1. CASE Start \/ Reap
  BY <1>1, <1>a DEF Start, Reap, Go, Contract!Prepare
<1>2. CASE BeginResize
  BY <1>2, <1>a DEF BeginResize, Go, Contract!Call
<1>3. CASE ResizeDirect
  BY <1>3 DEF ResizeDirect, ResizeFrame, KernelAdopts, Go, Contract!Direct
<1>4. CASE ResizeToTiny
  BY <1>4 DEF ResizeToTiny, ResizeFrame, KernelAdopts, Go, Contract!Shrink
<1>5. CASE ResizeFromTiny
  BY <1>5 DEF ResizeFromTiny, ResizeFrame, KernelAdopts, Go, Contract!ViaTiny
<1>6. CASE Again133
  <2>1. CASE kver = "1.3.3"
    BY <1>6, <1>a, <2>1 DEF Again133, ResizeFrame, Contract!Call
  <2>2. CASE kver # "1.3.3"
    BY <1>6, <2>2 DEF Again133, ResizeFrame
  <2> QED
    BY <2>1, <2>2
<1>7. CASE BeginTtys
  BY <1>7, <1>a DEF BeginTtys, Contract!Prepare
<1>8. CASE Fail \/ FailInClock \/ Kill
  <2>1. pc' = "ended" /\ UNCHANGED <<opt, kernel>>
    BY <1>8 DEF Fail, FailInClock, Kill, Perror
  <2>2. CASE pc \in {"vt_resize", "vtx_resize", "vt_tiny", "vtx_tiny"}
    BY <2>1, <2>2 DEF Contract!Leave
  <2>3. CASE pc \in {"vt_done", "vtx_done"}
    BY <2>1, <2>3, <1>a DEF Contract!Prepare
  <2>4. CASE pc \notin {"vt_resize", "vtx_resize", "vt_tiny", "vtx_tiny", "vt_done", "vtx_done"}
    BY <2>1, <2>4
  <2> QED
    BY <2>2, <2>3, <2>4
<1>9. CASE \/ CheckIfResize \/ GetIoPerm \/ NoResize \/ (\E v \in VT : ResizeTty(v)) \/ EndTtys
  BY <1>9 DEF CheckIfResize, GetIoPerm, NoResize, ResizeTty, EndTtys, Go
<1>10. CASE \/ SetTextmode \/ ScreenOff \/ SetMclk \/ SetPixclock \/ Unblank
            \/ SetMaxScanline \/ SetVTimings \/ SetHTimings \/ KdSetmode
            \/ SetCharwidth \/ ScreenOn \/ LoadFont \/ ResetProg
  <2>1. pc \in HwSteps /\ pc' \in HwSteps \cup {"ended"} /\ UNCHANGED <<opt, kernel>>
    BY <1>10 DEF SetTextmode, ScreenOff, SetMclk, SetPixclock, Unblank, SetMaxScanline,
       SetVTimings, SetHTimings, KdSetmode, SetCharwidth, ScreenOn, LoadFont, ResetProg,
       WriteGroup, HwFrame, Go, HwSteps
  <2> QED
    BY <2>1 DEF HwSteps
<1>11. CASE UNCHANGED vars
  BY <1>11 DEF vars
<1> QED
  BY <1>1, <1>2, <1>3, <1>4, <1>5, <1>6, <1>7, <1>8, <1>9, <1>10, <1>11 DEF Next, Run

\* main() makes its two resize calls within the contract that VTResize keeps.
THEOREM ContractUsed == Spec => UsesContract
<1>1. Init => Contract!Init
  BY DEF Init, NoOptions, Contract!Init, Screen
<1>2. IInv /\ IInv' /\ [Next]_vars => [Contract!Next]_(Contract!callVars)
  BY ContractStep DEF IInv
<1> QED
  BY <1>1, <1>2, Inductive, PTL DEF Spec, UsesContract, Contract!Spec
=============================================================================

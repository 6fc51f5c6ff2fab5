--------------------------- MODULE VTResizeProofs ---------------------------
(***************************************************************************)
(* The safety of generic_VT_RESIZE for every set of sizes, every cost,     *)
(* every amount of memory and every number of retries, with rivals taking  *)
(* and returning memory at any moment; and that the call implements the    *)
(* contract its caller relies on.                                          *)
(***************************************************************************)
EXTENDS VTResize, TLAPS

USE SizeAssumption, CostAssumption, MemAssumption, TriesAssumption

\* What a screen costs is a number the machine has room for.
LEMMA CostType == \A s \in Screen : Cost[s] \in Nat /\ Cost[s] <= Mem
  OBVIOUS

\* The kernel's change of geometry (VT_RESIZE) conserves memory.
LEMMA AdoptType ==
  ASSUME TypeOK, NEW s \in Screen, s = kernel \/ Cost[s] <= free, Adopt(s)
  PROVE  /\ kernel' = s
         /\ free' \in 0..Mem /\ cache' \in 0..Mem
         /\ Cost[kernel'] + free' + cache' <= Mem
         /\ free' = (free + Cost[kernel]) - Cost[s]
<1>1. Cost[s] \in Nat /\ Cost[kernel] \in Nat
  BY CostType DEF TypeOK
<1> QED
  BY <1>1 DEF TypeOK, Adopt

-----------------------------------------------------------------------------
(* Types.                                                                  *)

\* The initial states are well typed.
LEMMA TypeInit == Init => TypeOK
<1> SUFFICES ASSUME Init PROVE TypeOK
  OBVIOUS
<1>1. round \in 1..2 /\ cnt \in 0..Tries
  BY DEF Init
<1>2. kernel \in Screen /\ origin \in Screen
  BY DEF Init, Screen
<1>3. /\ pc \in PC /\ outcome \in Outcome /\ errno \in {"none", "ENOMEM", "EINVAL"}
      /\ allow1x1 \in BOOLEAN /\ rejects \in BOOLEAN
      /\ erased \in BOOLEAN /\ snatched \in BOOLEAN
  BY DEF Init, PC, Outcome
<1> QED
  BY <1>1, <1>2, <1>3 DEF Init, TypeOK

\* Every step of the call, of a rival and of a signal keeps the types.
LEMMA TypeStep == TypeOK /\ [Next]_vars => TypeOK'
<1> SUFFICES ASSUME TypeOK, [Next]_vars PROVE TypeOK'
  OBVIOUS
<1>0. Cost[kernel] \in Nat /\ Cost[target] \in Nat
  BY CostType DEF TypeOK, Screen
<1> USE DEF PC, Outcome, callVars
<1>1. CASE Call
  <2>1. round' \in 1..2 /\ cnt' \in 0..Tries
    BY <1>1 DEF Call
  <2>2. /\ pc' \in PC /\ outcome' \in Outcome /\ errno' \in {"none", "ENOMEM", "EINVAL"}
        /\ allow1x1' \in BOOLEAN /\ rejects' \in BOOLEAN
        /\ erased' \in BOOLEAN /\ snatched' \in BOOLEAN
    BY <1>1 DEF Call
  <2>3. origin' \in Screen /\ target' \in Size /\ UNCHANGED <<kernel, free, cache>>
    BY <1>1 DEF Call, TypeOK
  <2> QED
    BY <2>1, <2>2, <2>3 DEF TypeOK
<1>2. CASE OpenTty
  BY <1>2 DEF OpenTty, Exit, Keep, TypeOK
<1>3. CASE ResizeDone
  <2>1. target \in Screen /\ (target = kernel \/ Cost[target] <= free)
    BY <1>3 DEF ResizeDone, Answer, Verdict, TypeOK, Screen
  <2>2. CASE target = kernel
    BY <1>3, <2>2 DEF ResizeDone, Answer, Return, TypeOK
  <2>3. CASE target # kernel
    <3>1. Adopt(target)
      BY <1>3, <2>3 DEF ResizeDone, Answer
    <3> QED
      BY <1>3, <2>1, <3>1, AdoptType DEF ResizeDone, Answer, Return, TypeOK
  <2> QED
    BY <2>2, <2>3
<1>4. CASE ResizeFails
  <2>1. cnt' \in 0..Tries
    BY <1>4 DEF ResizeFails, MoreTries, CountTry, TypeOK
  <2> QED
    BY <1>4, <2>1 DEF ResizeFails, MoreTries, CountTry, Verdict, Return, Keep, TypeOK
<1>5. CASE MakeRamFree
  <2>1. CASE Exit /\ UNCHANGED <<free, cache>>
    BY <1>5, <2>1 DEF MakeRamFree, Exit, TypeOK
  <2>2. CASE \E got \in 0..cache : free' = free + got /\ cache' = cache - got
    <3>1. PICK got \in 0..cache : free' = free + got /\ cache' = cache - got
      BY <2>2
    <3>2. free' \in 0..Mem /\ cache' \in 0..Mem /\ Cost[kernel] + free' + cache' <= Mem
      BY <3>1, <1>0 DEF TypeOK
    <3>3. /\ pc' \in PC /\ outcome' \in Outcome
          /\ UNCHANGED <<callVars, round, cnt, errno, kernel, erased, snatched>>
      BY <1>5 DEF MakeRamFree, Exit, TypeOK
    <3> QED
      BY <3>2, <3>3 DEF TypeOK
  <2> QED
    BY <1>5, <2>1, <2>2 DEF MakeRamFree
<1>6. CASE GiveUp
  BY <1>6 DEF GiveUp, MayGoTiny, Exit, Keep, TypeOK
<1>7. CASE GoTiny
  <2>1. /\ kernel' \in Screen /\ free' \in 0..Mem /\ cache' \in 0..Mem
        /\ Cost[kernel'] + free' + cache' <= Mem
    <3>1. Tiny = kernel \/ Cost[Tiny] <= free
      BY <1>7 DEF GoTiny, MayGoTiny, Verdict
    <3>2. CASE Tiny = kernel
      BY <1>7, <3>2 DEF GoTiny, MayGoTiny, TypeOK
    <3>3. CASE Tiny # kernel
      <4>1. Adopt(Tiny) /\ Tiny \in Screen
        BY <1>7, <3>3 DEF GoTiny, MayGoTiny, Screen
      <4> QED
        BY <3>1, <4>1, AdoptType
    <3> QED
      BY <3>2, <3>3
  <2>2. round' \in 1..2 /\ cnt' \in 0..Tries
    BY <1>7 DEF GoTiny, MayGoTiny
  <2>3. pc' \in PC /\ erased' \in BOOLEAN /\ snatched' \in BOOLEAN
    BY <1>7 DEF GoTiny, MayGoTiny
  <2>4. UNCHANGED <<callVars, errno, outcome>>
    BY <1>7 DEF GoTiny, MayGoTiny
  <2> QED
    BY <2>1, <2>2, <2>3, <2>4 DEF TypeOK
<1>8. CASE Kill
  BY <1>8 DEF Kill, Keep, TypeOK
<1>9. CASE Snatch
  <2>1. PICK n \in 1..free : free' = free - n /\ cache' \in {cache, cache + n}
    BY <1>9 DEF Snatch
  <2>2. free' \in 0..Mem /\ cache' \in 0..Mem /\ Cost[kernel] + free' + cache' <= Mem
    BY <2>1, <1>0 DEF TypeOK
  <2> QED
    BY <1>9, <2>2 DEF Snatch, TypeOK
<1>10. CASE Release
  <2>1. PICK n \in 1..(Mem - (Cost[kernel] + free + cache)) : free' = free + n
    BY <1>10 DEF Release
  <2>2. free' \in 0..Mem /\ cache \in 0..Mem /\ Cost[kernel] + free' + cache <= Mem
    BY <2>1, <1>0 DEF TypeOK
  <2> QED
    BY <1>10, <2>2 DEF Release, TypeOK
<1>11. CASE UNCHANGED vars
  BY <1>11 DEF vars, TypeOK
<1> QED
  BY <1>1, <1>2, <1>3, <1>4, <1>5, <1>6, <1>7, <1>8, <1>9, <1>10, <1>11 DEF Next, Program

\* Memory is never created or lost, and the retry counter never passes its
\* bound, whatever the rivals do.
THEOREM TypeCorrect == Spec => []TypeOK
  BY TypeInit, TypeStep, PTL DEF Spec
-----------------------------------------------------------------------------
(* The inductive invariant.                                                *)

\* Nothing has gone wrong before the first call.
LEMMA IInvInit == Init => IInv
<1> SUFFICES ASSUME Init PROVE IInv
  OBVIOUS
<1>1. TypeOK
  BY TypeInit
<1> QED
  BY <1>1 DEF Init, IInv, FirstRound, SecondRound, Outcomes, Errno, RoomForOld, ShrinkNeverStuck

\* The rounds, the outcomes and the error number: what does not count memory.
LEMMA ControlStep ==
  ASSUME TypeOK, FirstRound, SecondRound, Outcomes, Errno, [Next]_vars
  PROVE  FirstRound' /\ SecondRound' /\ Outcomes' /\ Errno'
<1> USE DEF FirstRound, SecondRound, Outcomes, Errno, callVars
<1>1. CASE Call
  BY <1>1 DEF Call
<1>2. CASE OpenTty
  BY <1>2 DEF OpenTty, Exit, Keep
<1>3. CASE ResizeDone
  <2>1. kernel' = target
    BY <1>3 DEF ResizeDone, Answer, Adopt
  <2> QED
    BY <1>3, <2>1 DEF ResizeDone, Answer, Return, TypeOK
<1>4. CASE ResizeFails
  <2>1. errno' = "ENOMEM" => ~rejects
    BY <1>4 DEF ResizeFails, MoreTries, CountTry, Verdict, TypeOK
  <2> QED
    BY <1>4, <2>1 DEF ResizeFails, MoreTries, CountTry, Return, Keep
<1>5. CASE MakeRamFree
  BY <1>5 DEF MakeRamFree, Exit
<1>6. CASE GiveUp
  BY <1>6 DEF GiveUp, MayGoTiny, Exit, Keep
<1>7. CASE GoTiny
  <2>1. kernel' = Tiny
    BY <1>7 DEF GoTiny, MayGoTiny, Adopt
  <2> QED
    BY <1>7, <2>1 DEF GoTiny, MayGoTiny
<1>8. CASE Kill
  BY <1>8 DEF Kill, Keep
<1>9. CASE Snatch
  BY <1>9 DEF Snatch
<1>10. CASE Release
  BY <1>10 DEF Release
<1>11. CASE UNCHANGED vars
  BY <1>11 DEF vars
<1> QED
  BY <1>1, <1>2, <1>3, <1>4, <1>5, <1>6, <1>7, <1>8, <1>9, <1>10, <1>11 DEF Next, Program

\* The memory the 1x1 screen released stays free until a rival takes it.
LEMMA RoomStep ==
  ASSUME TypeOK, FirstRound, Outcomes, RoomForOld, [Next]_vars
  PROVE  RoomForOld'
<1>0. Cost[origin] \in Nat /\ Cost[kernel] \in Nat /\ Cost[Tiny] \in Nat
  BY CostType DEF TypeOK, Screen
<1> USE DEF RoomForOld, callVars
<1>1. CASE Call
  BY <1>1 DEF Call
<1>2. CASE OpenTty
  BY <1>2 DEF OpenTty, Exit, Keep
<1>3. CASE ResizeDone
  BY <1>3 DEF ResizeDone, Answer, Return
<1>4. CASE ResizeFails
  BY <1>4 DEF ResizeFails, MoreTries, CountTry, Return, Keep, Outcomes
<1>5. CASE MakeRamFree
  <2>1. pc' # "idle" => free' \in Nat /\ free' >= free
    BY <1>5 DEF MakeRamFree, Exit, TypeOK
  <2> QED
    BY <1>5, <2>1, <1>0 DEF MakeRamFree, TypeOK
<1>6. CASE GiveUp
  BY <1>6 DEF GiveUp, MayGoTiny, Exit
<1>7. CASE GoTiny
  <2>1. kernel = origin
    BY <1>7 DEF GoTiny, MayGoTiny, FirstRound, Outcomes
  <2>2. CASE origin = Tiny
    BY <1>7, <2>2 DEF GoTiny, MayGoTiny
  <2>3. CASE origin # Tiny
    <3>1. Adopt(Tiny) /\ Cost[Tiny] <= free
      BY <1>7, <2>1, <2>3 DEF GoTiny, MayGoTiny, Verdict
    <3>2. free' = (free + Cost[origin]) - Cost[Tiny]
      BY <2>1, <3>1 DEF Adopt
    <3>3. Cost[origin] <= free'
      BY <3>1, <3>2, <1>0 DEF TypeOK
    <3> QED
      BY <1>7, <3>3 DEF GoTiny, MayGoTiny
  <2> QED
    BY <2>2, <2>3
<1>8. CASE Kill
  BY <1>8 DEF Kill
<1>9. CASE Snatch
  BY <1>9 DEF Snatch
<1>10. CASE Release
  <2>1. PICK n \in 1..(Mem - (Cost[kernel] + free + cache)) : free' = free + n
    BY <1>10 DEF Release
  <2>2. free' >= free /\ free' \in Nat
    BY <2>1, <1>0 DEF TypeOK
  <2> QED
    BY <1>10, <2>2, <1>0 DEF Release, TypeOK
<1>11. CASE UNCHANGED vars
  BY <1>11 DEF vars
<1> QED
  BY <1>1, <1>2, <1>3, <1>4, <1>5, <1>6, <1>7, <1>8, <1>9, <1>10, <1>11 DEF Next, Program

\* The last failing attempt at 1x1 cannot be for want of the old memory.
LEMMA ShrinkStep ==
  ASSUME IInv, [Next]_vars
  PROVE  ShrinkNeverStuck'
<1> USE DEF IInv, callVars
<1>0. Cost[origin] \in Nat /\ Cost[target] \in Nat /\ Cost[Tiny] < Cost[target]
  BY CostType DEF TypeOK, Screen
<1>1. CASE Call
  BY <1>1 DEF Call, ShrinkNeverStuck
<1>2. CASE OpenTty
  BY <1>2 DEF OpenTty, Exit, Outcomes, ShrinkNeverStuck
<1>3. CASE ResizeDone
  <2>1. kernel' # Tiny
    BY <1>3 DEF ResizeDone, Answer, Adopt, TypeOK
  <2> QED
    BY <2>1 DEF ShrinkNeverStuck
<1>4. CASE ResizeFails
  <2>1. CASE Cost[target] <= Cost[origin] /\ round = 2 /\ ~snatched
    <3>1. origin # Tiny
      BY <2>1, <1>0
    <3>2. Cost[target] <= free
      BY <1>4, <2>1, <3>1, <1>0 DEF RoomForOld, ResizeFails, MoreTries, CountTry, TypeOK
    <3>3. Verdict(target) = "none"
      BY <3>2, <2>1 DEF Verdict, SecondRound
    <3> QED
      BY <1>4, <3>3 DEF ResizeFails, MoreTries, CountTry
  <2>2. CASE ~(Cost[target] <= Cost[origin] /\ round = 2 /\ ~snatched)
    BY <1>4, <2>2 DEF ResizeFails, MoreTries, CountTry, ShrinkNeverStuck
  <2> QED
    BY <2>1, <2>2
<1>5. CASE MakeRamFree
  BY <1>5 DEF MakeRamFree, Exit, Outcomes, ShrinkNeverStuck
<1>6. CASE GiveUp
  BY <1>6 DEF GiveUp, MayGoTiny, Exit, ShrinkNeverStuck
<1>7. CASE GoTiny
  BY <1>7 DEF GoTiny, MayGoTiny, Outcomes, ShrinkNeverStuck
<1>8. CASE Kill
  BY <1>8 DEF Kill, ShrinkNeverStuck
<1>9. CASE Snatch
  BY <1>9 DEF Snatch, ShrinkNeverStuck
<1>10. CASE Release
  BY <1>10 DEF Release, ShrinkNeverStuck
<1>11. CASE UNCHANGED vars
  BY <1>11 DEF vars, ShrinkNeverStuck
<1> QED
  BY <1>1, <1>2, <1>3, <1>4, <1>5, <1>6, <1>7, <1>8, <1>9, <1>10, <1>11 DEF Next, Program

\* The inductive invariant holds through any history of calls.
THEOREM Inductive == Spec => []IInv
<1>1. IInv /\ [Next]_vars => IInv'
  BY TypeStep, ControlStep, RoomStep, ShrinkStep DEF IInv
<1> QED
  BY <1>1, IInvInit, PTL DEF Spec

\* Without -m, or for a request refused for another reason than memory, no
\* screen ever becomes 1x1 and no text is lost, whatever fails.
THEOREM TinyNeedsPermission == Spec => []TinyOnlyIfAllowed
<1>1. IInv => TinyOnlyIfAllowed
  BY DEF IInv, TinyOnlyIfAllowed, FirstRound, SecondRound, Outcomes, TypeOK
<1> QED
  BY <1>1, Inductive, PTL

\* An interrupted call leaves the old geometry or, with -m, the 1x1 screen.
THEOREM InterruptedIsOldOrTiny == Spec => []InterruptedKeepsGeometry
<1>1. IInv => InterruptedKeepsGeometry
  BY DEF IInv, InterruptedKeepsGeometry, FirstRound, SecondRound, Outcomes, TypeOK
<1> QED
  BY <1>1, Inductive, PTL

\* FALSE is returned only when the new geometry is in force and no text lost.
THEOREM FalseIsDirect == Spec => []FalseMeansDirect
<1>1. IInv => FalseMeansDirect
  BY DEF IInv, FalseMeansDirect, Outcomes
<1> QED
  BY <1>1, Inductive, PTL

\* A resize to a screen that is no larger is stuck at 1x1 only by a rival.
THEOREM ShrinkSucceeds == Spec => []ShrinkNeverStuck
<1>1. IInv => ShrinkNeverStuck
  BY DEF IInv
<1> QED
  BY <1>1, Inductive, PTL
-----------------------------------------------------------------------------
(* The contract.                                                           *)

\* Each step of the call is a step of the contract or leaves it unchanged.
LEMMA ContractStep ==
  ASSUME IInv, IInv', [Next]_vars
  PROVE  [Contract!Next]_(Contract!callVars)
<1> USE DEF IInv, callVars, Contract!Next, Contract!callVars
<1>0. /\ round \in 1..2 /\ target' \in Size /\ allow1x1' \in BOOLEAN
      /\ pc # "idle" => outcome = "none"
  BY DEF TypeOK, Outcomes
<1>1. CASE Call
  BY <1>1, <1>0 DEF Call, Contract!Call
<1>2. CASE OpenTty
  BY <1>2, <1>0 DEF OpenTty, Exit, Keep, Contract!Leave
<1>3. CASE ResizeDone
  <2>1. kernel' = target /\ pc = "ioctl" /\ pc' = "idle" /\ outcome' \in {"FALSE", "TRUE"}
    BY <1>3 DEF ResizeDone, Answer, Adopt, Return
  <2>2. UNCHANGED <<target, allow1x1>>
    BY <1>3 DEF ResizeDone, Answer
  <2> QED
    BY <2>1, <2>2, <1>0 DEF Contract!Direct, Contract!ViaTiny
<1>4. CASE ResizeFails
  <2>1. UNCHANGED <<target, allow1x1, kernel, round>> /\ pc = "ioctl"
    BY <1>4 DEF ResizeFails, MoreTries, CountTry, Keep
  <2>2. CASE pc' = "idle"
    <3>1. round = 2 /\ outcome' = "TRUE"
      BY <1>4, <2>2 DEF ResizeFails, MoreTries, CountTry, Return
    <3> QED
      BY <2>1, <2>2, <3>1 DEF Contract!ViaTiny
  <2>3. CASE pc' # "idle"
    BY <1>4, <2>1, <2>3, <1>0 DEF ResizeFails, MoreTries, CountTry, Return
  <2> QED
    BY <2>2, <2>3
<1>5. CASE MakeRamFree
  BY <1>5, <1>0 DEF MakeRamFree, Exit, Contract!Leave
<1>6. CASE GiveUp
  BY <1>6, <1>0 DEF GiveUp, MayGoTiny, Exit, Keep, Contract!Leave
<1>7. CASE GoTiny
  <2>1. kernel' = Tiny /\ allow1x1 /\ UNCHANGED <<target, allow1x1>>
    BY <1>7 DEF GoTiny, MayGoTiny, Adopt
  <2>2. round = 1 /\ pc = "fallback" /\ round' = 2 /\ pc' = "ioctl"
    BY <1>7 DEF GoTiny, MayGoTiny, Outcomes
  <2> QED
    BY <2>1, <2>2 DEF Contract!Shrink
<1>8. CASE Kill
  BY <1>8, <1>0 DEF Kill, Keep, Contract!Leave
<1>9. CASE Snatch
  BY <1>9 DEF Snatch
<1>10. CASE Release
  BY <1>10 DEF Release
<1>11. CASE UNCHANGED vars
  BY <1>11 DEF vars
<1> QED
  BY <1>1, <1>2, <1>3, <1>4, <1>5, <1>6, <1>7, <1>8, <1>9, <1>10, <1>11 DEF Next, Program

\* The call with its retries, its fallback and its rivals implements the
\* contract that main() relies on.
THEOREM ContractKept == Spec => ImplementsContract
<1>1. Init => Contract!Init
  BY DEF Init, Contract!Init
<1>2. IInv /\ IInv' /\ [Next]_vars => [Contract!Next]_(Contract!callVars)
  BY ContractStep
<1> QED
  BY <1>1, <1>2, Inductive, PTL DEF Spec, ImplementsContract, Contract!Spec
=============================================================================

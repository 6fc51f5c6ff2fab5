------------------------------ MODULE VTResize ------------------------------
(***************************************************************************)
(* generic_VT_RESIZE, try_resize and make_ram_free of src/ttyresize.c: the *)
(* program asks the kernel for a new console geometry, frees memory by     *)
(* forcing a child process to dirty ever more pages, and (with -m) goes    *)
(* through a 1x1 screen.  The kernel, its free memory and the other        *)
(* processes that take and return memory at any moment are the             *)
(* environment.                                                            *)
(*                                                                         *)
(* Memory is counted in abstract units.  The kernel allocates the buffers  *)
(* of the new geometry before it releases those of the old one, which is   *)
(* why a resize can fail for lack of memory although the new screen is     *)
(* smaller, and why the detour through 1x1 helps.                          *)
(***************************************************************************)
EXTENDS Integers

CONSTANTS Size,       \* the screen sizes a mode can ask for
          Tiny,       \* the 1x1 screen
          Cost,       \* memory the consoles take: [Size \cup {Tiny} -> Nat]
          Mem,        \* all the memory the kernel could ever use for consoles
          Tries       \* rounds of make_ram_free in try_resize (4 in the code)

Screen == Size \cup {Tiny}

ASSUME SizeAssumption == Tiny \notin Size /\ Size # {}
ASSUME CostAssumption == /\ Cost \in [Screen -> Nat]
                         /\ \A s \in Size : Cost[Tiny] < Cost[s]
ASSUME MemAssumption  == Mem \in Nat /\ \A s \in Screen : Cost[s] <= Mem
ASSUME TriesAssumption == Tries \in Nat

VARIABLES
  pc,         \* where generic_VT_RESIZE is
  target,     \* the requested geometry (p_struct_size)
  allow1x1,   \* the -m switch
  round,      \* 1: the first try_resize, 2: the one after the 1x1 screen
  cnt,        \* try_resize's loop counter; 0 for the attempt before the loop
  errno,      \* of the last ioctl
  outcome,    \* how the last call ended
  rejects,    \* the kernel does not accept this request at all (EINVAL)
  kernel,     \* the console geometry the kernel works with
  erased,     \* the text of the screens was thrown away during this call
  free,       \* memory the kernel can allocate now
  cache,      \* memory it can get back by flushing buffers and swapping
  origin,     \* history: the geometry when the call began
  snatched    \* history: a rival took memory since the screen became 1x1

callVars == <<target, allow1x1, rejects, origin>>
memVars  == <<free, cache>>
vars == <<pc, target, allow1x1, round, cnt, errno, outcome, rejects, kernel,
          erased, free, cache, origin, snatched>>

PC == {"idle", "open", "ioctl", "ram", "fallback"}
Outcome == {"none", "FALSE", "TRUE", "exit", "killed"}

TypeOK == /\ pc \in PC
          /\ target \in Size
          /\ allow1x1 \in BOOLEAN
          /\ round \in 1..2
          /\ cnt \in 0..Tries
          /\ errno \in {"none", "ENOMEM", "EINVAL"}
          /\ outcome \in Outcome
          /\ rejects \in BOOLEAN
          /\ kernel \in Screen
          /\ erased \in BOOLEAN
          /\ free \in 0..Mem
          /\ cache \in 0..Mem
          /\ origin \in Screen
          /\ snatched \in BOOLEAN
          /\ Cost[kernel] + free + cache <= Mem

Init == /\ pc = "idle"
        /\ target \in Size
        /\ allow1x1 = FALSE
        /\ round = 1
        /\ cnt = 0
        /\ errno = "none"
        /\ outcome = "none"
        /\ rejects = FALSE
        /\ kernel \in Size
        /\ erased = FALSE
        /\ free \in 0..Mem
        /\ cache \in 0..Mem
        /\ Cost[kernel] + free + cache <= Mem
        /\ origin = kernel
        /\ snatched = FALSE
-----------------------------------------------------------------------------
(* The kernel's VT_RESIZE / VT_RESIZEX.                                    *)

\* What the ioctl answers for geometry s: a geometry already in force needs
\* no memory, and the old buffers are still there while the new are made.
\* Whatever is wrong with the geometry asked for, 1x1 is one it knows.
Verdict(s) == IF rejects /\ s # Tiny THEN "EINVAL"
              ELSE IF s = kernel \/ Cost[s] <= free THEN "none" ELSE "ENOMEM"

\* (Mutant: the old buffers are never released.)
AdoptLeaking(s) == kernel' = s /\ free' = free - Cost[s] /\ UNCHANGED cache

\* The geometry becomes s and the old buffers are released.
Adopt(s) == /\ kernel' = s
            /\ free' = (free + Cost[kernel]) - Cost[s]
            /\ UNCHANGED cache

Keep == UNCHANGED <<kernel, free, cache, erased>>
-----------------------------------------------------------------------------
(* The program.                                                            *)

\* PERROR: a message and exit(1); a call that returns leaves by Return.
Exit == pc' = "idle" /\ outcome' = "exit"

Return(value) == pc' = "idle" /\ outcome' = value

Call == /\ pc = "idle"
        /\ pc' = "open"
        /\ target' \in Size
        /\ allow1x1' \in BOOLEAN
        /\ rejects' \in BOOLEAN
        /\ round' = 1
        /\ cnt' = 0
        /\ errno' = "none"
        /\ outcome' = "none"
        /\ erased' = FALSE
        /\ origin' = kernel
        /\ snatched' = FALSE
        /\ UNCHANGED <<kernel, free, cache>>

OpenTty == /\ pc = "open"
           /\ \/ pc' = "ioctl" /\ UNCHANGED outcome
              \/ Exit
           /\ UNCHANGED <<callVars, round, cnt, errno, snatched>>
           /\ Keep

\* What a successful call returns: FALSE from the first round, TRUE from the
\* one after the 1x1 screen.
Answer == IF round = 1 THEN "FALSE" ELSE "TRUE"

\* The ioctl of try_resize succeeds.
ResizeDone == /\ pc = "ioctl"
              /\ Verdict(target) = "none"
              /\ IF target = kernel THEN UNCHANGED <<kernel, free, cache>>
                                    ELSE Adopt(target)
              /\ errno' = "none"
              /\ Return(Answer)
              /\ UNCHANGED <<callVars, round, cnt, erased, snatched>>

\* for (cnt=1; cnt<=4; cnt++).  (Mutant: no count.)
MoreTries == cnt < Tries
CountNothing == UNCHANGED cnt
CountTry == cnt' = cnt + 1

\* It fails: one more round of make_ram_free, or try_resize returns FALSE.
\* After the second round the function warns and still returns TRUE.
ResizeFails == /\ pc = "ioctl"
               /\ Verdict(target) # "none"
               /\ errno' = Verdict(target)
               /\ \/ /\ MoreTries
                     /\ CountTry
                     /\ pc' = "ram"
                     /\ UNCHANGED outcome
                  \/ /\ cnt = Tries /\ round = 1
                     /\ pc' = "fallback"
                     /\ UNCHANGED <<cnt, outcome>>
                  \/ /\ cnt = Tries /\ round = 2
                     /\ Return("TRUE")
                     /\ UNCHANGED cnt
               /\ UNCHANGED <<callVars, round, snatched>>
               /\ Keep

\* make_ram_free(memsize * cnt): the child dirties that many pages and exits,
\* which moves part of the reclaimable memory to the free pool (not always
\* at once, and not always all of it); a failing fork or malloc, or a child
\* that is killed, ends the program.
MakeRamFree == /\ pc = "ram"
               /\ \/ /\ \E got \in 0..cache :
                          /\ got <= Cost[target] * cnt
                          /\ free' = free + got
                          /\ cache' = cache - got
                     /\ pc' = "ioctl"
                     /\ UNCHANGED outcome
                  \/ Exit /\ UNCHANGED <<free, cache>>
               /\ UNCHANGED <<callVars, round, cnt, errno, kernel, erased, snatched>>

\* (Mutants: the -m switch, or the reason of the failure, is not looked at.)
MayGoTinyUnasked == errno = "ENOMEM"
MayGoTinyAnyError == allow1x1
MayGoTiny == errno = "ENOMEM" /\ allow1x1

\* Any error but ENOMEM, a missing -m, or a failing resize to 1x1 is fatal.
GiveUp == /\ pc = "fallback"
          /\ ~MayGoTiny \/ Verdict(Tiny) # "none"
          /\ Exit
          /\ UNCHANGED <<callVars, round, cnt, errno, snatched>>
          /\ Keep

GoTiny == /\ pc = "fallback"
          /\ MayGoTiny
          /\ Verdict(Tiny) = "none"
          /\ IF Tiny = kernel THEN UNCHANGED <<kernel, free, cache>>
                              ELSE Adopt(Tiny)
          /\ erased' = TRUE
          /\ snatched' = FALSE
          /\ round' = 2
          /\ cnt' = 0
          /\ pc' = "ioctl"
          /\ UNCHANGED <<callVars, errno, outcome>>

\* No signal is caught: a signal ends the program between any two steps.
Kill == /\ pc # "idle"
        /\ pc' = "idle"
        /\ outcome' = "killed"
        /\ UNCHANGED <<callVars, round, cnt, errno, snatched>>
        /\ Keep

Program == OpenTty \/ ResizeDone \/ ResizeFails \/ MakeRamFree \/ GiveUp \/ GoTiny
-----------------------------------------------------------------------------
(* The other processes.                                                    *)

\* A rival allocates memory, or the disk cache grows.
Snatch == /\ \E n \in 1..free :
               /\ free' = free - n
               /\ cache' \in {cache, cache + n}
          /\ snatched' = TRUE
          /\ UNCHANGED <<pc, callVars, round, cnt, errno, outcome, kernel, erased>>

\* A rival exits or releases memory.
Release == /\ \E n \in 1..(Mem - (Cost[kernel] + free + cache)) : free' = free + n
           /\ UNCHANGED <<pc, callVars, round, cnt, errno, outcome, kernel,
                          erased, cache, snatched>>

Next == Call \/ Program \/ Kill \/ Snatch \/ Release

\* The program runs whenever it can; its rivals and its user need not.
Spec == Init /\ [][Next]_vars /\ WF_vars(Program)
-----------------------------------------------------------------------------
(* Properties.                                                             *)

\* The screens are put through 1x1, and their text is lost, only with -m and
\* only for a request the kernel refused for want of memory alone, however
\* many attempts fail and whatever their errors (generic_VT_RESIZE's tests).
TinyOnlyIfAllowed ==
  (erased \/ (kernel = Tiny /\ origin # Tiny)) => allow1x1 /\ ~rejects

\* When the program ends inside the call, by an error or by a signal, the
\* kernel has the geometry it had or, with -m, 1x1: never the requested one.
InterruptedKeepsGeometry ==
  outcome \in {"exit", "killed"} => \/ kernel = origin /\ ~erased
                                    \/ kernel = Tiny /\ erased /\ allow1x1

\* FALSE tells the caller that the new geometry is in force and that no text
\* was lost on the way (the return value main() turns into sresize).
FalseMeansDirect == outcome = "FALSE" => kernel = target /\ ~erased

\* A resize to a screen that needs no more memory than the old one, once at
\* 1x1, gets there unless a rival takes memory meanwhile: the 1x1 detour
\* works because the memory of the old consoles is enough for the new.
ShrinkNeverStuck ==
  (round = 2 /\ kernel = Tiny /\ outcome = "TRUE" /\ Cost[target] <= Cost[origin])
     => snatched

\* Every call comes to an end: the retries are bounded whatever the kernel
\* and the rivals do (the for loop of try_resize).
CallEnds == (pc # "idle") ~> (pc = "idle")

-----------------------------------------------------------------------------
(* The inductive strengthening.                                            *)

\* Until the 1x1 screen the geometry is untouched, except by success.
FirstRound == round = 1 => \/ outcome = "FALSE"
                           \/ kernel = origin /\ ~erased

\* The second round begins at 1x1, with -m, for want of memory only.
SecondRound == round = 2 => /\ erased /\ allow1x1 /\ ~rejects
                            /\ kernel = Tiny \/ outcome = "TRUE"

Outcomes == /\ pc # "idle" => outcome = "none"
            /\ pc = "fallback" => round = 1
            /\ outcome = "FALSE" => round = 1 /\ kernel = target /\ ~erased
            /\ outcome = "TRUE" => round = 2 /\ kernel \in {target, Tiny}

Errno == errno = "ENOMEM" => ~rejects

\* Until a rival comes, the memory of the old consoles is still there.
RoomForOld == (round = 2 /\ pc # "idle" /\ ~snatched /\ origin # Tiny) => Cost[origin] <= free

IInv == /\ TypeOK
        /\ FirstRound
        /\ SecondRound
        /\ Outcomes
        /\ Errno
        /\ RoomForOld
        /\ ShrinkNeverStuck
-----------------------------------------------------------------------------
\* The call as its caller sees it.
Contract == INSTANCE ResizeCall WITH
  phase <- IF pc = "idle" THEN (IF outcome \in {"FALSE", "TRUE"} THEN "returned" ELSE "idle")
           ELSE IF round = 2 THEN "tiny" ELSE "running"

\* The detailed call with its retries and its rivals implements the contract.
ImplementsContract == Contract!Spec
=============================================================================

----------------------------- MODULE ResizeCall -----------------------------
(***************************************************************************)
(* What one call of do_VT_RESIZE / do_VT_RESIZEX promises to its caller    *)
(* (src/ttyresize.c): the kernel's console geometry goes to the requested  *)
(* size in one step, or, only when the caller allowed it, by way of the    *)
(* 1x1 "Tiny" screen; when the program exits inside the call the geometry  *)
(* is the old one or Tiny, never something else.  Memory, retries and      *)
(* error numbers are below this level: VTResize implements this module,    *)
(* and SVGATextMode, which makes two of these calls, uses it.              *)
(***************************************************************************)
CONSTANTS Size,       \* the screen sizes a mode can ask for
          Tiny        \* the 1x1 screen of the -m fallback

VARIABLES phase,      \* "idle", "running", "tiny", "returned"
          target,     \* the size the call in progress asks for
          allow1x1,   \* the call's permission to go through Tiny
          kernel      \* the console geometry the kernel works with

callVars == <<phase, target, allow1x1, kernel>>

Phase == {"idle", "running", "tiny", "returned"}

Init == /\ phase = "idle"
        /\ target \in Size
        /\ allow1x1 \in BOOLEAN
        /\ kernel \in Size \cup {Tiny}

\* Between calls the caller may settle what the next call will ask for.
Prepare == /\ phase \in {"idle", "returned"}
           /\ phase' \in {"idle", "returned"}
           /\ target' \in Size
           /\ allow1x1' \in BOOLEAN
           /\ UNCHANGED kernel

Call == /\ phase \in {"idle", "returned"}
        /\ phase' = "running"
        /\ target' \in Size
        /\ allow1x1' \in BOOLEAN
        /\ UNCHANGED kernel

Direct == /\ phase = "running"
          /\ phase' = "returned"
          /\ kernel' = target
          /\ UNCHANGED <<target, allow1x1>>

Shrink == /\ phase = "running"
          /\ allow1x1
          /\ phase' = "tiny"
          /\ kernel' = Tiny
          /\ UNCHANGED <<target, allow1x1>>

\* The second round of attempts got the memory, or gave up and stays at 1x1.
ViaTiny == /\ phase = "tiny"
           /\ phase' = "returned"
           /\ kernel' \in {target, kernel}
           /\ UNCHANGED <<target, allow1x1>>

\* The program exits or is killed inside the call.
Leave == /\ phase \in {"running", "tiny"}
         /\ phase' = "idle"
         /\ UNCHANGED <<target, allow1x1, kernel>>

Next == Prepare \/ Call \/ Direct \/ Shrink \/ ViaTiny \/ Leave

Spec == Init /\ [][Next]_callVars
=============================================================================

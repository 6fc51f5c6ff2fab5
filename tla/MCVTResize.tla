----------------------------- MODULE MCVTResize -----------------------------
(* VTResize on an instance with two sizes, one twice as costly.            *)
EXTENDS VTResize

CONSTANTS small, big, tiny

MCSize == {small, big}
MCCost == [s \in {small, big, tiny} |->
             CASE s = small -> 2 [] s = big -> 3 [] s = tiny -> 1]
=============================================================================

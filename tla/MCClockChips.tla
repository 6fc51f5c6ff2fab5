--------------------------- MODULE MCClockChips -----------------------------
(* ClockChips with a few frequencies per chip, inside its table's limits.  *)
EXTENDS ClockChips

MCChips == AllChips \ {"LAGUNA", "CYBER938x"}
MCWanted ==
  [k \in MCChips |->
     CASE k = "SC11412"                 -> {28300, 44900, 99000, 105000}
       [] k = "MGAG200"                 -> {28322, 36000, 90000}
       [] k \in Mach64s \cup Rivas      -> {17000, 36000, 75000}
       [] k \in WithMClk                -> {25175, 36000, 80000}
       [] OTHER                         -> {25175, 28300, 36000, 80000}]
MCMClks == [k \in MCChips |-> IF k \in WithMClk THEN {45000, 60000} ELSE {}]
\* Everything the register can hold.
MCFoundCSR == 0..255

\* The run has a card for each kind of PLL and crystals of the table; the AladdinTNT2
\* (family 10) is the one get_gpu_arch does not know.
ASSUME CardsAssumption ==
  /\ {id \in NvidiaIds : GpuArch(id) = "UNKNOWN"} = Ids(10, {0})
  /\ \A id \in NvidiaIds : \E k \in Rivas \ {"RIVA128"} :
       /\ TwoStage(id) = TwoStage(Card[k].id)
       /\ HasStrap22(id) = HasStrap22(Card[k].id)
=============================================================================

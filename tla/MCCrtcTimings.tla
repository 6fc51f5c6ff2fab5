--------------------------- MODULE MCCrtcTimings ---------------------------
(* Mode lines at the edges of what the parser accepts, on registers that   *)
(* hold the BIOS text mode, all zeros or all ones.                         *)
EXTENDS CrtcTimings

Line(h, v, font, dscan, hshift) ==
  [hds |-> h[1], hss |-> h[2], hse |-> h[3], hde |-> h[4],
   vds |-> v[1], vss |-> v[2], vse |-> v[3], vde |-> v[4],
   fontHeight |-> font, dscan |-> dscan, hshift |-> hshift]

Text80x25  == Line(<<640, 680, 776, 800>>, <<400, 412, 414, 449>>, 16, FALSE, 0)
Doubled    == Line(<<360, 376, 416, 456>>, <<240, 245, 252, 262>>, 14, TRUE, 1)
\* Doubled past 1023 lines: the lines are counted in pairs.
DoubledBig == Line(<<1056, 1104, 1168, 1312>>, <<600, 601, 604, 625>>, 8, TRUE, 3)
Largest    == Line(<<2040, 2040, 2047, 2048>>, <<1023, 1023, 1024, 1024>>, 32, FALSE, 2)
Wide       == Line(<<2000, 2008, 2040, 2048>>, <<990, 1008, 1022, 1023>>, 32, FALSE, 2)
Smallest   == Line(<<40, 40, 48, 48>>, <<16, 16, 17, 17>>, 16, FALSE, 0)
LongPorch  == Line(<<640, 800, 1000, 1280>>, <<400, 600, 602, 800>>, 10, FALSE, 1)

MCModes == {Text80x25, Doubled, DoubledBig, Largest, Wide, Smallest, LongPorch}
MCCursor == [start |-> 26, end |-> 31]
\* What the BIOS leaves.
MCText == {[r \in Reg |-> TextCrtc[r + 1]]}
MCFound == MCText \cup {[r \in Reg |-> 0], [r \in Reg |-> 255]}
=============================================================================

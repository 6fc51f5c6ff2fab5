----------------------------- MODULE MCGrabMode -----------------------------
(* The modes of MCCrtcTimings, and registers of graphics modes: VGA modes, *)
(* modes whose numbers wrapped, interlaced and true colour ones.           *)
EXTENDS GrabMode

Line(h, v, font, dscan, hshift) ==
  [hds |-> h[1], hss |-> h[2], hse |-> h[3], hde |-> h[4],
   vds |-> v[1], vss |-> v[2], vse |-> v[3], vde |-> v[4],
   fontHeight |-> font, dscan |-> dscan, hshift |-> hshift]

Text80x25  == Line(<<640, 680, 776, 800>>, <<400, 412, 414, 449>>, 16, FALSE, 0)
Doubled    == Line(<<360, 376, 416, 456>>, <<240, 245, 252, 262>>, 14, TRUE, 1)
DoubledBig == Line(<<1056, 1104, 1168, 1312>>, <<600, 601, 604, 625>>, 8, TRUE, 3)
Largest    == Line(<<2032, 2032, 2040, 2048>>, <<992, 1022, 1023, 1023>>, 32, FALSE, 2)
TwiceAsBig == Line(<<1016, 1016, 1040, 1048>>, <<992, 1020, 1023, 1023>>, 32, TRUE, 0)
SyncAtEnd  == Line(<<640, 680, 800, 800>>, <<400, 412, 414, 414>>, 16, FALSE, 0)
Low        == Line(<<1280, 1320, 1400, 1480>>, <<96, 100, 102, 120>>, 8, FALSE, 0)
Smallest   == Line(<<40, 40, 48, 48>>, <<16, 16, 17, 17>>, 16, FALSE, 0)

MCModes == {Text80x25, Doubled, DoubledBig, Largest, TwiceAsBig, SyncAtEnd, Low, Smallest}
MCCursor == [start |-> 26, end |-> 31]

\* Registers set for a timing h, v with `msl` scan lines per row.
Gfx(h, v, msl, dscan) ==
  LET z  == [[r \in Reg |-> 0] EXCEPT ![23] = 192]
      v1 == SetVRetraceEnd(SetVRetraceStart(SetVDisplEnd(SetVertTotal(z, v[4]), v[1]), v[2]), v[3])
      v2 == SetVBlankEnd(SetVBlankStart(v1, v[1] % 1024), v[4])
      h1 == SetHSyncEnd(SetHSyncStart(SetHorDisplEnd(SetHorTotal(v2, h[4] \div 8), h[1] \div 8),
                                      h[2] \div 8), h[3] \div 8)
      h2 == SetHBlankEnd(SetHBlankStart(h1, h[1] \div 8), h[4] \div 8)
  IN  SetDoubleScan(SetMaxScanline(h2, msl), dscan)

MCFound ==
  {[r \in Reg |-> TextCrtc[r + 1]], [r \in Reg |-> 0], [r \in Reg |-> 255],
   Gfx(<<640, 664, 760, 800>>, <<480, 491, 493, 525>>, 1, FALSE),
   Gfx(<<640, 664, 760, 800>>, <<400, 412, 414, 449>>, 2, FALSE),
   Gfx(<<640, 664, 760, 800>>, <<400, 412, 414, 449>>, 1, TRUE),
   Gfx(<<1024, 1040, 1216, 1264>>, <<384, 385, 389, 408>>, 1, FALSE),
   Gfx(<<1280, 1312, 1424, 1600>>, <<1024, 1029, 1031, 1049>>, 1, FALSE),
   Gfx(<<1600, 1632, 1800, 2040>>, <<1200, 1203, 1209, 1250>>, 1, FALSE),
   Gfx(<<1280, 1328, 1520, 1600>>, <<480, 491, 493, 525>>, 1, FALSE),
   Gfx(<<1920, 1992, 2040, 2048>>, <<480, 491, 493, 525>>, 1, FALSE)}

MCAdapters ==
  {[graphics |-> FALSE, pcsDiv2 |-> FALSE, shift256 |-> FALSE],
   [graphics |-> TRUE, pcsDiv2 |-> FALSE, shift256 |-> FALSE],
   [graphics |-> TRUE, pcsDiv2 |-> TRUE, shift256 |-> TRUE]}
MCWidths  == {0, 320, 640, 1056, 1600}
MCHeights == {0, 200, 768, 400, 1200}
=============================================================================

---------------------------- MODULE MCConfigFile ----------------------------
(* Files of a few lines on a card with a Clocks line or a chip.   *)
EXTENDS ConfigFile

MCDefaultDac == [c \in {"VGA", "S3", "CIRRUS"} |->
                   CASE c = "VGA" -> 45000 [] c = "S3" -> 70000 [] c = "CIRRUS" -> 55000]
MCBuiltIn == [c \in {"VGA", "S3", "CIRRUS"} |-> IF c = "CIRRUS" THEN "CIRRUS" ELSE None]

MCRequests == {[label |-> n, validate |-> v, scan |-> FALSE] : n \in {"80x25", None}, v \in BOOLEAN}
              \cup {[label |-> None, validate |-> TRUE, scan |-> TRUE]}

Is(kind, v) == [kind |-> kind, value |-> v]
Mode(name, clock, hds, vds, attributes) ==
  [kind |-> "mode", name |-> name, clock |-> clock, attributes |-> attributes,
   hds |-> hds, hss |-> hds + 40, hse |-> hds + 136, hde |-> hds + 160,
   vds |-> vds, vss |-> vds + 12, vse |-> vds + 14, vde |-> vds + 49]
SyncLine(which, ranges) == [kind |-> "sync", which |-> which, ranges |-> ranges]
ClocksOf(s) == [kind |-> "clocks", clocks |-> s]

\* 31.5 kHz and 70 Hz; 32 kHz and 71 Hz; 39 kHz and 87 Hz, or 43 Hz, or 174 Hz.
Std  == Mode("80x25", 25200, 640, 400, <<>>)
Fast == Mode("80x25", 57600, 1440, 400, <<<<"font", <<9, 16>>>>, <<"hsync", "POS">>, <<"vsync", "NEG">>>>)
Med  == Mode("80x50", 31200, 640, 400, <<<<"font", <<9, 8>>>>, <<"font", <<8, 8>>>>>>)
Slow == Mode("80x25", 31200, 640, 400, <<<<"flag", "doublescan">>, <<"hshift", 1>>>>)
Lace == Mode("80x25", 31200, 640, 400, <<<<"flag", "interlace">>>>)
S3 == Is("chipset", "S3")
Listed == ClocksOf(<<25200, 28300>>)

MCFiles ==
  { [max |-> 5, lines |->
    {S3, Is("chipset", "VGA"), Is("chipset", "CIRRUS"), Listed, Is("dacspeed", 45000),
     Is("dacspeed", 60000), Fast}],
    [max |-> 4, lines |->
    {S3, Listed, Std, Fast, Is("default", "80x25"), Is("default", "80x50"), Med,
     SyncLine("h", <<<<35000, 40000>>>>)}],
    [max |-> 5, lines |->
    {S3, Listed, Slow, Lace, SyncLine("h", <<<<35000, 40000>>>>), SyncLine("h", <<<<39000, 39000>>>>),
     SyncLine("v", <<<<180000, 170000>>, <<43400, 43400>>>>)}],
    [max |-> 4, lines |->
    {S3, Is("clockchip", "IBMRGB5XX"), Is("clockchip", "TI3026"), Is("mclk", 50000), Is("refclk", 14318),
     Is("option", "SOG"), Std, Listed, ClocksOf(<<31500>>), Is("mclk", 500001)}],
    [max |-> 4, lines |->
    {S3, Std, Is("underline", 32), Is("underline", 0), Is("border", 1), Is("border", 256),
     [kind |-> "clockprog", value |-> "prog", exists |-> TRUE], [kind |-> "clockprog", value |-> "gone", exists |-> FALSE],
     [kind |-> "cursor", ranges |-> <<<<1, 2>>, <<31, 0>>>>], [kind |-> "cursor", ranges |-> <<<<7, 7>>>>],
     [kind |-> "cursor", ranges |-> <<>>]}],
    [max |-> 4, lines |->
    {S3, Listed, Med, [kind |-> "fontselect", font |-> "a", sizes |-> <<<<8, 8>>, <<9, 16>>>>],
     [kind |-> "fontselect", font |-> "b", sizes |-> <<<<8, 8>>>>],
     [kind |-> "fontselect", font |-> "c", sizes |-> <<<<10, 8>>>>],
     [kind |-> "terminals", names |-> <<"tty1", "tty2">>], [kind |-> "unknown"],
     Mode("small", 25000, 15, 400, <<>>), Mode("large", 25000, 1600, 900, <<<<"font", <<8, 4>>>>>>),
     Mode("shift", 25000, 640, 400, <<<<"hshift", 4>>>>), Mode("80x50", 40000, 800, 600, <<>>)}] }
=============================================================================

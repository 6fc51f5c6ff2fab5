---------------------------- MODULE VgaToolsProofs ----------------------------
(***************************************************************************)
(* VgaTools for all programs, calls and palettes, and any number of kills  *)
(* and of visits of the kernel: no byte strays, finished calls have done   *)
(* what they are for, a loaded font is fetched as it is stored, and the    *)
(* palette is the one asked for.                                           *)
(*                                                                         *)
(* The bits of a byte come first, then what each port access does to the   *)
(* card, then which access a program is at.  The invariants say how far a  *)
(* program has come in its call (CallInv) and in its job (StandInv), what  *)
(* of the font it has set when its last calls remain (FontInv), what its   *)
(* copy of the palette holds (PaletteInv), and which lines are in the pipe *)
(* between getpalette and setpalette (PipeInv).                            *)
(***************************************************************************)
EXTENDS VgaTools, SequenceTheorems, WellFoundedInduction, TLAPS

LEMMA Powers == /\ 2^0 = 1 /\ 2^1 = 2 /\ 2^2 = 4 /\ 2^3 = 8
                /\ 2^4 = 16 /\ 2^5 = 32 /\ 2^6 = 64 /\ 2^7 = 128
  OBVIOUS

LEMMA BitType == ASSUME NEW n \in Nat, NEW k \in 0..7 PROVE Bit(n, k) \in 0..1
  <1>1. k = 0 \/ k = 1 \/ k = 2 \/ k = 3 \/ k = 4 \/ k = 5 \/ k = 6 \/ k = 7
    OBVIOUS
  <1>2. /\ Bit(n, 0) \in 0..1 /\ Bit(n, 1) \in 0..1 /\ Bit(n, 2) \in 0..1 /\ Bit(n, 3) \in 0..1
        /\ Bit(n, 4) \in 0..1 /\ Bit(n, 5) \in 0..1 /\ Bit(n, 6) \in 0..1 /\ Bit(n, 7) \in 0..1
    BY Powers DEF Bit
  <1> QED
    BY <1>1, <1>2

\* A byte by its bits.
LEMMA ByteIsBits ==
  ASSUME NEW a \in Byte
  PROVE  a = Bit(a, 0) + 2 * Bit(a, 1) + 4 * Bit(a, 2) + 8 * Bit(a, 3)
             + 16 * Bit(a, 4) + 32 * Bit(a, 5) + 64 * Bit(a, 6) + 128 * Bit(a, 7)
  BY Powers DEF Bit, Byte

LEMMA BitsOfByte ==
  ASSUME NEW b0 \in 0..1, NEW b1 \in 0..1, NEW b2 \in 0..1, NEW b3 \in 0..1,
         NEW b4 \in 0..1, NEW b5 \in 0..1, NEW b6 \in 0..1, NEW b7 \in 0..1,
         NEW a, a = b0 + 2 * b1 + 4 * b2 + 8 * b3 + 16 * b4 + 32 * b5 + 64 * b6 + 128 * b7
  PROVE  /\ a \in Byte
         /\ Bit(a, 0) = b0 /\ Bit(a, 1) = b1 /\ Bit(a, 2) = b2 /\ Bit(a, 3) = b3
         /\ Bit(a, 4) = b4 /\ Bit(a, 5) = b5 /\ Bit(a, 6) = b6 /\ Bit(a, 7) = b7
  BY Powers DEF Bit, Byte

LEMMA SameBits ==
  ASSUME NEW a \in Byte, NEW b \in Byte, \A k \in 0..7 : Bit(a, k) = Bit(b, k)
  PROVE  a = b
  BY ByteIsBits

LEMMA BitAndBits ==
  ASSUME NEW a \in Byte, NEW b \in Byte
  PROVE  /\ BitAnd(a, b) \in Byte
         /\ \A k \in 0..7 : Bit(BitAnd(a, b), k) = Bit(a, k) * Bit(b, k)
  <1> DEFINE p(k) == Bit(a, k) * Bit(b, k)
  <1>1. \A k \in 0..7 : p(k) \in 0..1
    <2> TAKE k \in 0..7
    <2>1. Bit(a, k) \in 0..1 /\ Bit(b, k) \in 0..1
      BY BitType DEF Byte
    <2> QED
      BY <2>1
  <1>2. BitAnd(a, b) = p(0) + 2 * p(1) + 4 * p(2) + 8 * p(3) + 16 * p(4) + 32 * p(5) + 64 * p(6) + 128 * p(7)
    BY DEF BitAnd, OfBits
  <1> HIDE DEF p
  <1>3. /\ BitAnd(a, b) \in Byte
        /\ Bit(BitAnd(a, b), 0) = p(0) /\ Bit(BitAnd(a, b), 1) = p(1) /\ Bit(BitAnd(a, b), 2) = p(2) /\ Bit(BitAnd(a, b), 3) = p(3)
        /\ Bit(BitAnd(a, b), 4) = p(4) /\ Bit(BitAnd(a, b), 5) = p(5) /\ Bit(BitAnd(a, b), 6) = p(6) /\ Bit(BitAnd(a, b), 7) = p(7)
    BY <1>1, <1>2, BitsOfByte
  <1>4. \A k \in 0..7 : Bit(BitAnd(a, b), k) = p(k)
    BY <1>3
  <1> QED
    BY <1>3, <1>4 DEF p

\* The bits of a sum of bytes that have none in common, and of a complement.
LEMMA BitOrBits ==
  ASSUME NEW a \in Byte, NEW b \in Byte
  PROVE  /\ BitOr(a, b) \in Byte
         /\ \A k \in 0..7 : Bit(BitOr(a, b), k) = Bit(a, k) + Bit(b, k) - Bit(a, k) * Bit(b, k)
  <1> DEFINE p(k) == Bit(a, k) * Bit(b, k)
             q(k) == Bit(a, k) + Bit(b, k) - p(k)
  <1>1. \A k \in 0..7 : p(k) \in 0..1 /\ q(k) \in 0..1 /\ q(k) = Bit(a, k) + Bit(b, k) - p(k)
    <2> TAKE k \in 0..7
    <2>1. Bit(a, k) \in 0..1 /\ Bit(b, k) \in 0..1
      BY BitType DEF Byte
    <2> QED
      BY <2>1
  <1>2. BitAnd(a, b) = p(0) + 2 * p(1) + 4 * p(2) + 8 * p(3) + 16 * p(4) + 32 * p(5) + 64 * p(6) + 128 * p(7)
    BY DEF BitAnd, OfBits
  <1>3. \A k \in 0..7 : Bit(a, k) \in 0..1 /\ Bit(b, k) \in 0..1
    BY BitType DEF Byte
  <1> HIDE DEF p, q
  <1>4. BitOr(a, b) = q(0) + 2 * q(1) + 4 * q(2) + 8 * q(3) + 16 * q(4) + 32 * q(5) + 64 * q(6) + 128 * q(7)
    <2>1. a = Bit(a, 0) + 2 * Bit(a, 1) + 4 * Bit(a, 2) + 8 * Bit(a, 3)
              + 16 * Bit(a, 4) + 32 * Bit(a, 5) + 64 * Bit(a, 6) + 128 * Bit(a, 7)
      BY ByteIsBits
    <2>2. b = Bit(b, 0) + 2 * Bit(b, 1) + 4 * Bit(b, 2) + 8 * Bit(b, 3)
              + 16 * Bit(b, 4) + 32 * Bit(b, 5) + 64 * Bit(b, 6) + 128 * Bit(b, 7)
      BY ByteIsBits
    <2>3. BitOr(a, b) = a + b - BitAnd(a, b)
      BY DEF BitOr
    <2>4. /\ p(0) \in Int /\ Bit(a, 0) \in Int /\ Bit(b, 0) \in Int /\ q(0) = Bit(a, 0) + Bit(b, 0) - p(0)
          /\ p(1) \in Int /\ Bit(a, 1) \in Int /\ Bit(b, 1) \in Int /\ q(1) = Bit(a, 1) + Bit(b, 1) - p(1)
          /\ p(2) \in Int /\ Bit(a, 2) \in Int /\ Bit(b, 2) \in Int /\ q(2) = Bit(a, 2) + Bit(b, 2) - p(2)
          /\ p(3) \in Int /\ Bit(a, 3) \in Int /\ Bit(b, 3) \in Int /\ q(3) = Bit(a, 3) + Bit(b, 3) - p(3)
          /\ p(4) \in Int /\ Bit(a, 4) \in Int /\ Bit(b, 4) \in Int /\ q(4) = Bit(a, 4) + Bit(b, 4) - p(4)
          /\ p(5) \in Int /\ Bit(a, 5) \in Int /\ Bit(b, 5) \in Int /\ q(5) = Bit(a, 5) + Bit(b, 5) - p(5)
          /\ p(6) \in Int /\ Bit(a, 6) \in Int /\ Bit(b, 6) \in Int /\ q(6) = Bit(a, 6) + Bit(b, 6) - p(6)
          /\ p(7) \in Int /\ Bit(a, 7) \in Int /\ Bit(b, 7) \in Int /\ q(7) = Bit(a, 7) + Bit(b, 7) - p(7)
      BY <1>1, <1>3
    <2>5. a \in Int /\ b \in Int
      BY DEF Byte
    <2> HIDE DEF p, q
    <2> QED
      BY <1>2, <2>1, <2>2, <2>3, <2>4, <2>5
  <1>5. /\ BitOr(a, b) \in Byte
        /\ Bit(BitOr(a, b), 0) = q(0) /\ Bit(BitOr(a, b), 1) = q(1)
        /\ Bit(BitOr(a, b), 2) = q(2) /\ Bit(BitOr(a, b), 3) = q(3)
        /\ Bit(BitOr(a, b), 4) = q(4) /\ Bit(BitOr(a, b), 5) = q(5)
        /\ Bit(BitOr(a, b), 6) = q(6) /\ Bit(BitOr(a, b), 7) = q(7)
    BY <1>1, <1>4, BitsOfByte
  <1>6. \A k \in 0..7 : Bit(BitOr(a, b), k) = q(k)
    BY <1>5
  <1> QED
    BY <1>5, <1>6 DEF p, q

LEMMA ComplementBits ==
  ASSUME NEW a \in Byte
  PROVE  /\ 255 - a \in Byte
         /\ \A k \in 0..7 : Bit(255 - a, k) = 1 - Bit(a, k)
  <1> DEFINE q(k) == 1 - Bit(a, k)
  <1>1. \A k \in 0..7 : Bit(a, k) \in 0..1
    BY BitType DEF Byte
  <1>2. \A k \in 0..7 : q(k) \in 0..1
    BY <1>1
  <1>3. 255 - a = q(0) + 2 * q(1) + 4 * q(2) + 8 * q(3) + 16 * q(4) + 32 * q(5) + 64 * q(6) + 128 * q(7)
    BY <1>1, ByteIsBits
  <1> HIDE DEF q
  <1>4. /\ 255 - a \in Byte
        /\ Bit(255 - a, 0) = q(0) /\ Bit(255 - a, 1) = q(1) /\ Bit(255 - a, 2) = q(2)
        /\ Bit(255 - a, 3) = q(3) /\ Bit(255 - a, 4) = q(4) /\ Bit(255 - a, 5) = q(5)
        /\ Bit(255 - a, 6) = q(6) /\ Bit(255 - a, 7) = q(7)
    BY <1>2, <1>3, BitsOfByte
  <1>5. \A k \in 0..7 : Bit(255 - a, k) = q(k)
    BY <1>4
  <1> QED
    BY <1>4, <1>5 DEF q

LEMMA NoBits == \A k \in 0..7 : Bit(0, k) = 0
  <1>1. /\ Bit(0, 0) = 0 /\ Bit(0, 1) = 0 /\ Bit(0, 2) = 0 /\ Bit(0, 3) = 0
        /\ Bit(0, 4) = 0 /\ Bit(0, 5) = 0 /\ Bit(0, 6) = 0 /\ Bit(0, 7) = 0
    BY BitsOfByte
  <1> QED
    BY <1>1

\* What a read-modify-write makes of any byte it may have read.
LEMMA MergedBits ==
  ASSUME NEW byte \in Byte, NEW keep \in Byte, NEW or \in Byte,
         NEW c, c.keep = keep, c.or = or
  PROVE  /\ Merge(c, byte) \in Byte
         /\ BitAnd(Merge(c, byte), or) = or
         /\ BitAnd(Merge(c, byte), 255 - BitOr(keep, or)) = 0
         /\ \A k \in 0..7 : /\ Bit(or, k) = 1 => Bit(Merge(c, byte), k) = 1
                            /\ Bit(or, k) = 0 /\ Bit(keep, k) = 0 => Bit(Merge(c, byte), k) = 0
  <1> DEFINE m == Merge(c, byte)
             kept == BitAnd(byte, keep)
             off == 255 - BitOr(keep, or)
  <1>1. /\ kept \in Byte
        /\ \A k \in 0..7 : Bit(kept, k) = Bit(byte, k) * Bit(keep, k)
    BY BitAndBits
  <1>2. m = BitOr(kept, or)
    BY DEF Merge
  <1> HIDE DEF m, kept
  <1>3. /\ m \in Byte
        /\ \A k \in 0..7 : Bit(m, k) = Bit(kept, k) + Bit(or, k) - Bit(kept, k) * Bit(or, k)
    BY <1>1, <1>2, BitOrBits
  <1>4. /\ BitOr(keep, or) \in Byte
        /\ \A k \in 0..7 : Bit(BitOr(keep, or), k) = Bit(keep, k) + Bit(or, k) - Bit(keep, k) * Bit(or, k)
    BY BitOrBits
  <1>5. /\ off \in Byte
        /\ \A k \in 0..7 : Bit(off, k) = 1 - Bit(BitOr(keep, or), k)
    BY <1>4, ComplementBits
  <1> HIDE DEF off
  <1>6. \A k \in 0..7 : Bit(byte, k) \in 0..1 /\ Bit(keep, k) \in 0..1 /\ Bit(or, k) \in 0..1
    BY BitType DEF Byte
  <1>7. BitAnd(m, or) = or
    <2>1. /\ BitAnd(m, or) \in Byte
          /\ \A k \in 0..7 : Bit(BitAnd(m, or), k) = Bit(m, k) * Bit(or, k)
      BY <1>3, BitAndBits
    <2>2. ASSUME NEW k \in 0..7 PROVE Bit(BitAnd(m, or), k) = Bit(or, k)
      BY <2>1, <1>1, <1>3, <1>6
    <2> QED
      BY <2>1, <2>2, SameBits
  <1>8. BitAnd(m, off) = 0
    <2>1. /\ BitAnd(m, off) \in Byte
          /\ \A k \in 0..7 : Bit(BitAnd(m, off), k) = Bit(m, k) * Bit(off, k)
      BY <1>3, <1>5, BitAndBits
    <2>2. ASSUME NEW k \in 0..7 PROVE Bit(BitAnd(m, off), k) = 0
      <3>1. CASE Bit(keep, k) = 0 /\ Bit(or, k) = 0
        BY <3>1, <2>1, <1>1, <1>3, <1>4, <1>5, <1>6
      <3>2. CASE Bit(keep, k) = 1 \/ Bit(or, k) = 1
        BY <3>2, <2>1, <1>1, <1>3, <1>4, <1>5, <1>6
      <3> QED
        BY <3>1, <3>2, <1>6
    <2>3. 0 \in Byte
      BY DEF Byte
    <2> QED
      BY <2>1, <2>2, <2>3, NoBits, SameBits
  <1>9. ASSUME NEW k \in 0..7
        PROVE  /\ Bit(or, k) = 1 => Bit(m, k) = 1
               /\ Bit(or, k) = 0 /\ Bit(keep, k) = 0 => Bit(m, k) = 0
    BY <1>1, <1>3, <1>6
  <1> QED
    BY <1>3, <1>7, <1>8, <1>9 DEF m, off
-----------------------------------------------------------------------------
(* The card, one access at a time.                                         *)

Colours == [1..3 -> 0..63]
DacType == [at : 0..DacSize - 1, n : 0..2, got : Colours, size : {DacSize},
            col : [0..DacSize - 1 -> Colours]]
IxOK(x)  == /\ x \in [Sets -> Nat]
            /\ \A s \in Indexed : x[s] \in Registers[s]
            /\ x["ATR"] \in 0..63
RegOK(r) == /\ r = [s \in Sets |-> r[s]]
            /\ \A s \in Sets : r[s] \in [Registers[s] -> Byte]
\* A card made of these.
IsCard(c, x, r, d) == /\ c = [ix |-> c.ix, reg |-> c.reg, flip |-> c.flip, dac |-> c.dac]
                      /\ c.ix = x /\ c.reg = r /\ c.dac = d
CardOK(c) == /\ IsCard(c, c.ix, c.reg, c.dac)
             /\ IxOK(c.ix) /\ RegOK(c.reg) /\ c.flip \in BOOLEAN /\ c.dac \in DacType

LEMMA DacIsLarge == DacSize \in Nat /\ 17 <= DacSize /\ 16 % DacSize = 16
  BY DacSizeAssumption

LEMMA AtrRegisters == Registers["ATR"] = 0..31
  BY DEF Registers, Sets, Indexed

LEMMA OutwEffect ==
  ASSUME NEW c, CardOK(c), NEW s, s \in Indexed, NEW i, NEW d,
         NEW e, e = Effect(c, Outw(s, i, d)),
         NEW x, x = [c.ix EXCEPT ![s] = i],
         NEW r, r = [c.reg EXCEPT ![s] = [c.reg[s] EXCEPT ![i] = d]]
  PROVE  IsCard(e, x, r, c.dac) /\ e.flip = c.flip
  BY DEF Effect, Outw, CardOK, IsCard

LEMMA IndexEffect ==
  ASSUME NEW c, CardOK(c), NEW s \in Indexed, NEW i
  PROVE  LET e == Effect(c, OutIndex(s, i)) IN
         /\ IsCard(e, [c.ix EXCEPT ![s] = i], c.reg, c.dac)
         /\ e.flip = c.flip
  BY DEF Effect, OutIndex, CardOK, IsCard

LEMMA OutPortEffect ==
  ASSUME NEW c, CardOK(c), NEW i, NEW d
  PROVE  LET e == Effect(c, OutPort(i, d)) IN
         /\ IsCard(e, c.ix, [c.reg EXCEPT !["PORT"] = [c.reg["PORT"] EXCEPT ![i] = d]], c.dac)
         /\ e.flip = c.flip
  BY DEF Effect, OutPort, CardOK, IsCard

LEMMA StatusEffect ==
  ASSUME NEW c, CardOK(c)
  PROVE  LET e == Effect(c, InStatus) IN IsCard(e, c.ix, c.reg, c.dac) /\ e.flip = FALSE
  BY DEF Effect, InStatus, CardOK, IsCard

LEMMA AtrIndexEffect ==
  ASSUME NEW c, CardOK(c), ~c.flip, NEW d
  PROVE  LET e == Effect(c, OutAtr(d)) IN
         IsCard(e, [c.ix EXCEPT !["ATR"] = d % 64], c.reg, c.dac) /\ e.flip = TRUE
  <1> DEFINE e == [c EXCEPT !.flip = TRUE, !.ix["ATR"] = d % 64]
  <1>1. Effect(c, OutAtr(d)) = e
    BY DEF Effect, OutAtr, CardOK, IsCard
  <1>2. /\ e.ix = [c.ix EXCEPT !["ATR"] = d % 64] /\ e.reg = c.reg /\ e.dac = c.dac
        /\ e.flip = TRUE
    BY DEF CardOK, IsCard
  <1>3. e = [ix |-> e.ix, reg |-> e.reg, flip |-> e.flip, dac |-> e.dac]
    <2>1. c = [ix |-> c.ix, reg |-> c.reg, flip |-> c.flip, dac |-> c.dac] /\ c.flip \in BOOLEAN
      BY DEF CardOK, IsCard
    <2>2. e = [c EXCEPT !.flip = TRUE, !.ix["ATR"] = d % 64]
      OBVIOUS
    <2> HIDE DEF e
    <2> QED
      BY <2>1, <2>2
  <1> HIDE DEF e
  <1> QED
    BY <1>1, <1>2, <1>3, Zenon DEF IsCard

LEMMA AtrDataEffect ==
  ASSUME NEW c, CardOK(c), c.flip, NEW d
  PROVE  LET e == Effect(c, OutAtr(d)) IN
         /\ IsCard(e, c.ix, [c.reg EXCEPT !["ATR"] = [c.reg["ATR"] EXCEPT ![c.ix["ATR"] % 32] = d]], c.dac)
         /\ e.flip = FALSE
  <1> DEFINE e == [c EXCEPT !.flip = FALSE, !.reg["ATR"][c.ix["ATR"] % 32] = d]
  <1>1. Effect(c, OutAtr(d)) = e
    BY DEF Effect, OutAtr, CardOK, IsCard
  <1>2. /\ e.reg = [c.reg EXCEPT !["ATR"] = [c.reg["ATR"] EXCEPT ![c.ix["ATR"] % 32] = d]]
        /\ e.ix = c.ix /\ e.dac = c.dac /\ e.flip = FALSE
    BY DEF CardOK, IsCard
  <1>3. e = [ix |-> e.ix, reg |-> e.reg, flip |-> e.flip, dac |-> e.dac]
    <2>1. c = [ix |-> c.ix, reg |-> c.reg, flip |-> c.flip, dac |-> c.dac] /\ c.flip \in BOOLEAN
      BY DEF CardOK, IsCard
    <2>2. e = [c EXCEPT !.flip = FALSE, !.reg["ATR"][c.ix["ATR"] % 32] = d]
      OBVIOUS
    <2> HIDE DEF e
    <2> QED
      BY <2>1, <2>2
  <1> HIDE DEF e
  <1> QED
    BY <1>1, <1>2, <1>3, Zenon DEF IsCard

LEMMA DacEffect ==
  ASSUME NEW c, CardOK(c), NEW i, NEW v
  PROVE  /\ LET e == Effect(c, DacIndex(i)) IN
            /\ IsCard(e, c.ix, c.reg, [c.dac EXCEPT !.at = i, !.n = 0, !.got = NoColour])
            /\ e.flip = c.flip
         /\ LET e == Effect(c, OutDac(v)) IN
            IsCard(e, c.ix, c.reg, DacTakes(c.dac, v)) /\ e.flip = c.flip
         /\ LET e == Effect(c, InDac) IN
            IsCard(e, c.ix, c.reg, DacStep(c.dac)) /\ e.flip = c.flip
  <1>1. LET e == Effect(c, DacIndex(i)) IN
            /\ IsCard(e, c.ix, c.reg, [c.dac EXCEPT !.at = i, !.n = 0, !.got = NoColour])
            /\ e.flip = c.flip
    BY DEF Effect, DacIndex, CardOK, IsCard
  <1>2. LET e == Effect(c, OutDac(v)) IN
            IsCard(e, c.ix, c.reg, DacTakes(c.dac, v)) /\ e.flip = c.flip
    BY DEF Effect, OutDac, CardOK, IsCard
  <1>3. LET e == Effect(c, InDac) IN
            IsCard(e, c.ix, c.reg, DacStep(c.dac)) /\ e.flip = c.flip
    BY DEF Effect, InDac, CardOK, IsCard
  <1> QED
    BY <1>1, <1>2, <1>3

LEMMA ReadEffect ==
  ASSUME NEW c, CardOK(c), NEW s, NEW i, NEW kept
  PROVE  /\ Effect(c, InData(s)) = c
         /\ Effect(c, InPort(i)) = c
         /\ Effect(c, InAtr(kept)) = c
  BY DEF Effect, InData, InPort, InAtr

LEMMA NoColourIsOne == NoColour \in Colours
  BY DEF NoColour, Colours

LEMMA DacIndexed ==
  ASSUME NEW d \in DacType, NEW i \in 0..DacSize - 1
  PROVE  LET e == [d EXCEPT !.at = i, !.n = 0, !.got = NoColour] IN
         e \in DacType /\ e.at = i /\ e.n = 0 /\ e.col = d.col
  <1> DEFINE e == [d EXCEPT !.at = i, !.n = 0, !.got = NoColour]
  <1>1. d = [at |-> d.at, n |-> d.n, got |-> d.got, size |-> d.size, col |-> d.col]
    BY DEF DacType
  <1>2. PICK g : g = NoColour
    OBVIOUS
  <1>3. e = [d EXCEPT !.at = i, !.n = 0, !.got = g]
    BY <1>2
  <1>4. e = [at |-> i, n |-> 0, got |-> g, size |-> d.size, col |-> d.col]
    <2> HIDE DEF e
    <2> QED
      BY <1>1, <1>3
  <1>5. g \in Colours
    BY <1>2, NoColourIsOne
  <1> HIDE DEF e
  <1>6. e \in DacType /\ e.at = i /\ e.n = 0 /\ e.col = d.col
    BY <1>4, <1>5 DEF DacType
  <1> QED
    BY <1>6 DEF e

\* The DAC's counter and what a component does to it.
LEMMA DacSteps ==
  ASSUME NEW d \in DacType, NEW v \in Int
  PROVE  /\ DacStep(d) \in DacType /\ DacStep(d).col = d.col
         /\ DacTakes(d, v) \in DacType
         /\ d.n < 2 => /\ DacTakes(d, v).n = d.n + 1 /\ DacTakes(d, v).at = d.at
                       /\ DacTakes(d, v).col = d.col
         /\ \A i \in 0..DacSize - 1 : i # d.at => DacTakes(d, v).col[i] = d.col[i]
  <1> DEFINE put == [d EXCEPT !.got[d.n + 1] = v % 64]
             full == [put EXCEPT !.col[d.at] = put.got, !.got = NoColour]
  <1> USE DacIsLarge
  <1>1. ASSUME NEW x \in DacType
        PROVE  DacStep(x) \in DacType /\ DacStep(x).col = x.col /\ (x.n < 2 => DacStep(x).n = x.n + 1 /\ DacStep(x).at = x.at)
    <2> DEFINE n == (x.n + 1) % 3
               at == IF x.n = 2 THEN (x.at + 1) % x.size ELSE x.at
    <2>1. x.n \in 0..2 /\ x.at \in 0..DacSize - 1 /\ x.size = DacSize
      BY DEF DacType
    <2>2. n \in 0..2 /\ (x.n < 2 => n = x.n + 1 /\ at = x.at)
      BY <2>1
    <2>3. at \in 0..DacSize - 1
      BY <2>1
    <2>4. DacStep(x) = [x EXCEPT !.n = n, !.at = at]
      BY DEF DacStep
    <2> HIDE DEF n, at
    <2>5. DacStep(x) \in DacType /\ DacStep(x).col = x.col /\ DacStep(x).n = n /\ DacStep(x).at = at
      BY <2>2, <2>3, <2>4 DEF DacType
    <2> QED
      BY <2>2, <2>5
  <1>2. put \in DacType /\ put.n = d.n /\ put.at = d.at /\ put.col = d.col
    <2>1. d.n + 1 \in 1..3 /\ v % 64 \in 0..63
      BY DEF DacType
    <2>2. [d.got EXCEPT ![d.n + 1] = v % 64] \in Colours
      BY <2>1 DEF DacType, Colours
    <2>3. put = [d EXCEPT !.got = [d.got EXCEPT ![d.n + 1] = v % 64]]
      OBVIOUS
    <2> HIDE DEF put
    <2> QED
      BY <2>2, <2>3 DEF DacType
  <1>3. full \in DacType /\ full.col = [d.col EXCEPT ![d.at] = put.got]
    BY <1>2, NoColourIsOne DEF DacType
  <1> HIDE DEF put, full
  <1>4. DacTakes(d, v) = IF d.n < 2 THEN DacStep(put) ELSE DacStep(full)
    BY DEF DacTakes, put, full
  <1> HIDE DacIsLarge
  <1>5. CASE d.n < 2
    BY <1>1, <1>2, <1>4, <1>5
  <1>6. CASE ~(d.n < 2)
    <2>1. DacTakes(d, v) = DacStep(full)
      BY <1>4, <1>6
    <2>2. DacTakes(d, v) \in DacType /\ DacTakes(d, v).col = full.col
      BY <1>1, <1>3, <2>1
    <2>3. \A i \in 0..DacSize - 1 : i # d.at => full.col[i] = d.col[i]
      BY <1>3 DEF DacType
    <2> QED
      BY <1>1, <1>6, <2>2, <2>3
  <1> QED
    BY <1>5, <1>6
-----------------------------------------------------------------------------
(* The accesses of a call.                                                 *)

LEMMA CallFacts ==
  ASSUME NEW c \in CallSet
  PROVE  /\ c.do \in {"out", "in", "modify", "rgb", "dump",
                      "GIO_CMAP", "PIO_CMAP", "fontprog", "lines", "exit", "bad"}
         /\ c.do \in {"out", "in", "modify"} => c.set \in Sets /\ c.index \in Nat
         /\ c.do = "out" => c.data \in Byte
         /\ c.do = "modify" => c.keep \in Byte /\ c.or \in Byte
         /\ c.do \in {"rgb", "dump"} => c.set = "DAC" /\ c.index \in 0..DacSize - 1
         /\ c.do = "rgb" => c.rgb \in [1..3 -> Int]
         /\ c.do \notin {"out", "in", "modify", "rgb", "dump"} => c.set = "none"
  BY DEF CallSet

\* The elements of two sequences put together.
LEMMA Joined11 ==
  ASSUME NEW S, NEW s \in Seq(S), NEW t \in Seq(S), Len(s) = 1, Len(t) = 1
  PROVE  /\ Len(s \o t) = 2
         /\ (s \o t)[1] = s[1] /\ (s \o t)[2] = t[1]
  <1> DEFINE u == s \o t
             m == Len(s)
             n == Len(t)
  <1>1. Len(u) = m + n
    BY ConcatProperties
  <1>2. \A i \in 1..m + n : u[i] = IF i <= m THEN s[i] ELSE t[i - m]
    BY ConcatProperties
  <1>3. m = 1 /\ n = 1
    OBVIOUS
  <1>4. u = s \o t
    OBVIOUS
  <1> HIDE DEF u, m, n
  <1>5. Len(u) = 2
    BY <1>1, <1>3
  <1>6. /\ u[1] = s[1]
    BY <1>2, <1>3
  <1>7. /\ u[2] = t[1]
    BY <1>2, <1>3
  <1> QED
    BY <1>4, <1>5, <1>6, <1>7, Zenon

LEMMA Joined21 ==
  ASSUME NEW S, NEW s \in Seq(S), NEW t \in Seq(S), Len(s) = 2, Len(t) = 1
  PROVE  /\ Len(s \o t) = 3
         /\ (s \o t)[1] = s[1] /\ (s \o t)[2] = s[2] /\ (s \o t)[3] = t[1]
  <1> DEFINE u == s \o t
             m == Len(s)
             n == Len(t)
  <1>1. Len(u) = m + n
    BY ConcatProperties
  <1>2. \A i \in 1..m + n : u[i] = IF i <= m THEN s[i] ELSE t[i - m]
    BY ConcatProperties
  <1>3. m = 2 /\ n = 1
    OBVIOUS
  <1>4. u = s \o t
    OBVIOUS
  <1> HIDE DEF u, m, n
  <1>5. Len(u) = 3
    BY <1>1, <1>3
  <1>6. /\ u[1] = s[1] /\ u[2] = s[2]
    BY <1>2, <1>3
  <1>7. /\ u[3] = t[1]
    BY <1>2, <1>3
  <1> QED
    BY <1>4, <1>5, <1>6, <1>7, Zenon

LEMMA Joined66 ==
  ASSUME NEW S, NEW s \in Seq(S), NEW t \in Seq(S), Len(s) = 6, Len(t) = 6
  PROVE  /\ Len(s \o t) = 12
         /\ (s \o t)[1] = s[1] /\ (s \o t)[2] = s[2] /\ (s \o t)[3] = s[3]
         /\ (s \o t)[4] = s[4] /\ (s \o t)[5] = s[5] /\ (s \o t)[6] = s[6]
         /\ (s \o t)[7] = t[1] /\ (s \o t)[8] = t[2] /\ (s \o t)[9] = t[3]
         /\ (s \o t)[10] = t[4] /\ (s \o t)[11] = t[5] /\ (s \o t)[12] = t[6]
  <1> DEFINE u == s \o t
             m == Len(s)
             n == Len(t)
  <1>1. Len(u) = m + n
    BY ConcatProperties
  <1>2. \A i \in 1..m + n : u[i] = IF i <= m THEN s[i] ELSE t[i - m]
    BY ConcatProperties
  <1>3. m = 6 /\ n = 6
    OBVIOUS
  <1>4. u = s \o t
    OBVIOUS
  <1> HIDE DEF u, m, n
  <1>5. Len(u) = 12
    BY <1>1, <1>3
  <1>6. /\ u[1] = s[1] /\ u[2] = s[2] /\ u[3] = s[3]
        /\ u[4] = s[4] /\ u[5] = s[5] /\ u[6] = s[6]
    BY <1>2, <1>3
  <1>7. /\ u[7] = t[1] /\ u[8] = t[2] /\ u[9] = t[3]
        /\ u[10] = t[4] /\ u[11] = t[5] /\ u[12] = t[6]
    BY <1>2, <1>3
  <1> QED
    BY <1>4, <1>5, <1>6, <1>7, Zenon

\* The byte a call writes.
Value(p) == IF Current(p).do = "out" THEN Current(p).data
            ELSE Merge(Current(p), IF got[p] = <<>> THEN 0 ELSE got[p][1])

LEMMA PlainCodes ==
  ASSUME NEW p, NEW c, c = Current(p), NEW v, v = Value(p)
  PROVE  /\ c.do = "out" /\ c.set \in Indexed =>
              Len(Code(p)) = 1 /\ Code(p)[1] = Outw(c.set, c.index, v)
         /\ c.do = "in" /\ c.set \in Indexed =>
              Len(Code(p)) = 2 /\ Code(p)[1] = OutIndex(c.set, c.index) /\ Code(p)[2] = InData(c.set)
         /\ c.do = "modify" /\ c.set \in Indexed =>
              /\ Len(Code(p)) = 3 /\ Code(p)[1] = OutIndex(c.set, c.index)
              /\ Code(p)[2] = InData(c.set) /\ Code(p)[3] = Outw(c.set, c.index, v)
         /\ c.do = "out" /\ c.set = "PORT" =>
              Len(Code(p)) = 1 /\ Code(p)[1] = OutPort(c.index, v)
         /\ c.do = "in" /\ c.set = "PORT" =>
              Len(Code(p)) = 1 /\ Code(p)[1] = InPort(c.index)
         /\ c.do = "modify" /\ c.set = "PORT" =>
              Len(Code(p)) = 2 /\ Code(p)[1] = InPort(c.index) /\ Code(p)[2] = OutPort(c.index, v)
         /\ c.do = "rgb" =>
              /\ Len(Code(p)) = 4 /\ Code(p)[1] = DacIndex(c.index) /\ Code(p)[2] = OutDac(c.rgb[1])
              /\ Code(p)[3] = OutDac(c.rgb[2]) /\ Code(p)[4] = OutDac(c.rgb[3])
         /\ c.do = "dump" =>
              /\ Len(Code(p)) = 4 /\ Code(p)[1] = DacIndex(c.index)
              /\ Code(p)[2] = InDac /\ Code(p)[3] = InDac /\ Code(p)[4] = InDac
  <1>1. c.do = "out" => Code(p) = Outb(c.set, c.index, v)
    BY DEF Code, Value
  <1>2. c.do = "in" => Code(p) = Inb(c.set, c.index)
    BY DEF Code
  <1>3. c.do = "modify" => Code(p) = Inb(c.set, c.index) \o Outb(c.set, c.index, v)
    BY DEF Code, Value
  <1>4. c.set \in Indexed => /\ Outb(c.set, c.index, v) = <<Outw(c.set, c.index, v)>>
                             /\ Inb(c.set, c.index) = <<OutIndex(c.set, c.index), InData(c.set)>>
    BY DEF Outb, Inb, Indexed
  <1>5. c.set = "PORT" => /\ Outb(c.set, c.index, v) = <<OutPort(c.index, v)>>
                          /\ Inb(c.set, c.index) = <<InPort(c.index)>>
    BY DEF Outb, Inb, Indexed
  <1>6. c.do = "rgb" => Code(p) = WRITERGB(c.index, c.rgb)
    BY DEF Code
  <1>7. c.do = "dump" => Code(p) = ReadRGB(c.index)
    BY DEF Code
  <1>8. c.do = "modify" /\ c.set \in Indexed =>
              /\ Len(Code(p)) = 3 /\ Code(p)[1] = OutIndex(c.set, c.index)
              /\ Code(p)[2] = InData(c.set) /\ Code(p)[3] = Outw(c.set, c.index, v)
    <2> SUFFICES ASSUME c.do = "modify", c.set \in Indexed
                 PROVE  /\ Len(Code(p)) = 3 /\ Code(p)[1] = OutIndex(c.set, c.index)
                        /\ Code(p)[2] = InData(c.set) /\ Code(p)[3] = Outw(c.set, c.index, v)
      OBVIOUS
    <2> DEFINE a == OutIndex(c.set, c.index)
               b == InData(c.set)
               w == Outw(c.set, c.index, v)
               s == <<a, b>>
               t == <<w>>
               S == {a, b, w}
    <2>1. Code(p) = s \o t
      BY <1>3, <1>4
    <2> HIDE DEF a, b, w
    <2>2. /\ s \in Seq(S) /\ t \in Seq(S) /\ Len(s) = 2 /\ Len(t) = 1
          /\ s[1] = a /\ s[2] = b /\ t[1] = w
      OBVIOUS
    <2> HIDE DEF s, t, S
    <2> QED
      BY <2>1, <2>2, Joined21 DEF a, b, w
  <1>9. c.do = "modify" /\ c.set = "PORT" =>
              Len(Code(p)) = 2 /\ Code(p)[1] = InPort(c.index) /\ Code(p)[2] = OutPort(c.index, v)
    <2> SUFFICES ASSUME c.do = "modify", c.set = "PORT"
                 PROVE  Len(Code(p)) = 2 /\ Code(p)[1] = InPort(c.index) /\ Code(p)[2] = OutPort(c.index, v)
      OBVIOUS
    <2> DEFINE a == InPort(c.index)
               w == OutPort(c.index, v)
               s == <<a>>
               t == <<w>>
               S == {a, w}
    <2>1. Code(p) = s \o t
      BY <1>3, <1>5
    <2> HIDE DEF a, w
    <2>2. s \in Seq(S) /\ t \in Seq(S) /\ Len(s) = 1 /\ Len(t) = 1 /\ s[1] = a /\ t[1] = w
      OBVIOUS
    <2> HIDE DEF s, t, S
    <2> QED
      BY <2>1, <2>2, Joined11 DEF a, w
  <1>10. c.do = "rgb" =>
              /\ Len(Code(p)) = 4 /\ Code(p)[1] = DacIndex(c.index) /\ Code(p)[2] = OutDac(c.rgb[1])
              /\ Code(p)[3] = OutDac(c.rgb[2]) /\ Code(p)[4] = OutDac(c.rgb[3])
    BY <1>6 DEF WRITERGB
  <1>11. c.do = "dump" =>
              /\ Len(Code(p)) = 4 /\ Code(p)[1] = DacIndex(c.index)
              /\ Code(p)[2] = InDac /\ Code(p)[3] = InDac /\ Code(p)[4] = InDac
    BY <1>7 DEF ReadRGB
  <1> QED
    BY <1>1, <1>2, <1>4, <1>5, <1>8, <1>9, <1>10, <1>11

\* An attribute takes three accesses to read or write, and everything is done
\* twice; where a write begins:
AtrStart(c) == IF c.do = "out" THEN 0 ELSE 6

LEMMA AtrCodes ==
  ASSUME NEW p, NEW c, c = Current(p), c.set = "ATR", NEW v, v = Value(p), c.index \in 0..31
  PROVE  /\ c.do = "in" =>
              /\ Len(Code(p)) = 6 /\ Code(p)[1] = InStatus /\ Code(p)[2] = OutAtr(c.index)
              /\ Code(p)[3] = InAtr(TRUE) /\ Code(p)[4] = InStatus
              /\ Code(p)[5] = OutAtr(c.index + 32) /\ Code(p)[6] = InAtr(FALSE)
         /\ c.do = "out" =>
              /\ Len(Code(p)) = 6 /\ Code(p)[1] = InStatus /\ Code(p)[2] = OutAtr(c.index)
              /\ Code(p)[3] = OutAtr(v) /\ Code(p)[4] = InStatus
              /\ Code(p)[5] = OutAtr(c.index + 32) /\ Code(p)[6] = OutAtr(v)
         /\ c.do = "modify" =>
              /\ Len(Code(p)) = 12 /\ Code(p)[1] = InStatus /\ Code(p)[2] = OutAtr(c.index)
              /\ Code(p)[3] = InAtr(TRUE) /\ Code(p)[4] = InStatus
              /\ Code(p)[5] = OutAtr(c.index + 32) /\ Code(p)[6] = InAtr(FALSE)
              /\ Code(p)[7] = InStatus /\ Code(p)[8] = OutAtr(c.index)
              /\ Code(p)[9] = OutAtr(v) /\ Code(p)[10] = InStatus
              /\ Code(p)[11] = OutAtr(c.index + 32) /\ Code(p)[12] = OutAtr(v)
  <1>1. c.index % 32 = c.index
    OBVIOUS
  <1>2. /\ Outb(c.set, c.index, v) = <<InStatus, OutAtr(c.index), OutAtr(v),
                                       InStatus, OutAtr(c.index + 32), OutAtr(v)>>
        /\ Inb(c.set, c.index) = <<InStatus, OutAtr(c.index), InAtr(TRUE),
                                   InStatus, OutAtr(c.index + 32), InAtr(FALSE)>>
    BY <1>1 DEF Outb, Inb, Indexed, Outb_ATR_CTL, inb_ATR_CTL
  <1>3. c.do = "out" => Code(p) = Outb(c.set, c.index, v)
    BY DEF Code, Value
  <1>4. c.do = "in" => Code(p) = Inb(c.set, c.index)
    BY DEF Code
  <1>5. c.do = "modify" => Code(p) = Inb(c.set, c.index) \o Outb(c.set, c.index, v)
    BY DEF Code, Value
  <1>6. ASSUME c.do = "modify"
        PROVE  /\ Len(Code(p)) = 12 /\ Code(p)[1] = InStatus /\ Code(p)[2] = OutAtr(c.index)
               /\ Code(p)[3] = InAtr(TRUE) /\ Code(p)[4] = InStatus
               /\ Code(p)[5] = OutAtr(c.index + 32) /\ Code(p)[6] = InAtr(FALSE)
               /\ Code(p)[7] = InStatus /\ Code(p)[8] = OutAtr(c.index)
               /\ Code(p)[9] = OutAtr(v) /\ Code(p)[10] = InStatus
               /\ Code(p)[11] = OutAtr(c.index + 32) /\ Code(p)[12] = OutAtr(v)
    <2> DEFINE status == InStatus
               off == OutAtr(c.index)
               on == OutAtr(c.index + 32)
               write == OutAtr(v)
               read == InAtr(TRUE)
               reset == InAtr(FALSE)
               s == <<status, off, read, status, on, reset>>
               t == <<status, off, write, status, on, write>>
               S == {status, off, on, write, read, reset}
    <2>1. Code(p) = s \o t
      BY <1>2, <1>5, <1>6
    <2> HIDE DEF status, off, on, write, read, reset
    <2>2. /\ s \in Seq(S) /\ t \in Seq(S) /\ Len(s) = 6 /\ Len(t) = 6
      OBVIOUS
    <2>3. /\ s[1] = status /\ s[2] = off /\ s[3] = read /\ s[4] = status /\ s[5] = on /\ s[6] = reset
          /\ t[1] = status /\ t[2] = off /\ t[3] = write /\ t[4] = status /\ t[5] = on /\ t[6] = write
      OBVIOUS
    <2> HIDE DEF s, t, S
    <2> QED
      <3>1. /\ Len(s \o t) = 12
            /\ (s \o t)[1] = s[1] /\ (s \o t)[2] = s[2] /\ (s \o t)[3] = s[3]
            /\ (s \o t)[4] = s[4] /\ (s \o t)[5] = s[5] /\ (s \o t)[6] = s[6]
            /\ (s \o t)[7] = t[1] /\ (s \o t)[8] = t[2] /\ (s \o t)[9] = t[3]
            /\ (s \o t)[10] = t[4] /\ (s \o t)[11] = t[5] /\ (s \o t)[12] = t[6]
        BY <2>2, Joined66
      <3> QED
        BY <2>1, <2>3, <3>1, Zenon DEF status, off, on, write, read, reset
  <1>7. c.do = "in" =>
              /\ Len(Code(p)) = 6 /\ Code(p)[1] = InStatus /\ Code(p)[2] = OutAtr(c.index)
              /\ Code(p)[3] = InAtr(TRUE) /\ Code(p)[4] = InStatus
              /\ Code(p)[5] = OutAtr(c.index + 32) /\ Code(p)[6] = InAtr(FALSE)
    <2> DEFINE read == InAtr(TRUE)
               reset == InAtr(FALSE)
               s == <<InStatus, OutAtr(c.index), read, InStatus, OutAtr(c.index + 32), reset>>
    <2>1. c.do = "in" => Code(p) = s
      BY <1>2, <1>4
    <2> HIDE DEF read, reset
    <2>2. /\ Len(s) = 6 /\ s[1] = InStatus /\ s[2] = OutAtr(c.index) /\ s[3] = read
          /\ s[4] = InStatus /\ s[5] = OutAtr(c.index + 32) /\ s[6] = reset
      OBVIOUS
    <2> HIDE DEF s
    <2> QED
      BY <2>1, <2>2, Zenon DEF read, reset
  <1>8. c.do = "out" =>
              /\ Len(Code(p)) = 6 /\ Code(p)[1] = InStatus /\ Code(p)[2] = OutAtr(c.index)
              /\ Code(p)[3] = OutAtr(v) /\ Code(p)[4] = InStatus
              /\ Code(p)[5] = OutAtr(c.index + 32) /\ Code(p)[6] = OutAtr(v)
    BY <1>2, <1>3
  <1> QED
    BY <1>6, <1>7, <1>8
-----------------------------------------------------------------------------
(* The calls the programs are made of name registers the card has.         *)

GoodCall == {c \in CallSet : c.do \in {"out", "in", "modify"} => c.index \in Registers[c.set]}

LEMMA UsedRegisters ==
  ASSUME NEW c \in UsedCalls, c.set \in Sets, c.set # "ATR"
  PROVE  c.index \in Registers[c.set]
  BY DEF Registers, Sets, Indexed

LEMMA KernelRegisters ==
  /\ CursorReg \in Registers["CRTC"] /\ CursorReg \in Nat /\ 0 \in Registers["CRTC"]
  /\ 0 \in Registers["SEQ"] /\ 0 \in Registers["GR"] /\ 0 \in Registers["EXT"]
  BY DEF Registers, Sets, Indexed, CursorReg

LEMMA ScreenOnIsGood == SCREEN_ON \in GoodCall
  <1>1. /\ SCREEN_ON = [do |-> "modify", set |-> "SEQ", index |-> 1, keep |-> 223, or |-> 0]
    BY Powers DEF SCREEN_ON, Outbit, Modify
  <1>2. SCREEN_ON \in CallSet
    BY <1>1 DEF CallSet, Sets, Indexed, Byte
  <1>3. SCREEN_ON \in UsedCalls
    BY DEF UsedCalls
  <1>4. SCREEN_ON.set = "SEQ" /\ "SEQ" \in Sets
    BY <1>1 DEF Sets, Indexed
  <1>5. SCREEN_ON.index \in Registers[SCREEN_ON.set]
    BY <1>3, <1>4, UsedRegisters
  <1> QED
    BY <1>2, <1>5 DEF GoodCall

LEMMA JobsAreGood ==
  ASSUME NEW j \in Jobs, NEW p \in Programs
  PROVE  j.calls[p] \in Seq(GoodCall)
  <1>1. j.calls[p] \in Seq(CallSet)
    BY CallsAssumption
  <1>2. ASSUME NEW i \in DOMAIN j.calls[p] PROVE j.calls[p][i] \in GoodCall
    <2> DEFINE c == j.calls[p][i]
    <2>1. c \in ToSet(j.calls[p])
      BY <1>2 DEF ToSet
    <2>2. c \in UsedCalls
      BY <2>1 DEF UsedCalls
    <2>3. c \in CallSet
      BY <1>1
    <2>4. c.set = "ATR" => c.index \in 0..31
      BY <2>1, CallsAssumption
    <2> HIDE DEF c
    <2>5. c.do \in {"out", "in", "modify"} => c.set \in Sets
      BY <2>3, CallFacts
    <2>6. c.do \in {"out", "in", "modify"} => c.index \in Registers[c.set]
      BY <2>2, <2>4, <2>5, UsedRegisters, AtrRegisters
    <2> QED
      BY <2>3, <2>6 DEF GoodCall, c
  <1> DEFINE s == j.calls[p]
  <1>3. s = [i \in 1..Len(s) |-> s[i]] /\ Len(s) \in Nat /\ DOMAIN s = 1..Len(s)
    BY <1>1
  <1>4. \A i \in 1..Len(s) : s[i] \in GoodCall
    BY <1>2, <1>3
  <1> HIDE DEF s
  <1>5. s \in Seq(GoodCall)
    BY <1>3, <1>4
  <1> QED
    BY <1>5 DEF s

LEMMA GoodCallFacts ==
  ASSUME NEW c \in GoodCall
  PROVE  /\ c \in CallSet
         /\ c.do \in {"out", "in", "modify"} => c.set \in Sets /\ c.index \in Registers[c.set] /\ c.index \in Nat
         /\ c.set \in Indexed \cup {"ATR", "PORT"} => c.do \in {"out", "in", "modify"}
         /\ c.set = "DAC" => c.do \in {"rgb", "dump"}
         /\ c.do \in {"rgb", "dump"} => c.set = "DAC" /\ c.index \in 0..DacSize - 1
         /\ c.set = "none" <=> c.do \notin {"out", "in", "modify", "rgb", "dump"}
         /\ c.set \in Indexed \cup {"ATR", "PORT", "DAC", "none"}
         /\ c.set = "ATR" => c.index \in 0..31
  BY CallFacts, AtrRegisters DEF GoodCall, Sets, Indexed
-----------------------------------------------------------------------------
(* What each program's next access is.                                     *)

\* A program and its place in its call fit together.
Fits(p) ==
  /\ calls[p] \in Seq(GoodCall) /\ got[p] \in Seq(Byte) /\ pc[p] \in Nat \ {0} /\ hits[p] \in Nat
  /\ pc[p] = 1 => got[p] = <<>> /\ hits[p] = 0
  /\ UsesPorts(p) => pc[p] <= Len(Code(p))
  /\ UsesPorts(p) /\ Current(p).do = "dump" /\ pc[p] > 1 => Len(got[p]) = pc[p] - 2

LEMMA CurrentIsGood ==
  ASSUME NEW p, Fits(p), Running(p)
  PROVE  Current(p) \in GoodCall
  BY DEF Fits, Running, Current

LEMMA FirstByte ==
  ASSUME NEW s \in Seq(Byte)
  PROVE  (IF s = <<>> THEN 0 ELSE s[1]) \in Byte
  <1>1. s # <<>> => 1 \in DOMAIN s
    OBVIOUS
  <1>2. s # <<>> => s[1] \in Byte
    BY <1>1
  <1>3. 0 \in Byte
    BY DEF Byte
  <1> QED
    BY <1>2, <1>3

LEMMA ValueIsByte ==
  ASSUME NEW p, Fits(p), UsesPorts(p), Current(p).do \in {"out", "modify"}
  PROVE  Value(p) \in Byte
  <1> DEFINE c == Current(p)
             b == IF got[p] = <<>> THEN 0 ELSE got[p][1]
  <1>1. c \in GoodCall
    BY CurrentIsGood DEF UsesPorts
  <1>2. b \in Byte
    BY FirstByte DEF Fits
  <1>3. Value(p) = IF c.do = "out" THEN c.data ELSE Merge(c, b)
    BY DEF Value
  <1> HIDE DEF c, b
  <1>4. CASE c.do = "out"
    BY <1>1, <1>3, <1>4, CallFacts DEF GoodCall
  <1>5. CASE c.do = "modify"
    <2>1. c.keep \in Byte /\ c.or \in Byte
      BY <1>1, <1>5, CallFacts DEF GoodCall
    <2>2. Merge(c, b) \in Byte
      BY <1>2, <2>1, MergedBits
    <2> QED
      BY <1>3, <1>5, <2>2
  <1> QED
    BY <1>4, <1>5 DEF c

LEMMA IndexedAccess ==
  ASSUME NEW p, Fits(p), UsesPorts(p), Current(p).set \in Indexed
  PROVE  LET c == Current(p)
             a == Code(p)[pc[p]]
         IN  \/ /\ c.do \in {"out", "modify"} /\ Finishes(p)
                /\ a = Outw(c.set, c.index, Value(p))
                /\ c.do = "out" => pc[p] = 1
                /\ c.do = "modify" => pc[p] = 3
             \/ /\ c.do \in {"in", "modify"} /\ ~Finishes(p) /\ pc[p] = 1
                /\ a = OutIndex(c.set, c.index)
             \/ /\ c.do \in {"in", "modify"} /\ pc[p] = 2 /\ (Finishes(p) <=> c.do = "in")
                /\ a = InData(c.set)
  <1> DEFINE c == Current(p)
             v == Value(p)
             n == Len(Code(p))
             k == pc[p]
             a == Code(p)[k]
  <1>1. c.do \in {"out", "in", "modify"}
    BY CurrentIsGood, GoodCallFacts DEF UsesPorts
  <1>2. k \in Nat \ {0} /\ k <= n
    BY DEF Fits
  <1>3. Finishes(p) <=> k = n
    BY DEF Finishes
  <1>4. CASE c.do = "out"
    <2>1. n = 1 /\ Code(p)[1] = Outw(c.set, c.index, v)
      BY <1>4, PlainCodes
    <2> HIDE DEF n, v, c
    <2> QED
      BY <1>2, <1>3, <1>4, <2>1 DEF c, v
  <1>5. CASE c.do = "in"
    <2>1. n = 2 /\ Code(p)[1] = OutIndex(c.set, c.index) /\ Code(p)[2] = InData(c.set)
      BY <1>5, PlainCodes
    <2> HIDE DEF n, c
    <2> QED
      BY <1>2, <1>3, <1>5, <2>1 DEF c
  <1>6. CASE c.do = "modify"
    <2>1. /\ n = 3 /\ Code(p)[1] = OutIndex(c.set, c.index)
          /\ Code(p)[2] = InData(c.set) /\ Code(p)[3] = Outw(c.set, c.index, v)
      BY <1>6, PlainCodes
    <2> HIDE DEF n, v, c
    <2> QED
      BY <1>2, <1>3, <1>6, <2>1 DEF c, v
  <1> QED
    BY <1>1, <1>4, <1>5, <1>6

LEMMA PortAccess ==
  ASSUME NEW p, Fits(p), UsesPorts(p), Current(p).set = "PORT"
  PROVE  LET c == Current(p)
             a == Code(p)[pc[p]]
         IN  \/ /\ c.do \in {"out", "modify"} /\ Finishes(p) /\ a = OutPort(c.index, Value(p))
                /\ c.do = "out" => pc[p] = 1
                /\ c.do = "modify" => pc[p] = 2
             \/ /\ c.do \in {"in", "modify"} /\ pc[p] = 1 /\ (Finishes(p) <=> c.do = "in")
                /\ a = InPort(c.index)
  <1> DEFINE c == Current(p)
             v == Value(p)
             n == Len(Code(p))
             k == pc[p]
  <1>1. c.do \in {"out", "in", "modify"}
    BY CurrentIsGood, GoodCallFacts DEF UsesPorts
  <1>2. k \in Nat \ {0} /\ k <= n
    BY DEF Fits
  <1>3. Finishes(p) <=> k = n
    BY DEF Finishes
  <1>4. CASE c.do = "out"
    <2>1. n = 1 /\ Code(p)[1] = OutPort(c.index, v)
      BY <1>4, PlainCodes
    <2> HIDE DEF n, v, c
    <2> QED
      BY <1>2, <1>3, <1>4, <2>1 DEF c, v
  <1>5. CASE c.do = "in"
    <2>1. n = 1 /\ Code(p)[1] = InPort(c.index)
      BY <1>5, PlainCodes
    <2> HIDE DEF n, c
    <2> QED
      BY <1>2, <1>3, <1>5, <2>1 DEF c
  <1>6. CASE c.do = "modify"
    <2>1. n = 2 /\ Code(p)[1] = InPort(c.index) /\ Code(p)[2] = OutPort(c.index, v)
      BY <1>6, PlainCodes
    <2> HIDE DEF n, v, c
    <2> QED
      BY <1>2, <1>3, <1>6, <2>1 DEF c, v
  <1> QED
    BY <1>1, <1>4, <1>5, <1>6

LEMMA AtrAccess ==
  ASSUME NEW p, Fits(p), UsesPorts(p), Current(p).set = "ATR"
  PROVE  LET c == Current(p)
             k == pc[p]
             w == AtrStart(c)
             a == Code(p)[k]
         IN  /\ c.do \in {"out", "in", "modify"} /\ c.index \in 0..31
             /\ k \in 1..12 /\ (c.do # "modify" => k <= 6)
             /\ k \in {1, 4, 7, 10} => a = InStatus
             /\ k \in {2, 8} => a = OutAtr(c.index)
             /\ k \in {5, 11} => a = OutAtr(c.index + 32)
             /\ c.do \in {"in", "modify"} /\ k = 3 => a = InAtr(TRUE)
             /\ c.do \in {"in", "modify"} /\ k = 6 => a = InAtr(FALSE)
             /\ c.do \in {"out", "modify"} /\ k \in {w + 3, w + 6} => a = OutAtr(Value(p))
             /\ Finishes(p) <=> k = IF c.do = "modify" THEN 12 ELSE 6
  <1> DEFINE c == Current(p)
             v == Value(p)
             n == Len(Code(p))
             k == pc[p]
             a == Code(p)[k]
  <1>1. c.do \in {"out", "in", "modify"} /\ c.index \in 0..31
    BY CurrentIsGood, GoodCallFacts DEF UsesPorts
  <1>2. k \in Nat \ {0} /\ k <= n
    BY DEF Fits
  <1>3. Finishes(p) <=> k = n
    BY DEF Finishes
  <1>4. CASE c.do = "in"
    <2>1. /\ n = 6 /\ Code(p)[1] = InStatus /\ Code(p)[2] = OutAtr(c.index)
          /\ Code(p)[3] = InAtr(TRUE) /\ Code(p)[4] = InStatus
          /\ Code(p)[5] = OutAtr(c.index + 32) /\ Code(p)[6] = InAtr(FALSE)
      BY <1>1, <1>4, AtrCodes
    <2> DEFINE read == InAtr(TRUE)
               reset == InAtr(FALSE)
    <2>2. Code(p)[3] = read /\ Code(p)[6] = reset
      BY <2>1, Zenon
    <2>3. /\ n = 6 /\ Code(p)[1] = InStatus /\ Code(p)[2] = OutAtr(c.index)
          /\ Code(p)[4] = InStatus /\ Code(p)[5] = OutAtr(c.index + 32)
      BY <2>1, Zenon
    <2> HIDE DEF n, c, read, reset
    <2>4. /\ k \in 1..6
          /\ k \in {1, 4, 7, 10} => a = InStatus
          /\ k \in {2, 8} => a = OutAtr(c.index)
          /\ k \in {5, 11} => a = OutAtr(c.index + 32)
          /\ k = 3 => a = read
          /\ k = 6 => a = reset
          /\ Finishes(p) <=> k = 6
      BY <1>2, <1>3, <2>2, <2>3
    <2>5. /\ k = 3 => a = InAtr(TRUE)
          /\ k = 6 => a = InAtr(FALSE)
      BY <2>4, Zenon DEF read, reset
    <2> HIDE DEF a
    <2>6. c.do \notin {"out", "modify"} /\ c.do # "modify" /\ k \in 1..12 /\ k <= 6
      BY <1>4, <2>4
    <2> QED
      BY <1>1, <1>4, <2>4, <2>5, <2>6, Zenon DEF c, a
  <1>5. CASE c.do = "out"
    <2>1. /\ n = 6 /\ Code(p)[1] = InStatus /\ Code(p)[2] = OutAtr(c.index)
          /\ Code(p)[3] = OutAtr(v) /\ Code(p)[4] = InStatus
          /\ Code(p)[5] = OutAtr(c.index + 32) /\ Code(p)[6] = OutAtr(v)
      BY <1>1, <1>5, AtrCodes, ZenonT(60)
    <2> HIDE DEF n, c, v
    <2>4. /\ k \in 1..6
          /\ k \in {1, 4, 7, 10} => a = InStatus
          /\ k \in {2, 8} => a = OutAtr(c.index)
          /\ k \in {5, 11} => a = OutAtr(c.index + 32)
          /\ k \in {3, 6} => a = OutAtr(v)
          /\ Finishes(p) <=> k = 6
      BY <1>2, <1>3, <2>1
    <2> HIDE DEF a
    <2>5. AtrStart(c) + 3 = 3 /\ AtrStart(c) + 6 = 6
      BY <1>5 DEF AtrStart
    <2>6. c.do \notin {"in", "modify"} /\ c.do # "modify" /\ k \in 1..12 /\ k <= 6
      BY <1>5, <2>4
    <2>7. k \in {AtrStart(c) + 3, AtrStart(c) + 6} => k \in {3, 6}
      BY <2>5
    <2> QED
      BY <1>1, <1>5, <2>4, <2>6, <2>7, Zenon DEF c, a, v
  <1>6. CASE c.do = "modify"
    <2>1. /\ n = 12 /\ Code(p)[1] = InStatus /\ Code(p)[2] = OutAtr(c.index)
          /\ Code(p)[3] = InAtr(TRUE) /\ Code(p)[4] = InStatus
          /\ Code(p)[5] = OutAtr(c.index + 32) /\ Code(p)[6] = InAtr(FALSE)
          /\ Code(p)[7] = InStatus /\ Code(p)[8] = OutAtr(c.index)
          /\ Code(p)[9] = OutAtr(v) /\ Code(p)[10] = InStatus
          /\ Code(p)[11] = OutAtr(c.index + 32) /\ Code(p)[12] = OutAtr(v)
      BY <1>1, <1>6, AtrCodes
    <2> DEFINE read == InAtr(TRUE)
               reset == InAtr(FALSE)
    <2>2. Code(p)[3] = read /\ Code(p)[6] = reset
      BY <2>1, Zenon
    <2>3. /\ n = 12 /\ Code(p)[1] = InStatus /\ Code(p)[2] = OutAtr(c.index)
          /\ Code(p)[4] = InStatus /\ Code(p)[5] = OutAtr(c.index + 32)
          /\ Code(p)[7] = InStatus /\ Code(p)[8] = OutAtr(c.index)
          /\ Code(p)[9] = OutAtr(v) /\ Code(p)[10] = InStatus
          /\ Code(p)[11] = OutAtr(c.index + 32) /\ Code(p)[12] = OutAtr(v)
      BY <2>1, Zenon
    <2> HIDE DEF n, c, v, read, reset
    <2>4. /\ k \in 1..12
          /\ k \in {1, 4, 7, 10} => a = InStatus
          /\ k \in {2, 8} => a = OutAtr(c.index)
          /\ k \in {5, 11} => a = OutAtr(c.index + 32)
          /\ k = 3 => a = read
          /\ k = 6 => a = reset
          /\ k \in {9, 12} => a = OutAtr(v)
          /\ Finishes(p) <=> k = 12
      BY <1>2, <1>3, <2>2, <2>3
    <2>5. /\ k = 3 => a = InAtr(TRUE)
          /\ k = 6 => a = InAtr(FALSE)
      BY <2>4, Zenon DEF read, reset
    <2> HIDE DEF a
    <2>6. AtrStart(c) + 3 = 9 /\ AtrStart(c) + 6 = 12
      BY <1>6 DEF AtrStart
    <2>7. k \in {AtrStart(c) + 3, AtrStart(c) + 6} => k \in {9, 12}
      BY <2>6
    <2> QED
      BY <1>1, <1>6, <2>4, <2>5, <2>7, Zenon DEF c, a, v
  <1> QED
    BY <1>1, <1>4, <1>5, <1>6, Zenon

LEMMA DacAccess ==
  ASSUME NEW p, Fits(p), UsesPorts(p), Current(p).set = "DAC"
  PROVE  LET c == Current(p)
             k == pc[p]
             a == Code(p)[k]
         IN  /\ c.do \in {"rgb", "dump"} /\ c.index \in 0..DacSize - 1
             /\ k \in 1..4 /\ (Finishes(p) <=> k = 4)
             /\ k = 1 => a = DacIndex(c.index)
             /\ c.do = "rgb" => c.rgb \in [1..3 -> Int]
             /\ c.do = "rgb" /\ k > 1 => a = OutDac(c.rgb[k - 1])
             /\ c.do = "dump" /\ k > 1 => a = InDac
  <1> DEFINE c == Current(p)
             n == Len(Code(p))
             k == pc[p]
             a == Code(p)[k]
  <1>1. c \in GoodCall
    BY CurrentIsGood DEF UsesPorts
  <1>2. k \in Nat \ {0} /\ k <= n
    BY DEF Fits
  <1>3. Finishes(p) <=> k = n
    BY DEF Finishes
  <1>4. /\ c.do \in {"rgb", "dump"} /\ c.index \in 0..DacSize - 1
        /\ c.do = "rgb" => c.rgb \in [1..3 -> Int]
    BY <1>1, GoodCallFacts, CallFacts
  <1>5. CASE c.do = "rgb"
    <2>1. /\ n = 4 /\ Code(p)[1] = DacIndex(c.index) /\ Code(p)[2] = OutDac(c.rgb[1])
          /\ Code(p)[3] = OutDac(c.rgb[2]) /\ Code(p)[4] = OutDac(c.rgb[3])
      BY <1>5, PlainCodes
    <2> HIDE DEF n, c
    <2>2. k = 1 \/ k = 2 \/ k = 3 \/ k = 4
      BY <1>2, <2>1
    <2>3. k > 1 => a = OutDac(c.rgb[k - 1])
      BY <2>1, <2>2
    <2> QED
      BY <1>2, <1>3, <1>4, <1>5, <2>1, <2>2, <2>3 DEF c
  <1>6. CASE c.do = "dump"
    <2>1. /\ n = 4 /\ Code(p)[1] = DacIndex(c.index)
          /\ Code(p)[2] = InDac /\ Code(p)[3] = InDac /\ Code(p)[4] = InDac
      BY <1>6, PlainCodes
    <2> HIDE DEF n, c
    <2>2. k = 1 \/ k = 2 \/ k = 3 \/ k = 4
      BY <1>2, <2>1
    <2> QED
      BY <1>2, <1>3, <1>4, <1>6, <2>1, <2>2 DEF c
  <1> QED
    BY <1>4, <1>5, <1>6

(***************************************************************************)
(* What every access leaves of the card, and what it reads.                *)
(***************************************************************************)
LEMMA CardParts ==
  ASSUME NEW e, NEW x, NEW r, NEW d, IsCard(e, x, r, d), e.flip \in BOOLEAN,
         IxOK(x), RegOK(r), d \in DacType
  PROVE  CardOK(e)
  BY DEF CardOK, IsCard

LEMMA IxSet ==
  ASSUME NEW x, IxOK(x), NEW s \in Indexed, NEW i \in Registers[s], i \in Nat
  PROVE  IxOK([x EXCEPT ![s] = i])
  BY DEF IxOK, Sets, Indexed

LEMMA RegSet ==
  ASSUME NEW r, RegOK(r), NEW s \in Sets, NEW i, NEW b \in Byte
  PROVE  RegOK([r EXCEPT ![s] = [r[s] EXCEPT ![i] = b]])
  <1> DEFINE f == [r[s] EXCEPT ![i] = b]
  <1>1. f \in [Registers[s] -> Byte]
    BY DEF RegOK
  <1> HIDE DEF f
  <1>2. RegOK([r EXCEPT ![s] = f])
    BY <1>1 DEF RegOK
  <1> QED
    BY <1>2 DEF f

LEMMA AccessKeepsCard ==
  ASSUME NEW p, Fits(p), UsesPorts(p), CardOK(card)
  PROVE  /\ CardOK(Effect(card, Code(p)[pc[p]]))
         /\ Reads(card, Code(p)[pc[p]]) \in Seq(Byte)
  <1> DEFINE c == Current(p)
             k == pc[p]
             v == Value(p)
             a == Code(p)[k]
             e == Effect(card, a)
  <1>1. /\ c \in GoodCall
        /\ c.set \in Indexed \cup {"ATR", "PORT", "DAC"}
    BY CurrentIsGood, GoodCallFacts DEF UsesPorts
  <1>2. IxOK(card.ix) /\ RegOK(card.reg) /\ card.flip \in BOOLEAN /\ card.dac \in DacType
    BY DEF CardOK
  <1>3. CASE c.set \in Indexed
    <2>1. c.index \in Registers[c.set] /\ c.index \in Nat /\ c.set \in Sets
      BY <1>1, <1>3, GoodCallFacts DEF Sets
    <2>2. CASE c.do \in {"out", "modify"} /\ a = Outw(c.set, c.index, v)
      <3>1. v \in Byte
        BY <2>2, ValueIsByte
      <3>2. /\ IsCard(e, [card.ix EXCEPT ![c.set] = c.index],
                      [card.reg EXCEPT ![c.set] = [card.reg[c.set] EXCEPT ![c.index] = v]], card.dac)
            /\ e.flip = card.flip
        <4> DEFINE s == c.set
                   i == c.index
                   f == Effect(card, Outw(s, i, v))
                   ix == [card.ix EXCEPT ![s] = i]
                   reg == [card.reg EXCEPT ![s] = [card.reg[s] EXCEPT ![i] = v]]
        <4>1. e = f /\ s \in Indexed
          BY <1>3, <2>2
        <4>4. /\ f = Effect(card, Outw(s, i, v))
              /\ ix = [card.ix EXCEPT ![s] = i]
              /\ reg = [card.reg EXCEPT ![s] = [card.reg[s] EXCEPT ![i] = v]]
          OBVIOUS
        <4> HIDE DEF v, c, e, a, s, i, f, ix, reg
        <4>2. IsCard(f, ix, reg, card.dac) /\ f.flip = card.flip
          BY <4>1, <4>4, OutwEffect
        <4>3. IsCard(e, ix, reg, card.dac) /\ e.flip = card.flip
          BY <4>1, <4>2
        <4> QED
          BY <4>3 DEF ix, reg, s, i
      <3>3. IxOK([card.ix EXCEPT ![c.set] = c.index])
        BY <1>2, <1>3, <2>1, IxSet
      <3>4. RegOK([card.reg EXCEPT ![c.set] = [card.reg[c.set] EXCEPT ![c.index] = v]])
        BY <1>2, <2>1, <3>1, RegSet
      <3>5. Reads(card, a) = <<>>
        BY <2>2 DEF Reads, Outw
      <3> HIDE DEF e, a, c, v
      <3>6. CardOK(e)
        BY <1>2, <3>2, <3>3, <3>4, CardParts
      <3> QED
        BY <3>5, <3>6 DEF e, a
    <2>3. CASE a = OutIndex(c.set, c.index)
      <3>1. /\ IsCard(e, [card.ix EXCEPT ![c.set] = c.index], card.reg, card.dac)
            /\ e.flip = card.flip
        BY <1>3, <2>3, IndexEffect
      <3>2. IxOK([card.ix EXCEPT ![c.set] = c.index])
        BY <1>2, <1>3, <2>1, IxSet
      <3>3. Reads(card, a) = <<>>
        BY <2>3 DEF Reads, OutIndex
      <3> HIDE DEF e, a, c
      <3>4. CardOK(e)
        BY <1>2, <3>1, <3>2, CardParts
      <3> QED
        BY <3>3, <3>4 DEF e, a
    <2>4. CASE a = InData(c.set)
      <3>1. e = card
        BY <2>4, ReadEffect
      <3>2. Reads(card, a) = <<card.reg[c.set][card.ix[c.set]]>>
        BY <2>4 DEF Reads, InData
      <3>3. card.reg[c.set][card.ix[c.set]] \in Byte
        BY <1>2, <1>3, <2>1 DEF IxOK, RegOK
      <3> QED
        BY <3>1, <3>2, <3>3
    <2> QED
      BY <1>3, <2>2, <2>3, <2>4, IndexedAccess
  <1>4. CASE c.set = "PORT"
    <2>1. c.index \in Registers["PORT"] /\ "PORT" \in Sets
      BY <1>1, <1>4, GoodCallFacts DEF Sets
    <2>2. CASE c.do \in {"out", "modify"} /\ a = OutPort(c.index, v)
      <3>1. v \in Byte
        BY <2>2, ValueIsByte
      <3>2. /\ IsCard(e, card.ix, [card.reg EXCEPT !["PORT"] = [card.reg["PORT"] EXCEPT ![c.index] = v]],
                      card.dac)
            /\ e.flip = card.flip
        <4>1. e = Effect(card, OutPort(c.index, v))
          BY <2>2
        <4> HIDE DEF v, c, e, a
        <4> QED
          BY <4>1, OutPortEffect, Zenon
      <3>3. RegOK([card.reg EXCEPT !["PORT"] = [card.reg["PORT"] EXCEPT ![c.index] = v]])
        BY <1>2, <2>1, <3>1, RegSet
      <3>4. Reads(card, a) = <<>>
        BY <2>2 DEF Reads, OutPort
      <3> HIDE DEF e, a, c, v
      <3>5. CardOK(e)
        BY <1>2, <3>2, <3>3, CardParts
      <3> QED
        BY <3>4, <3>5 DEF e, a
    <2>3. CASE a = InPort(c.index)
      <3>1. e = card
        BY <2>3, ReadEffect
      <3>2. Reads(card, a) = <<card.reg["PORT"][c.index]>>
        BY <2>3 DEF Reads, InPort
      <3>3. card.reg["PORT"][c.index] \in Byte
        BY <1>2, <2>1 DEF RegOK
      <3> QED
        BY <3>1, <3>2, <3>3
    <2> QED
      BY <1>4, <2>2, <2>3, PortAccess
  <1>5. CASE c.set = "ATR"
    <2>1. /\ c.do \in {"out", "in", "modify"} /\ c.index \in 0..31
          /\ k \in 1..12 /\ (c.do # "modify" => k <= 6)
          /\ k \in {1, 4, 7, 10} => a = InStatus
          /\ k \in {2, 8} => a = OutAtr(c.index)
          /\ k \in {5, 11} => a = OutAtr(c.index + 32)
          /\ c.do \in {"in", "modify"} /\ k = 3 => a = InAtr(TRUE)
          /\ c.do \in {"in", "modify"} /\ k = 6 => a = InAtr(FALSE)
          /\ c.do \in {"out", "modify"} /\ k \in {AtrStart(c) + 3, AtrStart(c) + 6} => a = OutAtr(v)
      BY <1>5, AtrAccess
    <2>2. CASE a = InStatus
      <3>1. IsCard(e, card.ix, card.reg, card.dac) /\ e.flip = FALSE
        BY <2>2, StatusEffect
      <3>2. Reads(card, a) = <<>>
        BY <2>2 DEF Reads, InStatus
      <3> HIDE DEF e, a
      <3>3. CardOK(e)
        BY <1>2, <3>1, CardParts
      <3> QED
        BY <3>2, <3>3 DEF e, a
    <2>3. ASSUME NEW d \in Byte, a = OutAtr(d)
          PROVE  CardOK(e) /\ Reads(card, a) \in Seq(Byte)
      <3>1. Reads(card, a) = <<>>
        BY <2>3 DEF Reads, OutAtr
      <3>2. CASE card.flip
        <4>1. /\ IsCard(e, card.ix, [card.reg EXCEPT !["ATR"] =
                                       [card.reg["ATR"] EXCEPT ![card.ix["ATR"] % 32] = d]], card.dac)
              /\ e.flip = FALSE
          BY <2>3, <3>2, AtrDataEffect
        <4>2. RegOK([card.reg EXCEPT !["ATR"] = [card.reg["ATR"] EXCEPT ![card.ix["ATR"] % 32] = d]])
          BY <1>2, RegSet DEF Sets
        <4> HIDE DEF e, a
        <4>3. CardOK(e)
          BY <1>2, <4>1, <4>2, CardParts
        <4> QED
          BY <3>1, <4>3 DEF e, a
      <3>3. CASE ~card.flip
        <4>1. /\ IsCard(e, [card.ix EXCEPT !["ATR"] = d % 64], card.reg, card.dac)
              /\ e.flip = TRUE
          BY <2>3, <3>3, AtrIndexEffect
        <4>2. d % 64 \in 0..63
          BY DEF Byte
        <4>3. IxOK([card.ix EXCEPT !["ATR"] = d % 64])
          BY <1>2, <4>2 DEF IxOK, Sets, Indexed
        <4> HIDE DEF e, a
        <4>4. e.flip \in BOOLEAN
          BY <4>1
        <4>5. CardOK(e)
          BY <1>2, <4>1, <4>3, <4>4, CardParts
        <4> QED
          BY <3>1, <4>5 DEF e, a
      <3> QED
        BY <3>2, <3>3
    <2>4. CASE c.do \in {"in", "modify"} /\ k = 3
      <3> DEFINE read == InAtr(TRUE)
      <3>1. a = read
        BY <2>1, <2>4, Zenon
      <3>2. e = card
        BY <3>1, ReadEffect, Zenon DEF e, read
      <3>3. read.op = "ina" /\ read.kept = TRUE
        BY DEF InAtr
      <3> HIDE DEF read
      <3>4. Reads(card, read) = <<card.reg["ATR"][card.ix["ATR"] % 32]>>
        BY <3>3 DEF Reads
      <3>5. card.ix["ATR"] % 32 \in 0..31
        BY <1>2 DEF IxOK
      <3>6. card.reg["ATR"][card.ix["ATR"] % 32] \in Byte
        BY <1>2, <3>5, AtrRegisters DEF RegOK, Sets
      <3> HIDE DEF e, a
      <3> QED
        BY <3>1, <3>2, <3>4, <3>6 DEF e, a
    <2>5. CASE c.do \in {"in", "modify"} /\ k = 6
      <3> DEFINE read == InAtr(FALSE)
      <3>1. a = read
        BY <2>1, <2>5, Zenon
      <3>2. e = card
        BY <3>1, ReadEffect, Zenon DEF e, read
      <3>3. read.op = "ina" /\ read.kept = FALSE
        BY DEF InAtr
      <3> HIDE DEF read
      <3>4. Reads(card, read) = <<>>
        BY <3>3 DEF Reads
      <3> HIDE DEF e, a
      <3> QED
        BY <3>1, <3>2, <3>4 DEF e, a
    <2>6. CASE k \in {2, 5, 8, 11}
      <3>1. c.index \in Byte /\ c.index + 32 \in Byte
        BY <2>1 DEF Byte
      <3> HIDE DEF e, a, c, k
      <3>2. a = OutAtr(c.index) \/ a = OutAtr(c.index + 32)
        BY <2>1, <2>6
      <3>3. CardOK(e) /\ Reads(card, a) \in Seq(Byte)
        BY <2>3, <3>1, <3>2
      <3> QED
        BY <3>3 DEF e, a, k
    <2>7. CASE c.do \in {"out", "modify"} /\ k \in {AtrStart(c) + 3, AtrStart(c) + 6}
      <3>1. v \in Byte
        BY <2>7, ValueIsByte
      <3>2. a = OutAtr(v)
        BY <2>1, <2>7
      <3> HIDE DEF e, a, v
      <3> QED
        BY <2>3, <3>1, <3>2 DEF e, a, v
    <2>8. \/ k \in {1, 4, 7, 10}
          \/ k \in {2, 5, 8, 11}
          \/ c.do \in {"in", "modify"} /\ k \in {3, 6}
          \/ c.do \in {"out", "modify"} /\ k \in {AtrStart(c) + 3, AtrStart(c) + 6}
      <3>1. AtrStart(c) = IF c.do = "out" THEN 0 ELSE 6
        BY DEF AtrStart
      <3> HIDE DEF c, k
      <3> QED
        BY <2>1, <3>1
    <2> HIDE DEF e, a, c, k, v
    <2>9. CardOK(e) /\ Reads(card, a) \in Seq(Byte)
      BY <2>1, <2>2, <2>4, <2>5, <2>6, <2>7, <2>8 DEF e, a, k
    <2> QED
      BY <2>9 DEF e, a, k
  <1>6. CASE c.set = "DAC"
    <2>1. /\ c.do \in {"rgb", "dump"} /\ c.index \in 0..DacSize - 1
          /\ k \in 1..4
          /\ k = 1 => a = DacIndex(c.index)
          /\ c.do = "rgb" => c.rgb \in [1..3 -> Int]
          /\ c.do = "rgb" /\ k > 1 => a = OutDac(c.rgb[k - 1])
          /\ c.do = "dump" /\ k > 1 => a = InDac
      BY <1>6, DacAccess
    <2>2. CASE k = 1
      <3>1. a = DacIndex(c.index)
        BY <2>1, <2>2
      <3>2. /\ IsCard(e, card.ix, card.reg, [card.dac EXCEPT !.at = c.index, !.n = 0, !.got = NoColour])
            /\ e.flip = card.flip
        <4> DEFINE i == c.index
                   f == Effect(card, DacIndex(i))
                   d == [card.dac EXCEPT !.at = i, !.n = 0, !.got = NoColour]
        <4>1. e = f
          BY <3>1
        <4> HIDE DEF v, c, e, a, i
        <4>2. IsCard(f, card.ix, card.reg, d) /\ f.flip = card.flip
          BY DacEffect, Zenon
        <4> HIDE DEF f, d
        <4>3. IsCard(e, card.ix, card.reg, d) /\ e.flip = card.flip
          BY <4>1, <4>2
        <4> QED
          BY <4>3 DEF d, i
      <3>3. [card.dac EXCEPT !.at = c.index, !.n = 0, !.got = NoColour] \in DacType
        <4> HIDE DEF c
        <4> QED
          BY <1>2, <2>1, DacIndexed
      <3>4. Reads(card, a) = <<>>
        BY <3>1 DEF Reads, DacIndex
      <3> HIDE DEF e, a, c
      <3>5. CardOK(e)
        BY <1>2, <3>2, <3>3, CardParts
      <3> QED
        BY <3>4, <3>5 DEF e, a
    <2>3. CASE k > 1 /\ c.do = "rgb"
      <3> DEFINE b == c.rgb[k - 1]
      <3>1. b \in Int /\ a = OutDac(b)
        BY <2>1, <2>3
      <3> HIDE DEF b
      <3>2. /\ IsCard(e, card.ix, card.reg, DacTakes(card.dac, b))
            /\ e.flip = card.flip
        BY <3>1, DacEffect
      <3>3. DacTakes(card.dac, b) \in DacType
        BY <1>2, <3>1, DacSteps
      <3>4. Reads(card, a) = <<>>
        BY <3>1 DEF Reads, OutDac
      <3> HIDE DEF e, a, c
      <3>5. CardOK(e)
        BY <1>2, <3>2, <3>3, CardParts
      <3> QED
        BY <3>4, <3>5 DEF e, a
    <2>4. CASE k > 1 /\ c.do = "dump"
      <3>1. a = InDac
        BY <2>1, <2>4
      <3>2. /\ IsCard(e, card.ix, card.reg, DacStep(card.dac))
            /\ e.flip = card.flip
        BY <3>1, DacEffect
      <3>3. DacStep(card.dac) \in DacType
        BY <1>2, DacSteps
      <3>4. Reads(card, a) = <<card.dac.col[card.dac.at][card.dac.n + 1]>>
        BY <3>1 DEF Reads, InDac
      <3>5. card.dac.col[card.dac.at][card.dac.n + 1] \in Byte
        <4>1. card.dac.at \in 0..DacSize - 1 /\ card.dac.n + 1 \in 1..3
          BY <1>2 DEF DacType
        <4>2. card.dac.col[card.dac.at] \in Colours
          BY <1>2, <4>1 DEF DacType
        <4> DEFINE x == card.dac.col[card.dac.at]
                   m == card.dac.n + 1
        <4>3. x \in Colours /\ m \in 1..3
          BY <4>1, <4>2
        <4> HIDE DEF x, m
        <4>4. x[m] \in Byte
          BY <4>3 DEF Colours, Byte
        <4> QED
          BY <4>4 DEF x, m
      <3> HIDE DEF e, a, c
      <3>6. CardOK(e)
        BY <1>2, <3>2, <3>3, CardParts
      <3> QED
        BY <3>4, <3>5, <3>6 DEF e, a
    <2>5. k = 1 \/ (k > 1 /\ c.do = "rgb") \/ (k > 1 /\ c.do = "dump")
      BY <2>1
    <2> QED
      BY <2>2, <2>3, <2>4, <2>5
  <1> QED
    BY <1>1, <1>3, <1>4, <1>5, <1>6
-----------------------------------------------------------------------------
(* Type correctness.                                                       *)

\* A line getpalette writes.
Line == (0..DacSize - 1) \X [1..3 -> Byte]

TypeInv ==
  /\ CardOK(card) /\ kpal \in Palette /\ font \in {"normal", "fast"}
  /\ mine \in [Programs -> Palette] /\ was \in [Programs -> Palette]
  /\ job \in [Programs -> Seq(GoodCall)] /\ calls \in [Programs -> Seq(GoodCall)]
  /\ pc \in [Programs -> Nat \ {0}] /\ got \in [Programs -> Seq(Byte)] /\ hits \in [Programs -> Nat]
  /\ ended \in [Programs -> {"run", "done", "aborted", "killed"}]
  /\ alone \in [Programs -> BOOLEAN] /\ loaded \in [Programs -> BOOLEAN]
  /\ DOMAIN old = Programs /\ last \in Programs \cup {Nobody}
  /\ buf \in Seq(Line) /\ pipe \in Seq(Line)
  /\ bursts \in Nat /\ kills \in Nat
  /\ \A p \in Programs : Fits(p)

\* The accesses of a call.
Length(c) ==
  CASE c.do = "out" -> IF c.set = "ATR" THEN 6 ELSE 1
    [] c.do = "in"  -> IF c.set = "ATR" THEN 6 ELSE IF c.set = "PORT" THEN 1 ELSE 2
    [] c.do = "modify" -> IF c.set = "ATR" THEN 12 ELSE IF c.set = "PORT" THEN 2 ELSE 3
    [] c.do \in {"rgb", "dump"} -> 4

LEMMA CodeLengths ==
  \A p : Current(p) \in GoodCall /\ Current(p).set # "none" => Len(Code(p)) = Length(Current(p))
  <1> SUFFICES ASSUME NEW p, Current(p) \in GoodCall, Current(p).set # "none"
               PROVE  Len(Code(p)) = Length(Current(p))
    OBVIOUS
  <1> DEFINE c == Current(p)
             n == Len(Code(p))
  <1>1. /\ c.set \in Indexed \cup {"ATR", "PORT", "DAC"}
        /\ c.set \in Indexed \cup {"ATR", "PORT"} => c.do \in {"out", "in", "modify"}
        /\ c.set = "DAC" => c.do \in {"rgb", "dump"}
        /\ c.set = "ATR" => c.index \in 0..31
    BY GoodCallFacts
  <1>2. /\ c.set \in Indexed /\ c.do = "out" => n = 1
        /\ c.set \in Indexed /\ c.do = "in" => n = 2
        /\ c.set \in Indexed /\ c.do = "modify" => n = 3
    BY PlainCodes
  <1>3. /\ c.set = "PORT" /\ c.do = "out" => n = 1
        /\ c.set = "PORT" /\ c.do = "in" => n = 1
        /\ c.set = "PORT" /\ c.do = "modify" => n = 2
    BY PlainCodes
  <1>4. c.do \in {"rgb", "dump"} => n = 4
    BY PlainCodes
  <1>5. c.set = "ATR" =>
          /\ c.do = "out" => n = 6
          /\ c.do = "in" => n = 6
          /\ c.do = "modify" => n = 12
    BY <1>1, AtrCodes
  <1> HIDE DEF c, n
  <1>6. n = Length(c)
    BY <1>1, <1>2, <1>3, <1>4, <1>5 DEF Length, Indexed
  <1> QED
    BY <1>6 DEF c, n

LEMMA CodeLengthsNext ==
  (\A p : Current(p) \in GoodCall /\ Current(p).set # "none" => Len(Code(p)) = Length(Current(p)))'
  BY CodeLengths, PTL

LEMMA LengthIsPositive ==
  ASSUME NEW c \in GoodCall, c.set # "none"
  PROVE  Length(c) \in Nat /\ Length(c) >= 1
  BY GoodCallFacts DEF Length, Indexed

\* A program whose place in its call has not changed still fits.
LEMMA StillFits ==
  ASSUME NEW p, Fits(p), calls'[p] = calls[p], got'[p] = got[p], pc'[p] = pc[p],
         hits'[p] \in Nat, pc[p] = 1 => hits'[p] = hits[p]
  PROVE  Fits(p)'
  <1>1. Current(p)' = Current(p) /\ Running(p)' = Running(p) /\ Code(p)' = Code(p)
    BY DEF Current, Running, Code
  <1>2. UsesPorts(p)' = UsesPorts(p)
    BY <1>1 DEF UsesPorts
  <1> QED
    BY <1>1, <1>2 DEF Fits

\* A program at the beginning of a call fits.
LEMMA FitsAtFirst ==
  ASSUME NEW p, calls'[p] \in Seq(GoodCall), got'[p] = <<>>, pc'[p] = 1, hits'[p] = 0
  PROVE  Fits(p)'
  <1>1. UsesPorts(p)' => pc'[p] <= Len(Code(p))'
    <2> SUFFICES ASSUME UsesPorts(p)'
                 PROVE  pc'[p] <= Len(Code(p))'
      OBVIOUS
    <2> DEFINE c == Head(calls'[p])
    <2>1. calls'[p] # <<>> /\ c.set # "none" /\ Current(p)' = c
      BY DEF UsesPorts, Running, Current
    <2>2. c \in GoodCall
      BY <2>1
    <2>3. Len(Code(p))' = Length(c)
      BY <2>1, <2>2, CodeLengthsNext
    <2> QED
      BY <2>1, <2>2, <2>3, LengthIsPositive
  <1>2. got'[p] \in Seq(Byte) /\ pc'[p] \in Nat \ {0} /\ hits'[p] \in Nat
    OBVIOUS
  <1> QED
    BY <1>1, <1>2 DEF Fits

\* What GoOn and a killed program leave.
LEMMA GoOnType ==
  ASSUME TypeInv, NEW p \in Programs, NEW rest \in Seq(GoodCall), NEW how \in {"done", "aborted"},
         GoOn(p, rest, how)
  PROVE  /\ job' = job /\ calls' \in [Programs -> Seq(GoodCall)]
         /\ pc' \in [Programs -> Nat \ {0}] /\ got' \in [Programs -> Seq(Byte)]
         /\ hits' \in [Programs -> Nat]
         /\ ended' \in [Programs -> {"run", "done", "aborted", "killed"}]
         /\ alone' \in [Programs -> BOOLEAN] /\ last' \in Programs \cup {Nobody}
         /\ \A q \in Programs : Fits(q)'
  <1>1. /\ job' = job
        /\ calls' = [calls EXCEPT ![p] = rest]
        /\ pc' = [pc EXCEPT ![p] = 1]
        /\ got' = [got EXCEPT ![p] = <<>>]
        /\ hits' = [hits EXCEPT ![p] = 0]
    BY DEF GoOn
  <1>2. /\ job' = job /\ calls' \in [Programs -> Seq(GoodCall)]
        /\ pc' \in [Programs -> Nat \ {0}] /\ got' \in [Programs -> Seq(Byte)]
        /\ hits' \in [Programs -> Nat]
    BY <1>1 DEF TypeInv
  <1>3. ended' \in [Programs -> {"run", "done", "aborted", "killed"}]
    BY DEF GoOn, TypeInv
  <1>4. alone' \in [Programs -> BOOLEAN] /\ last' \in Programs \cup {Nobody}
    <2>1. Acts(p, rest = <<>> /\ ended[p] = "run" /\ how = "done")
      BY DEF GoOn
    <2> DEFINE ends == rest = <<>> /\ ended[p] = "run" /\ how = "done"
    <2> HIDE DEF ends
    <2>2. Acts(p, ends)
      BY <2>1 DEF ends
    <2> QED
      BY <2>2 DEF Acts, TypeInv
  <1>5. ASSUME NEW q \in Programs PROVE Fits(q)'
    <2>1. CASE q = p
      <3>1. calls'[q] = rest /\ got'[q] = <<>> /\ pc'[q] = 1 /\ hits'[q] = 0
        BY <1>1, <2>1 DEF TypeInv
      <3> QED
        BY <3>1, FitsAtFirst
    <2>2. CASE q # p
      <3>1. calls'[q] = calls[q] /\ got'[q] = got[q] /\ pc'[q] = pc[q] /\ hits'[q] = hits[q]
        BY <1>1, <2>2 DEF TypeInv
      <3>2. hits'[q] \in Nat /\ Fits(q)
        BY <1>2 DEF TypeInv
      <3> QED
        BY <3>1, <3>2, StillFits
    <2> QED
      BY <2>1, <2>2
  <1> QED
    BY <1>2, <1>3, <1>4, <1>5

LEMMA AccessSteps ==
  ASSUME NEW p \in Programs, Access(p)
  PROVE  /\ UsesPorts(p)
         /\ card' = Effect(card, Code(p)[pc[p]])
         /\ Finishes(p) => GoOn(p, Tail(calls[p]), "done")
         /\ ~Finishes(p) => /\ pc' = [pc EXCEPT ![p] = pc[p] + 1]
                            /\ got' = [got EXCEPT ![p] = got[p] \o Reads(card, Code(p)[pc[p]])]
                            /\ Acts(p, FALSE)
                            /\ UNCHANGED <<job, calls, ended, hits>>
         /\ old' = [old EXCEPT ![p] = IF pc[p] = 1 /\ Current(p).set \in Sets
                                      THEN card.reg[Current(p).set][Current(p).index] ELSE old[p]]
         /\ UNCHANGED <<kpal, font, bursts, kills, was, loaded>>
  BY DEF Access

LEMMA AppendedLength ==
  ASSUME NEW s \in Seq(Byte), NEW t \in Seq(Byte)
  PROVE  s \o t \in Seq(Byte) /\ Len(s \o t) = Len(s) + Len(t)
  BY ConcatProperties

LEMMA DumpReads ==
  ASSUME NEW p, Fits(p), UsesPorts(p), Current(p).do = "dump"
  PROVE  /\ pc[p] \in 1..4
         /\ pc[p] = 1 => Reads(card, Code(p)[pc[p]]) = <<>>
         /\ pc[p] > 1 => Len(Reads(card, Code(p)[pc[p]])) = 1
  <1> DEFINE c == Current(p)
             a == Code(p)[pc[p]]
  <1>1. c.set = "DAC"
    BY CurrentIsGood, GoodCallFacts DEF UsesPorts
  <1>2. /\ pc[p] \in 1..4
        /\ pc[p] = 1 => a = DacIndex(c.index)
        /\ pc[p] > 1 => a = InDac
    BY <1>1, DacAccess
  <1> HIDE DEF a, c
  <1>3. pc[p] = 1 => Reads(card, a) = <<>>
    BY <1>2 DEF Reads, DacIndex
  <1>4. ASSUME pc[p] > 1 PROVE Len(Reads(card, a)) = 1
    <2>1. Reads(card, a) = <<card.dac.col[card.dac.at][card.dac.n + 1]>>
      BY <1>2, <1>4 DEF Reads, InDac
    <2> QED
      BY <2>1
  <1> QED
    BY <1>2, <1>3, <1>4 DEF a

LEMMA MoveOnFits ==
  ASSUME NEW p, Fits(p), UsesPorts(p), ~Finishes(p), CardOK(card),
         calls'[p] = calls[p], hits'[p] = hits[p], pc'[p] = pc[p] + 1,
         got'[p] = got[p] \o Reads(card, Code(p)[pc[p]])
  PROVE  Fits(p)'
  <1> DEFINE c == Current(p)
             k == pc[p]
             n == Len(Code(p))
             read == Reads(card, Code(p)[k])
  <1>1. c \in GoodCall /\ c.set # "none"
    BY CurrentIsGood DEF UsesPorts
  <1>2. n = Length(c)
    BY <1>1, CodeLengths
  <1>3. Current(p)' = c /\ UsesPorts(p)'
    BY DEF Current, UsesPorts, Running
  <1>4. Len(Code(p))' = Length(c)
    BY <1>1, <1>3, CodeLengthsNext
  <1>5. k \in Nat \ {0} /\ k <= n /\ k # n
    BY DEF Fits, Finishes
  <1>6. read \in Seq(Byte)
    BY AccessKeepsCard
  <1>7. got[p] \in Seq(Byte) /\ calls[p] \in Seq(GoodCall) /\ hits[p] \in Nat
    BY DEF Fits
  <1>8. got'[p] \in Seq(Byte) /\ Len(got'[p]) = Len(got[p]) + Len(read)
    BY <1>6, <1>7, AppendedLength
  <1>9. c.do = "dump" => Len(got'[p]) = k - 1
    <2> SUFFICES ASSUME c.do = "dump"
                 PROVE  Len(got'[p]) = k - 1
      OBVIOUS
    <2>1. /\ k = 1 => read = <<>> /\ got[p] = <<>>
          /\ k > 1 => Len(read) = 1 /\ Len(got[p]) = k - 2
      BY DumpReads DEF Fits
    <2> HIDE DEF read, c
    <2>2. CASE k = 1
      BY <1>8, <2>1, <2>2
    <2>3. CASE k > 1
      <3>1. k \in Nat
        BY <1>5
      <3> DEFINE all == Len(got'[p])
                 first == Len(got[p])
                 more == Len(read)
      <3>2. all = first + more /\ more = 1 /\ first = k - 2
        BY <1>8, <2>1, <2>3
      <3> HIDE DEF k, all, first, more
      <3>3. all = k - 1
        BY <3>1, <3>2
      <3> QED
        BY <3>3 DEF all
    <2>4. k = 1 \/ k > 1
      <3> HIDE DEF k, n
      <3> QED
        BY <1>5
    <2> QED
      BY <2>2, <2>3, <2>4
  <1>10. k + 1 <= Length(c) /\ k + 1 \in Nat \ {0} /\ k + 1 # 1 /\ k - 1 = (k + 1) - 2
    <2>1. Length(c) \in Nat
      BY <1>1, LengthIsPositive
    <2> HIDE DEF c, n, k
    <2> QED
      BY <1>2, <1>5, <2>1
  <1> HIDE DEF c, k, n, read
  <1> QED
    BY <1>3, <1>4, <1>7, <1>8, <1>9, <1>10 DEF Fits, k

LEMMA AccessType ==
  ASSUME TypeInv, NEW p \in Programs, Access(p)
  PROVE  TypeInv'
  <1> DEFINE c == Current(p)
             a == Code(p)[pc[p]]
             read == got[p] \o Reads(card, a)
             line == <<c.index, read>>
             fin == Finishes(p)
  <1>1. /\ UsesPorts(p) /\ card' = Effect(card, a)
        /\ UNCHANGED <<kpal, font, bursts, kills, was, loaded>>
    BY AccessSteps
  <1>2. Fits(p) /\ CardOK(card)
    BY DEF TypeInv
  <1>3. CardOK(card') /\ Reads(card, a) \in Seq(Byte)
    BY <1>1, <1>2, AccessKeepsCard
  <1>4. c \in GoodCall
    BY <1>1, <1>2, CurrentIsGood DEF UsesPorts
  <1>5. read \in Seq(Byte)
    BY <1>2, <1>3, AppendedLength DEF Fits
  <1>6. fin /\ c.do = "dump" => line \in Line
    <2> SUFFICES ASSUME fin, c.do = "dump"
                 PROVE  line \in Line
      OBVIOUS
    <2>1. c.set = "DAC" /\ c.index \in 0..DacSize - 1
      BY <1>4, GoodCallFacts
    <2>2. pc[p] = 4
      BY <1>1, <1>2, <2>1, DacAccess
    <2>3. Len(read) = 3
      <3>1. Len(got[p]) = 2 /\ got[p] \in Seq(Byte)
        BY <1>1, <1>2, <2>2 DEF Fits
      <3>2. Len(Reads(card, a)) = 1
        BY <1>1, <1>2, <2>2, DumpReads
      <3>3. Len(read) = Len(got[p]) + Len(Reads(card, a))
        BY <1>3, <3>1, AppendedLength
      <3> HIDE DEF read, a
      <3> QED
        BY <3>1, <3>2, <3>3
    <2> HIDE DEF read, c, a
    <2>4. read \in [1..3 -> Byte]
      BY <1>5, <2>3
    <2> QED
      BY <2>1, <2>4 DEF Line
  <1>7. buf' \in Seq(Line) /\ pipe' \in Seq(Line)
    <2>1. /\ buf' = IF fin /\ c.do = "dump"
                     THEN (IF Len(buf) = BufferLines - 1 THEN <<>> ELSE Append(buf, line))
                     ELSE buf
          /\ pipe' = IF fin /\ c.do = "dump" /\ Len(buf) = BufferLines - 1
                      THEN pipe \o buf \o <<line>> ELSE pipe
      BY DEF Access
    <2> HIDE DEF fin, c, line
    <2>2. buf \in Seq(Line) /\ pipe \in Seq(Line)
      BY DEF TypeInv
    <2> QED
      BY <1>6, <2>1, <2>2
  <1>8. mine' \in [Programs -> Palette]
    <2>1. mine' = IF Remembers(p)
                   THEN [mine EXCEPT ![p] = [mine[p] EXCEPT ![color_table[c.index + 1]] = KernelColour(c.rgb)]]
                   ELSE mine
      BY DEF Access
    <2>2. Remembers(p) => KernelColour(c.rgb) \in [1..3 -> Byte]
      <3> SUFFICES ASSUME Remembers(p)
                   PROVE  KernelColour(c.rgb) \in [1..3 -> Byte]
        OBVIOUS
      <3>1. c.rgb \in [1..3 -> Int]
        BY <1>4, CallFacts, GoodCallFacts DEF Remembers
      <3> HIDE DEF c
      <3> QED
        BY <3>1, SMTT(40) DEF KernelColour, Byte
    <2>3. mine \in [Programs -> Palette]
      BY DEF TypeInv
    <2> DEFINE kc == KernelColour(c.rgb)
               x == color_table[c.index + 1]
               m == [mine[p] EXCEPT ![x] = kc]
    <2>4. Remembers(p) => m \in Palette
      <3> HIDE DEF kc, x
      <3>1. mine[p] \in Palette
        BY <2>3
      <3> QED
        BY <2>2, <3>1 DEF Palette, kc
    <2>5. mine' = IF Remembers(p) THEN [mine EXCEPT ![p] = m] ELSE mine
      BY <2>1
    <2> HIDE DEF m, c
    <2> QED
      BY <2>3, <2>4, <2>5
  <1>9. DOMAIN old' = Programs
    BY AccessSteps DEF TypeInv
  <1>10. CASE fin
    <2>1. GoOn(p, Tail(calls[p]), "done")
      BY <1>10, AccessSteps
    <2>2. Tail(calls[p]) \in Seq(GoodCall)
      BY <1>1, <1>2 DEF UsesPorts, Running, Fits
    <2>3. /\ job' = job /\ calls' \in [Programs -> Seq(GoodCall)]
          /\ pc' \in [Programs -> Nat \ {0}] /\ got' \in [Programs -> Seq(Byte)]
          /\ hits' \in [Programs -> Nat]
          /\ ended' \in [Programs -> {"run", "done", "aborted", "killed"}]
          /\ alone' \in [Programs -> BOOLEAN] /\ last' \in Programs \cup {Nobody}
          /\ \A q \in Programs : Fits(q)'
      BY <2>1, <2>2, GoOnType
    <2> HIDE DEF fin, a, c, read, line
    <2> QED
      BY <1>1, <1>3, <1>7, <1>8, <1>9, <2>3 DEF TypeInv
  <1>11. CASE ~fin
    <2>1. /\ pc' = [pc EXCEPT ![p] = pc[p] + 1]
          /\ got' = [got EXCEPT ![p] = read]
          /\ Acts(p, FALSE)
          /\ UNCHANGED <<job, calls, ended, hits>>
      BY <1>11, AccessSteps
    <2> HIDE DEF read, line, c
    <2>2. /\ pc' \in [Programs -> Nat \ {0}] /\ got' \in [Programs -> Seq(Byte)]
      BY <1>5, <2>1 DEF TypeInv
    <2>3. alone' \in [Programs -> BOOLEAN] /\ last' \in Programs \cup {Nobody}
      BY <2>1 DEF TypeInv, Acts
    <2>4. ASSUME NEW q \in Programs PROVE Fits(q)'
      <3>1. CASE q = p
        <4>1. /\ calls'[p] = calls[p] /\ hits'[p] = hits[p] /\ pc'[p] = pc[p] + 1
              /\ got'[p] = got[p] \o Reads(card, a)
          BY <2>1 DEF TypeInv, read
        <4> QED
          BY <1>1, <1>2, <1>11, <3>1, <4>1, MoveOnFits
      <3>2. CASE q # p
        <4>1. calls'[q] = calls[q] /\ got'[q] = got[q] /\ pc'[q] = pc[q] /\ hits'[q] = hits[q]
          BY <2>1, <3>2 DEF TypeInv
        <4>2. hits'[q] \in Nat /\ Fits(q)
          BY <2>1 DEF TypeInv
        <4> QED
          BY <4>1, <4>2, StillFits
      <3> QED
        BY <3>1, <3>2
    <2> HIDE DEF fin, a
    <2> QED
      BY <1>1, <1>3, <1>7, <1>8, <1>9, <2>1, <2>2, <2>3, <2>4 DEF TypeInv
  <1> QED
    BY <1>10, <1>11

(***************************************************************************)
(* A console switch, and what else the kernel does to the card.            *)
(***************************************************************************)
SwitchedDac(d, pal) ==
  [d EXCEPT !.col = [i \in DOMAIN d.col |-> IF i \in Text THEN DacColour(pal[AnsiOrder(i)]) ELSE d.col[i]],
            !.at = 16 % DacSize, !.n = 0, !.got = NoColour]

LEMMA AnsiIsText ==
  ASSUME NEW i \in Text
  PROVE  AnsiOrder(i) \in Text
  <1>1. Bit(i, 0) \in 0..1 /\ Bit(i, 1) \in 0..1 /\ Bit(i, 2) \in 0..1 /\ Bit(i, 3) \in 0..1
    BY BitType DEF Text
  <1> QED
    BY <1>1 DEF AnsiOrder, Text

LEMMA ColourOfByte ==
  ASSUME NEW rgb \in [1..3 -> Byte]
  PROVE  DacColour(rgb) \in Colours
  BY DEF DacColour, Colours, Byte

LEMMA SwitchedDacType ==
  ASSUME NEW d \in DacType, NEW pal \in Palette
  PROVE  /\ SwitchedDac(d, pal) \in DacType
         /\ SwitchedDac(d, pal).at = 16 /\ SwitchedDac(d, pal).n = 0
         /\ \A i \in 0..DacSize - 1 :
              SwitchedDac(d, pal).col[i] = IF i \in Text THEN DacColour(pal[AnsiOrder(i)]) ELSE d.col[i]
  <1> DEFINE f == [i \in DOMAIN d.col |-> IF i \in Text THEN DacColour(pal[AnsiOrder(i)]) ELSE d.col[i]]
             e == SwitchedDac(d, pal)
  <1>1. d.col \in [0..DacSize - 1 -> Colours]
    BY DEF DacType
  <1>2. f = [i \in 0..DacSize - 1 |-> IF i \in Text THEN DacColour(pal[AnsiOrder(i)]) ELSE d.col[i]]
    BY <1>1
  <1>3. ASSUME NEW i \in 0..DacSize - 1
        PROVE  (IF i \in Text THEN DacColour(pal[AnsiOrder(i)]) ELSE d.col[i]) \in Colours
    <2>1. CASE i \in Text
      <3>1. pal[AnsiOrder(i)] \in [1..3 -> Byte]
        BY <2>1, AnsiIsText DEF Palette
      <3>2. DacColour(pal[AnsiOrder(i)]) \in Colours
        BY <3>1, ColourOfByte
      <3> QED
        BY <2>1, <3>2
    <2>2. CASE i \notin Text
      BY <1>1, <2>2
    <2> QED
      BY <2>1, <2>2
  <1>4. f \in [0..DacSize - 1 -> Colours]
    BY <1>2, <1>3
  <1>5. d = [at |-> d.at, n |-> d.n, got |-> d.got, size |-> DacSize, col |-> d.col]
    BY DEF DacType
  <1>6. PICK g : g = NoColour
    OBVIOUS
  <1>7. e = [d EXCEPT !.col = f, !.at = 16, !.n = 0, !.got = g]
    BY <1>6, DacIsLarge, Zenon DEF SwitchedDac
  <1>8. g \in Colours
    BY <1>6, NoColourIsOne
  <1> HIDE DEF e, f
  <1>9. e = [at |-> 16, n |-> 0, got |-> g, size |-> DacSize, col |-> f]
    <2> DEFINE d1 == [d EXCEPT !.col = f]
               d2 == [d1 EXCEPT !.at = 16]
               d3 == [d2 EXCEPT !.n = 0]
    <2>1. e = [d3 EXCEPT !.got = g]
      BY <1>7
    <2>2. d1 = [at |-> d.at, n |-> d.n, got |-> d.got, size |-> DacSize, col |-> f]
      BY <1>5
    <2> HIDE DEF d1
    <2>3. d2 = [at |-> 16, n |-> d.n, got |-> d.got, size |-> DacSize, col |-> f]
      BY <2>2
    <2> HIDE DEF d2
    <2>4. d3 = [at |-> 16, n |-> 0, got |-> d.got, size |-> DacSize, col |-> f]
      BY <2>3
    <2> HIDE DEF d3
    <2> QED
      BY <2>1, <2>4
  <1>10. e \in DacType /\ e.at = 16 /\ e.n = 0 /\ e.col = f
    BY <1>4, <1>8, <1>9, DacIsLarge DEF DacType
  <1>11. \A i \in 0..DacSize - 1 : f[i] = IF i \in Text THEN DacColour(pal[AnsiOrder(i)]) ELSE d.col[i]
    BY <1>2
  <1> QED
    BY <1>10, <1>11 DEF e

LEMMA SwitchedCard ==
  ASSUME NEW c, CardOK(c), NEW pal \in Palette
  PROVE  /\ IsCard(Switched(c, pal), c.ix, c.reg, SwitchedDac(c.dac, pal))
         /\ Switched(c, pal).flip = c.flip
         /\ CardOK(Switched(c, pal))
  <1> DEFINE d == SwitchedDac(c.dac, pal)
             e == Switched(c, pal)
  <1>1. c = [ix |-> c.ix, reg |-> c.reg, flip |-> c.flip, dac |-> c.dac]
    BY DEF CardOK, IsCard
  <1>2. e = [c EXCEPT !.dac = d]
    BY <1>1 DEF Switched, SwitchedDac
  <1>3. d \in DacType
    BY SwitchedDacType DEF CardOK
  <1> HIDE DEF d, e
  <1>4. IsCard(e, c.ix, c.reg, d) /\ e.flip = c.flip
    BY <1>1, <1>2 DEF IsCard
  <1>5. CardOK(e)
    BY <1>3, <1>4, CardParts DEF CardOK
  <1> QED
    BY <1>4, <1>5 DEF e, d

\* The kernel's four bursts.
CursorMoved(e, c) ==
  /\ e.flip = c.flip /\ e.dac = c.dac
  /\ \A s \in Sets : s # "CRTC" => e.ix[s] = c.ix[s] /\ e.reg[s] = c.reg[s]
  /\ \A i \in Registers["CRTC"] \ {CursorReg} : e.reg["CRTC"][i] = c.reg["CRTC"][i]

CursorAt(c, b) == [c EXCEPT !.ix["CRTC"] = CursorReg, !.reg["CRTC"][CursorReg] = b]
LEMMA CursorCard ==
  ASSUME NEW c, CardOK(c), NEW b \in Byte
  PROVE  CardOK(CursorAt(c, b)) /\ CursorMoved(CursorAt(c, b), c)
  <1> DEFINE e == [c EXCEPT !.ix["CRTC"] = CursorReg, !.reg["CRTC"][CursorReg] = b]
             x == [c.ix EXCEPT !["CRTC"] = CursorReg]
             r == [c.reg EXCEPT !["CRTC"] = [c.reg["CRTC"] EXCEPT ![CursorReg] = b]]
  <1>1. c = [ix |-> c.ix, reg |-> c.reg, flip |-> c.flip, dac |-> c.dac]
    BY DEF CardOK, IsCard
  <1>2. e = [ix |-> x, reg |-> r, flip |-> c.flip, dac |-> c.dac]
    <2> DEFINE c1 == [c EXCEPT !.ix = x]
    <2>1. e = [c1 EXCEPT !.reg = r]
      BY <1>1
    <2> HIDE DEF x, r, e
    <2>2. c1 = [ix |-> x, reg |-> c.reg, flip |-> c.flip, dac |-> c.dac]
      BY <1>1
    <2> HIDE DEF c1
    <2> QED
      BY <2>1, <2>2
  <1>3. IxOK(x) /\ RegOK(r)
    <2>1. "CRTC" \in Indexed /\ "CRTC" \in Sets
      BY DEF Indexed, Sets
    <2> QED
      BY <2>1, KernelRegisters, IxSet, RegSet DEF CardOK
  <1>4. /\ \A s \in Sets : s # "CRTC" => x[s] = c.ix[s] /\ r[s] = c.reg[s]
        /\ \A i \in Registers["CRTC"] \ {CursorReg} : r["CRTC"][i] = c.reg["CRTC"][i]
    BY DEF CardOK, IxOK, RegOK, Sets, Indexed
  <1> HIDE DEF e, x, r
  <1>5. IsCard(e, x, r, c.dac) /\ e.flip = c.flip
    BY <1>2 DEF IsCard
  <1>6. CardOK(e)
    BY <1>3, <1>5, CardParts DEF CardOK
  <1>7. e.ix = x /\ e.reg = r /\ e.dac = c.dac
    BY <1>5 DEF IsCard
  <1>8. CursorMoved(e, c)
    BY <1>4, <1>5, <1>7 DEF CursorMoved
  <1> QED
    BY <1>6, <1>8 DEF e, CursorAt

LEMMA CursorBurst ==
  ASSUME CardOK(card), KernelCursor
  PROVE  \E e : CardOK(e) /\ CursorMoved(e, card) /\ Burst("cursor", {"CRTC"}, e)
  <1>1. PICK b \in {0, 165} : Burst("cursor", {"CRTC"}, CursorAt(card, b))
    BY DEF KernelCursor, CursorAt
  <1>2. b \in Byte
    BY DEF Byte
  <1> QED
    BY <1>1, <1>2, CursorCard

LEMMA AttributesCard ==
  ASSUME NEW c, CardOK(c)
  PROVE  /\ LET e == [c EXCEPT !.flip = FALSE, !.ix["ATR"] = 48] IN
            /\ CardOK(e) /\ e.flip = FALSE /\ e.dac = c.dac /\ e.reg = c.reg
            /\ \A s \in Sets : s # "ATR" => e.ix[s] = c.ix[s]
         /\ LET e == [c EXCEPT !.flip = FALSE] IN
            /\ CardOK(e) /\ e.flip = FALSE /\ e.dac = c.dac /\ e.reg = c.reg
            /\ \A s \in Sets : s # "ATR" => e.ix[s] = c.ix[s]
  <1> DEFINE e == [c EXCEPT !.flip = FALSE, !.ix["ATR"] = 48]
             f == [c EXCEPT !.flip = FALSE]
             x == [c.ix EXCEPT !["ATR"] = 48]
  <1>1. c = [ix |-> c.ix, reg |-> c.reg, flip |-> c.flip, dac |-> c.dac] /\ c.flip \in BOOLEAN
    BY DEF CardOK, IsCard
  <1>2. IxOK(x) /\ RegOK(c.reg) /\ c.dac \in DacType /\ IxOK(c.ix)
    BY DEF CardOK, IxOK, Indexed, Sets
  <1>3. \A s \in Sets : s # "ATR" => x[s] = c.ix[s]
    BY DEF CardOK, IxOK
  <1>4. e.flip = FALSE /\ e.ix = x /\ e.reg = c.reg /\ e.dac = c.dac
    BY <1>1
  <1>5. e = [ix |-> e.ix, reg |-> e.reg, flip |-> e.flip, dac |-> e.dac]
    <2>1. e = [c EXCEPT !.flip = FALSE, !.ix["ATR"] = 48]
      OBVIOUS
    <2> HIDE DEF e
    <2> QED
      BY <1>1, <2>1
  <1>6. f.flip = FALSE /\ f.ix = c.ix /\ f.reg = c.reg /\ f.dac = c.dac
    BY <1>1
  <1>7. f = [ix |-> f.ix, reg |-> f.reg, flip |-> f.flip, dac |-> f.dac]
    <2>1. f = [c EXCEPT !.flip = FALSE]
      OBVIOUS
    <2> HIDE DEF f
    <2> QED
      BY <1>1, <2>1
  <1> HIDE DEF e, f, x
  <1>8. IsCard(e, x, c.reg, c.dac) /\ IsCard(f, c.ix, c.reg, c.dac)
    BY <1>4, <1>5, <1>6, <1>7, Zenon DEF IsCard
  <1>9. e.flip \in BOOLEAN /\ f.flip \in BOOLEAN
    BY <1>4, <1>6
  <1>10. CardOK(e) /\ CardOK(f)
    BY <1>2, <1>8, <1>9, CardParts
  <1>11. \A s \in Sets : s # "ATR" => e.ix[s] = c.ix[s] /\ f.ix[s] = c.ix[s]
    BY <1>3, <1>4, <1>6
  <1> QED
    BY <1>4, <1>6, <1>10, <1>11, Zenon DEF e, f

LEMMA FontCard ==
  ASSUME NEW c, CardOK(c)
  PROVE  LET e == [c EXCEPT !.ix["SEQ"] = 0, !.ix["GR"] = 0] IN
         /\ CardOK(e) /\ e.flip = c.flip /\ e.dac = c.dac /\ e.reg = c.reg
         /\ \A s \in Sets : s \notin {"SEQ", "GR"} => e.ix[s] = c.ix[s]
  <1> DEFINE e == [c EXCEPT !.ix["SEQ"] = 0, !.ix["GR"] = 0]
             x == [[c.ix EXCEPT !["SEQ"] = 0] EXCEPT !["GR"] = 0]
  <1>1. c = [ix |-> c.ix, reg |-> c.reg, flip |-> c.flip, dac |-> c.dac]
    BY DEF CardOK, IsCard
  <1>2. e = [ix |-> x, reg |-> c.reg, flip |-> c.flip, dac |-> c.dac]
    <2>1. e = [c EXCEPT !.ix = x]
      BY <1>1
    <2> HIDE DEF x, e
    <2> QED
      BY <1>1, <2>1
  <1>3. IxOK(x)
    <2>1. "SEQ" \in Indexed /\ "GR" \in Indexed
      BY DEF Indexed
    <2>2. IxOK([c.ix EXCEPT !["SEQ"] = 0])
      BY <2>1, KernelRegisters, IxSet DEF CardOK
    <2> QED
      BY <2>1, <2>2, KernelRegisters, IxSet
  <1>4. \A s \in Sets : s \notin {"SEQ", "GR"} => x[s] = c.ix[s]
    BY DEF CardOK, IxOK
  <1> HIDE DEF e, x
  <1>5. IsCard(e, x, c.reg, c.dac) /\ e.flip = c.flip
    BY <1>2 DEF IsCard
  <1>6. CardOK(e)
    BY <1>3, <1>5, CardParts DEF CardOK
  <1>7. e.ix = x /\ e.reg = c.reg /\ e.dac = c.dac
    BY <1>5 DEF IsCard
  <1> QED
    BY <1>4, <1>5, <1>6, <1>7 DEF e

LEMMA FirstCardOK == CardOK(FirstCard)
  <1> DEFINE x == [s \in Sets |-> IF s = "ATR" THEN 32 ELSE 0]
             r == [s \in Sets |-> [i \in Registers[s] |-> 90]]
             d == [at |-> 0, n |-> 0, got |-> NoColour, size |-> DacSize,
                   col |-> [i \in 0..DacSize - 1 |-> NoColour]]
             e == FirstCard
  <1>1. /\ e = [ix |-> e.ix, reg |-> e.reg, flip |-> e.flip, dac |-> e.dac]
        /\ e.ix = x /\ e.reg = r /\ e.dac = d /\ e.flip = FALSE
    <2>1. e.ix = x /\ e.reg = r /\ e.dac = d /\ e.flip = FALSE
      BY DEF FirstCard
    <2>2. e = [ix |-> x, reg |-> r, flip |-> FALSE, dac |-> d]
      BY Zenon DEF FirstCard
    <2> HIDE DEF e, x, r, d
    <2> QED
      BY <2>1, <2>2, Zenon
  <1>2. IxOK(x)
    <2>1. x \in [Sets -> Nat]
      OBVIOUS
    <2>2. \A s \in Indexed : x[s] = 0 /\ 0 \in Registers[s]
      BY KernelRegisters DEF Sets, Indexed
    <2>3. x["ATR"] = 32
      BY DEF Sets
    <2> HIDE DEF x
    <2> QED
      BY <2>1, <2>2, <2>3 DEF IxOK
  <1>3. RegOK(r)
    <2>1. 90 \in Byte
      BY DEF Byte
    <2> QED
      BY <2>1 DEF RegOK
  <1>4. d \in DacType
    BY NoColourIsOne, DacIsLarge DEF DacType
  <1> HIDE DEF e, x, r, d
  <1>5. IsCard(e, x, r, d) /\ e.flip \in BOOLEAN
    BY <1>1, Zenon DEF IsCard
  <1> QED
    BY <1>2, <1>3, <1>4, <1>5, CardParts DEF e

LEMMA InitType == Init => TypeInv
  <1> SUFFICES ASSUME Init
               PROVE  TypeInv
    OBVIOUS
  <1>1. kpal \in Palette
    BY PalettesAssumption DEF Init
  <1>2. CardOK(card)
    BY <1>1, FirstCardOK, SwitchedCard DEF Init
  <1>3. job \in [Programs -> Seq(GoodCall)] /\ calls = job
    <2>1. PICK j \in Jobs : job = j.calls
      BY DEF Init
    <2>2. \A p \in Programs : j.calls[p] \in Seq(GoodCall)
      BY JobsAreGood
    <2>3. j.calls \in [Programs -> Seq(CallSet)]
      BY CallsAssumption
    <2>4. j.calls \in [Programs -> Seq(GoodCall)]
      BY <2>2, <2>3
    <2> QED
      BY <2>1, <2>4 DEF Init
  <1>4. bursts \in Nat /\ kills \in Nat
    BY ToolsAssumption DEF Init
  <1>5. NoColour \in [1..3 -> Byte]
    BY DEF NoColour, Byte
  <1>6. mine \in [Programs -> Palette] /\ was \in [Programs -> Palette]
    BY <1>1, <1>5 DEF Init, Palette
  <1>7. /\ pc = [p \in Programs |-> 1] /\ got = [p \in Programs |-> <<>>]
        /\ hits = [p \in Programs |-> 0]
    BY DEF Init
  <1>8. /\ pc \in [Programs -> Nat \ {0}] /\ got \in [Programs -> Seq(Byte)]
        /\ hits \in [Programs -> Nat]
    BY <1>7
  <1>9. ASSUME NEW p \in Programs PROVE Fits(p)
    <2>1. calls[p] \in Seq(GoodCall) /\ got[p] = <<>> /\ pc[p] = 1 /\ hits[p] = 0
      BY <1>3, <1>7
    <2>2. UsesPorts(p) => pc[p] <= Len(Code(p))
      <3> SUFFICES ASSUME UsesPorts(p)
                   PROVE  pc[p] <= Len(Code(p))
        OBVIOUS
      <3>1. Current(p) \in GoodCall /\ Current(p).set # "none"
        BY <2>1 DEF UsesPorts, Running, Current
      <3> QED
        BY <2>1, <3>1, CodeLengths, LengthIsPositive
    <2> QED
      BY <2>1, <2>2 DEF Fits
  <1>10. /\ ended \in [Programs -> {"run", "done", "aborted", "killed"}]
         /\ alone \in [Programs -> BOOLEAN] /\ loaded \in [Programs -> BOOLEAN]
         /\ DOMAIN old = Programs /\ last \in Programs \cup {Nobody}
         /\ font \in {"normal", "fast"}
    BY DEF Init
  <1>11. buf \in Seq(Line) /\ pipe \in Seq(Line)
    BY DEF Init
  <1> QED
    BY <1>1, <1>2, <1>3, <1>4, <1>6, <1>8, <1>9, <1>10, <1>11 DEF TypeInv

\* An abort leaves the register to turn the screen on again.
LEMMA AbortType ==
  ASSUME TypeInv, NEW p \in Programs, Abort(p)
  PROVE  TypeInv'
  <1>1. GoOn(p, <<SCREEN_ON>>, "aborted")
    BY DEF Abort
  <1>2. <<SCREEN_ON>> \in Seq(GoodCall)
    BY ScreenOnIsGood
  <1> DEFINE rest == <<SCREEN_ON>>
  <1> HIDE DEF rest
  <1>3. GoOn(p, rest, "aborted") /\ rest \in Seq(GoodCall)
    BY <1>1, <1>2 DEF rest
  <1>4. UNCHANGED <<card, kpal, font, mine, buf, pipe, bursts, kills, old, was, loaded>>
    BY DEF Abort
  <1> QED
    BY <1>3, <1>4, GoOnType DEF TypeInv

LEMMA RestIsGood ==
  ASSUME TypeInv, NEW p \in Programs, Running(p)
  PROVE  Rest(p) \in Seq(GoodCall)
  BY DEF TypeInv, Rest, Running

LEMMA CallsType ==
  ASSUME TypeInv, NEW p \in Programs, Calls(p)
  PROVE  TypeInv'
  <1>1. CASE Access(p)
    BY <1>1, AccessType
  <1>2. CASE BadLine(p)
    BY <1>2, AbortType DEF BadLine
  <1>3. CASE ReadKernelPalette(p)
    <2>1. CASE Abort(p)
      BY <2>1, AbortType
    <2>2. CASE ~Abort(p)
      <3>1. /\ mine' = [mine EXCEPT ![p] = kpal] /\ was' = [was EXCEPT ![p] = kpal]
            /\ GoOn(p, Rest(p), "done") /\ Running(p)
            /\ UNCHANGED <<card, kpal, font, buf, pipe, bursts, kills, old, loaded>>
        BY <1>3, <2>2 DEF ReadKernelPalette, Does
      <3>2. mine' \in [Programs -> Palette] /\ was' \in [Programs -> Palette]
        BY <3>1 DEF TypeInv
      <3> QED
        BY <3>1, <3>2, RestIsGood, GoOnType DEF TypeInv
    <2> QED
      BY <2>1, <2>2
  <1>4. CASE TellKernel(p)
    <2>1. CASE Abort(p)
      BY <2>1, AbortType
    <2>2. CASE ~Abort(p)
      <3>1. /\ kpal' = mine[p] /\ card' = Switched(card, kpal')
            /\ GoOn(p, Rest(p), "done") /\ Running(p)
            /\ UNCHANGED <<font, mine, buf, pipe, bursts, kills, old, was, loaded>>
        BY <1>4, <2>2 DEF TellKernel, Does
      <3>2. kpal' \in Palette
        BY <3>1 DEF TypeInv
      <3>3. CardOK(card')
        BY <3>1, <3>2, SwitchedCard DEF TypeInv
      <3> QED
        BY <3>1, <3>2, <3>3, RestIsGood, GoOnType DEF TypeInv
    <2> QED
      BY <2>1, <2>2
  <1>5. CASE FontProg(p)
    <2>1. /\ GoOn(p, Rest(p), "done") /\ Running(p)
          /\ UNCHANGED <<card, kpal, mine, buf, pipe, bursts, kills, old, was>>
      BY <1>5 DEF FontProg, Does
    <2>2. font' \in {"normal", "fast"} /\ loaded' \in [Programs -> BOOLEAN]
      BY <1>5 DEF FontProg, TypeInv
    <2> QED
      BY <2>1, <2>2, RestIsGood, GoOnType DEF TypeInv
  <1>6. CASE NextLine(p)
    <2>1. /\ Running(p)
          /\ UNCHANGED <<card, kpal, font, mine, buf, bursts, kills, old, was, loaded>>
      BY <1>6 DEF NextLine, Does
    <2>2. CASE pipe # <<>>
      <3> DEFINE line == Head(pipe)
                 put == Colour(line[1], line[2])
                 rest == <<put>> \o calls[p]
      <3>1. GoOn(p, rest, "done") /\ pipe' = Tail(pipe)
        BY <1>6, <2>2 DEF NextLine
      <3>2. line \in Line /\ pipe' \in Seq(Line)
        BY <2>2, <3>1 DEF TypeInv
      <3>3. put \in GoodCall
        <4>1. line[1] \in 0..DacSize - 1 /\ line[2] \in [1..3 -> Int]
          <5> HIDE DEF line
          <5>1. line[1] \in 0..DacSize - 1 /\ line[2] \in [1..3 -> Byte]
            BY <3>2 DEF Line
          <5> QED
            BY <5>1 DEF Byte
        <4> DEFINE i == line[1]
                   rgb == line[2]
        <4> HIDE DEF i, rgb
        <4>2. put = [do |-> "rgb", set |-> "DAC", index |-> i, rgb |-> rgb]
          BY DEF Colour, i, rgb
        <4>3. i \in 0..DacSize - 1 /\ rgb \in [1..3 -> Int]
          BY <4>1 DEF i, rgb
        <4> HIDE DEF put
        <4>4. put \in CallSet
          BY <4>2, <4>3 DEF CallSet
        <4> QED
          BY <4>2, <4>4 DEF GoodCall
      <3> HIDE DEF put, line
      <3>4. rest \in Seq(GoodCall)
        BY <3>3 DEF TypeInv
      <3> HIDE DEF rest
      <3> QED
        BY <2>1, <3>1, <3>2, <3>4, GoOnType DEF TypeInv
    <2>3. CASE pipe = <<>>
      <3>1. GoOn(p, Rest(p), "done") /\ UNCHANGED pipe
        BY <1>6, <2>3 DEF NextLine
      <3> QED
        BY <2>1, <3>1, RestIsGood, GoOnType DEF TypeInv
    <2> QED
      BY <2>2, <2>3
  <1>7. CASE Exit(p)
    <2>1. /\ GoOn(p, Rest(p), "done") /\ Running(p)
          /\ pipe' = pipe \o buf /\ buf' = <<>>
          /\ UNCHANGED <<card, kpal, font, mine, bursts, kills, old, was, loaded>>
      BY <1>7 DEF Exit, Does
    <2>2. pipe' \in Seq(Line) /\ buf' \in Seq(Line)
      BY <2>1 DEF TypeInv
    <2> QED
      BY <2>1, <2>2, RestIsGood, GoOnType DEF TypeInv
  <1> QED
    BY <1>1, <1>2, <1>3, <1>4, <1>5, <1>6, <1>7 DEF Calls

LEMMA KillType ==
  ASSUME TypeInv, NEW p \in Programs, Kill(p)
  PROVE  TypeInv'
  <1>1. /\ calls' = [calls EXCEPT ![p] = <<>>] /\ kills > 0 /\ kills' = kills - 1
        /\ ended' = [ended EXCEPT ![p] = "killed"]
        /\ UNCHANGED <<card, kpal, font, job, pc, got, mine, buf, pipe, bursts,
                       hits, old, was, alone, loaded, last>>
    BY DEF Kill, history
  <1>2. /\ calls' \in [Programs -> Seq(GoodCall)] /\ kills' \in Nat
        /\ ended' \in [Programs -> {"run", "done", "aborted", "killed"}]
    BY <1>1 DEF TypeInv
  <1>3. ASSUME NEW q \in Programs PROVE Fits(q)'
    <2>1. Fits(q) /\ got'[q] = got[q] /\ pc'[q] = pc[q] /\ hits'[q] = hits[q]
      BY <1>1 DEF TypeInv
    <2>2. CASE q = p
      <3>1. calls'[q] = <<>>
        BY <1>1, <2>2 DEF TypeInv
      <3>2. ~UsesPorts(q)'
        BY <3>1 DEF UsesPorts, Running
      <3> QED
        BY <2>1, <3>1, <3>2 DEF Fits
    <2>3. CASE q # p
      <3>1. calls'[q] = calls[q]
        BY <1>1, <2>3 DEF TypeInv
      <3> QED
        BY <2>1, <3>1, StillFits DEF Fits
    <2> QED
      BY <2>2, <2>3
  <1> QED
    BY <1>1, <1>2, <1>3 DEF TypeInv

LEMMA BurstType ==
  ASSUME TypeInv, NEW use, NEW sets, NEW c, CardOK(c), Burst(use, sets, c)
  PROVE  TypeInv'
  <1>1. /\ bursts > 0 /\ bursts' = bursts - 1 /\ card' = c
        /\ UNCHANGED <<kpal, font, job, calls, pc, got, mine, ended, buf, pipe, kills,
                       old, was, alone, loaded, last>>
        /\ hits' = [p \in Programs |->
                      IF UsesPorts(p) /\ pc[p] > 1 /\ Current(p).set \in sets
                      THEN hits[p] + 1 ELSE hits[p]]
    BY DEF Burst, local
  <1>2. hits' \in [Programs -> Nat] /\ bursts' \in Nat
    <2>1. \A p \in Programs : hits[p] \in Nat
      BY DEF TypeInv
    <2>2. hits' \in [Programs -> Nat]
      BY <1>1, <2>1
    <2> QED
      BY <1>1, <2>2 DEF TypeInv
  <1>3. ASSUME NEW q \in Programs PROVE Fits(q)'
    <2>1. Fits(q) /\ hits'[q] \in Nat
      BY <1>2 DEF TypeInv
    <2>2. got'[q] = got[q] /\ pc'[q] = pc[q] /\ calls'[q] = calls[q]
      BY <1>1
    <2>3. pc[q] = 1 => hits'[q] = hits[q]
      BY <1>1
    <2> QED
      BY <2>1, <2>2, <2>3, StillFits
  <1> QED
    BY <1>1, <1>2, <1>3 DEF TypeInv

LEMMA KernelType ==
  ASSUME TypeInv, KernelCursor \/ KernelAttributes \/ KernelFont \/ KernelSwitch
  PROVE  TypeInv'
  <1>1. CardOK(card) /\ kpal \in Palette
    BY DEF TypeInv
  <1>2. CASE KernelCursor
    <2>1. PICK e : CardOK(e) /\ CursorMoved(e, card) /\ Burst("cursor", {"CRTC"}, e)
      BY <1>1, <1>2, CursorBurst
    <2> QED
      BY <2>1, BurstType
  <1>3. CASE KernelAttributes
    <2> DEFINE e == [card EXCEPT !.flip = FALSE, !.ix["ATR"] = 48]
               f == [card EXCEPT !.flip = FALSE]
    <2>1. Burst("attributes", {"ATR"}, e) \/ Burst("attributes", {"ATR"}, f)
      BY <1>3, Zenon DEF KernelAttributes
    <2>2. CardOK(e) /\ CardOK(f)
      BY <1>1, AttributesCard
    <2> HIDE DEF e, f
    <2> QED
      BY <2>1, <2>2, BurstType
  <1>4. CASE KernelFont
    <2> DEFINE e == [card EXCEPT !.ix["SEQ"] = 0, !.ix["GR"] = 0]
    <2>1. Burst("font", {"SEQ", "GR"}, e)
      BY <1>4 DEF KernelFont
    <2>2. CardOK(e)
      BY <1>1, FontCard
    <2> HIDE DEF e
    <2> QED
      BY <2>1, <2>2, BurstType
  <1>5. CASE KernelSwitch
    <2> DEFINE e == Switched(card, kpal)
    <2>1. Burst("switch", {"DAC"}, e)
      BY <1>5 DEF KernelSwitch
    <2>2. CardOK(e)
      BY <1>1, SwitchedCard
    <2> HIDE DEF e
    <2> QED
      BY <2>1, <2>2, BurstType
  <1> QED
    BY <1>2, <1>3, <1>4, <1>5

LEMMA StepType == TypeInv /\ [Next]_vars => TypeInv'
  <1> SUFFICES ASSUME TypeInv, [Next]_vars
               PROVE  TypeInv'
    OBVIOUS
  <1>1. CASE Next
    BY <1>1, CallsType, KillType, KernelType DEF Next
  <1>2. CASE UNCHANGED vars
    <2>1. UNCHANGED <<card, kpal, font, buf, pipe, bursts, kills, job, calls, pc, got, mine, ended,
                      hits, old, was, alone, loaded, last>>
      BY <1>2 DEF vars, local, history
    <2>2. ASSUME NEW q \in Programs PROVE Fits(q)'
      BY <2>1, StillFits DEF TypeInv, Fits
    <2> QED
      BY <2>1, <2>2 DEF TypeInv
  <1> QED
    BY <1>1, <1>2

\* The state keeps its shape, every program's place in its calls included,
\* whatever the jobs are made of and whoever interrupts whom.
THEOREM ToolsTypeCorrect == Spec => []TypeInv
  BY InitType, StepType, PTL DEF Spec
-----------------------------------------------------------------------------
(* Where each program stands in its call.                                  *)

\* An attribute call, once it has begun and as long as no other program comes
\* in: the index write meets the flip-flop reset, the data write meets the
\* register's own index or does nothing, and without the kernel every access
\* does its part; written once, the value stays, and the second write repairs
\* what one burst made of the first.
AtrHolds(p) ==
  LET c == Current(p)
      k == pc[p]
      at == card.ix["ATR"]
      reg == card.reg["ATR"][c.index]
      written == AtrStart(c)
  IN  alone[p] /\ UsesPorts(p) /\ c.set = "ATR" =>
        /\ k \in {2, 5, 8, 11} => ~card.flip
        /\ k \in {3, 6, 9, 12} => (card.flip => at % 32 = c.index)
        /\ k \in {3, 6, 9, 12} /\ hits[p] = 0 => card.flip /\ at % 32 = c.index
        /\ k \in {6, 12} /\ hits[p] = 0 => at = c.index + 32
        /\ c.do \in {"out", "modify"} =>
             /\ k \in {written + 4, written + 5, written + 6} /\ hits[p] = 0 => reg = Value(p)
             /\ k = written + 6 /\ hits[p] = 1 => reg = Value(p) \/ (card.flip /\ at % 32 = c.index)
        /\ c.do = "modify" =>
             /\ k <= 3 => got[p] = <<>>
             /\ k \in {2, 3} /\ hits[p] = 0 => reg = old[p]
             /\ k > 3 /\ hits[p] = 0 => got[p] = <<old[p]>>

\* A read-modify-write through index and data ports, or of a port.
ModifyHolds(p) ==
  LET c == Current(p)
      k == pc[p]
  IN  alone[p] /\ UsesPorts(p) /\ c.do = "modify" =>
        /\ c.set \in Indexed =>
             /\ k = 2 => got[p] = <<>>
             /\ k = 2 /\ hits[p] = 0 => card.ix[c.set] = c.index /\ card.reg[c.set][c.index] = old[p]
             /\ k = 3 /\ hits[p] = 0 => got[p] = <<old[p]>>
        /\ c.set = "PORT" => (k = 2 => got[p] = <<old[p]>>)

\* A colour: its entry, or after a console switch the entry text does not use.
ColourHolds(p) ==
  LET c == Current(p)
      k == pc[p]
  IN  alone[p] /\ UsesPorts(p) /\ c.do = "rgb" /\ k > 1 =>
        /\ hits[p] = 0 => card.dac.at = c.index /\ card.dac.n = k - 2
        /\ hits[p] > 0 => card.dac.at = 16 /\ card.dac.n <= k - 2

Holds(p) == AtrHolds(p) /\ ModifyHolds(p) /\ ColourHolds(p)
CallInv == \A p \in Programs : Holds(p)

(***************************************************************************)
(* What the next access does to the card.                                  *)
(***************************************************************************)
LEMMA IndexedCard ==
  ASSUME NEW p, Fits(p), UsesPorts(p), CardOK(card), Current(p).set \in Indexed
  PROVE  LET c == Current(p)
             e == Effect(card, Code(p)[pc[p]])
         IN  /\ e.dac = card.dac /\ e.flip = card.flip
             /\ c.do \in {"out", "modify"} /\ Finishes(p) =>
                  e.reg = [card.reg EXCEPT ![c.set] = [card.reg[c.set] EXCEPT ![c.index] = Value(p)]]
             /\ ~(c.do \in {"out", "modify"} /\ Finishes(p)) => e.reg = card.reg
             /\ c.do = "modify" /\ pc[p] = 1 => ~Finishes(p) /\ e.ix = [card.ix EXCEPT ![c.set] = c.index]
             /\ c.do = "modify" /\ pc[p] = 2 => ~Finishes(p) /\ e = card
             /\ c.do = "modify" => pc[p] \in 1..3 /\ (Finishes(p) <=> pc[p] = 3)
  <1> DEFINE c == Current(p)
             a == Code(p)[pc[p]]
             e == Effect(card, a)
             v == Value(p)
             s == c.set
             i == c.index
             writes == c.do \in {"out", "modify"} /\ Finishes(p)
  <1>1. \/ /\ writes /\ a = Outw(s, i, v)
           /\ c.do = "modify" => pc[p] = 3
        \/ /\ c.do \in {"in", "modify"} /\ ~Finishes(p) /\ pc[p] = 1
           /\ a = OutIndex(s, i)
        \/ /\ c.do \in {"in", "modify"} /\ pc[p] = 2 /\ (Finishes(p) <=> c.do = "in")
           /\ a = InData(s)
    BY IndexedAccess
  <1>2. s \in Indexed
    OBVIOUS
  <1> HIDE DEF c, a, v, s, i
  <1>3. CASE writes /\ a = Outw(s, i, v) /\ (c.do = "modify" => pc[p] = 3)
    <2>1. e = Effect(card, Outw(s, i, v)) /\ s \in Indexed
      BY <1>2, <1>3
    <2> HIDE DEF e
    <2>2. /\ IsCard(e, [card.ix EXCEPT ![s] = i],
                    [card.reg EXCEPT ![s] = [card.reg[s] EXCEPT ![i] = v]], card.dac)
          /\ e.flip = card.flip
      BY <2>1 DEF Effect, Outw, CardOK, IsCard
    <2> QED
      BY <1>3, <2>2 DEF IsCard, e, a, c, s, i, v
  <1>4. CASE c.do \in {"in", "modify"} /\ ~Finishes(p) /\ pc[p] = 1 /\ a = OutIndex(s, i)
    <2>1. e = Effect(card, OutIndex(s, i))
      BY <1>4
    <2> HIDE DEF e
    <2>2. IsCard(e, [card.ix EXCEPT ![s] = i], card.reg, card.dac) /\ e.flip = card.flip
      BY <1>2, <2>1, IndexEffect, Zenon
    <2> QED
      BY <1>4, <2>2 DEF IsCard, e, a, c, s, i
  <1>5. CASE c.do \in {"in", "modify"} /\ pc[p] = 2 /\ (Finishes(p) <=> c.do = "in") /\ a = InData(s)
    <2>1. e = card
      BY <1>5, ReadEffect
    <2> QED
      BY <1>5, <2>1 DEF e, a, c
  <1> QED
    BY <1>1, <1>3, <1>4, <1>5

LEMMA PortCard ==
  ASSUME NEW p, Fits(p), UsesPorts(p), CardOK(card), Current(p).set = "PORT"
  PROVE  LET c == Current(p)
             e == Effect(card, Code(p)[pc[p]])
         IN  /\ e.dac = card.dac /\ e.flip = card.flip
             /\ c.do \in {"out", "modify"} /\ Finishes(p) =>
                  e.reg = [card.reg EXCEPT !["PORT"] = [card.reg["PORT"] EXCEPT ![c.index] = Value(p)]]
             /\ ~(c.do \in {"out", "modify"} /\ Finishes(p)) => e.reg = card.reg
             /\ c.do = "modify" => pc[p] \in 1..2 /\ (Finishes(p) <=> pc[p] = 2)
  <1> DEFINE c == Current(p)
             a == Code(p)[pc[p]]
             e == Effect(card, a)
             v == Value(p)
             i == c.index
  <1>1. \/ /\ c.do \in {"out", "modify"} /\ Finishes(p) /\ a = OutPort(i, v)
           /\ c.do = "modify" => pc[p] = 2
        \/ /\ c.do \in {"in", "modify"} /\ pc[p] = 1 /\ (Finishes(p) <=> c.do = "in")
           /\ a = InPort(i)
    BY PortAccess
  <1> HIDE DEF c, a, v, i
  <1>2. CASE c.do \in {"out", "modify"} /\ Finishes(p) /\ a = OutPort(i, v) /\ (c.do = "modify" => pc[p] = 2)
    <2>1. e = Effect(card, OutPort(i, v))
      BY <1>2
    <2> HIDE DEF e
    <2>2. /\ IsCard(e, card.ix, [card.reg EXCEPT !["PORT"] = [card.reg["PORT"] EXCEPT ![i] = v]], card.dac)
          /\ e.flip = card.flip
      BY <2>1, OutPortEffect, Zenon
    <2> QED
      BY <1>2, <2>2 DEF IsCard, e, a, c, i, v
  <1>3. CASE c.do \in {"in", "modify"} /\ pc[p] = 1 /\ (Finishes(p) <=> c.do = "in") /\ a = InPort(i)
    <2>1. e = card
      BY <1>3, ReadEffect
    <2> QED
      BY <1>3, <2>1 DEF e, a, c
  <1> QED
    BY <1>1, <1>2, <1>3

LEMMA AtrCard ==
  ASSUME NEW p, Fits(p), UsesPorts(p), CardOK(card), Current(p).set = "ATR"
  PROVE  LET c == Current(p)
             k == pc[p]
             w == AtrStart(c)
             v == Value(p)
             e == Effect(card, Code(p)[k])
         IN  /\ e.dac = card.dac
             /\ k \in {1, 4, 7, 10} => e.flip = FALSE /\ e.ix = card.ix /\ e.reg = card.reg
             /\ k \in {2, 8} /\ ~card.flip =>
                  e.flip = TRUE /\ e.ix["ATR"] = c.index /\ e.reg = card.reg
             /\ k \in {5, 11} /\ ~card.flip =>
                  e.flip = TRUE /\ e.ix["ATR"] = c.index + 32 /\ e.reg = card.reg
             /\ c.do \in {"in", "modify"} /\ k \in {3, 6} => e = card
             /\ c.do \in {"out", "modify"} /\ k \in {w + 3, w + 6} =>
                  /\ card.flip => /\ e.flip = FALSE /\ e.ix = card.ix
                                  /\ e.reg = [card.reg EXCEPT !["ATR"] =
                                                [card.reg["ATR"] EXCEPT ![card.ix["ATR"] % 32] = v]]
                  /\ ~card.flip => e.flip = TRUE /\ e.reg = card.reg
  <1> DEFINE c == Current(p)
             k == pc[p]
             w == AtrStart(c)
             v == Value(p)
             a == Code(p)[k]
             e == Effect(card, a)
  <1>1. /\ c.do \in {"out", "in", "modify"} /\ c.index \in 0..31
        /\ k \in 1..12 /\ (c.do # "modify" => k <= 6)
        /\ k \in {1, 4, 7, 10} => a = InStatus
        /\ k \in {2, 8} => a = OutAtr(c.index)
        /\ k \in {5, 11} => a = OutAtr(c.index + 32)
        /\ c.do \in {"in", "modify"} /\ k = 3 => a = InAtr(TRUE)
        /\ c.do \in {"in", "modify"} /\ k = 6 => a = InAtr(FALSE)
        /\ c.do \in {"out", "modify"} /\ k \in {w + 3, w + 6} => a = OutAtr(v)
    BY AtrAccess
  <1>2. w = IF c.do = "out" THEN 0 ELSE 6
    BY DEF AtrStart
  <1>3. ASSUME a = InStatus
        PROVE  e.dac = card.dac /\ e.flip = FALSE /\ e.ix = card.ix /\ e.reg = card.reg
    <2>1. IsCard(e, card.ix, card.reg, card.dac) /\ e.flip = FALSE
      BY <1>3, StatusEffect
    <2> HIDE DEF e
    <2> QED
      BY <2>1 DEF IsCard
  <1>4. ASSUME NEW d \in 0..63, a = OutAtr(d), ~card.flip
        PROVE  e.dac = card.dac /\ e.flip = TRUE /\ e.ix["ATR"] = d /\ e.reg = card.reg
    <2>1. IsCard(e, [card.ix EXCEPT !["ATR"] = d % 64], card.reg, card.dac) /\ e.flip = TRUE
      BY <1>4, AtrIndexEffect
    <2>2. d % 64 = d
      OBVIOUS
    <2>3. "ATR" \in DOMAIN card.ix
      BY DEF CardOK, IxOK, Sets
    <2> HIDE DEF e
    <2> QED
      BY <2>1, <2>2, <2>3 DEF IsCard
  <1>5. ASSUME a = OutAtr(v)
        PROVE  /\ e.dac = card.dac
               /\ card.flip => /\ e.flip = FALSE /\ e.ix = card.ix
                               /\ e.reg = [card.reg EXCEPT !["ATR"] =
                                             [card.reg["ATR"] EXCEPT ![card.ix["ATR"] % 32] = v]]
               /\ ~card.flip => e.flip = TRUE /\ e.reg = card.reg
    <2> HIDE DEF v
    <2>1. CASE card.flip
      <3>1. /\ IsCard(e, card.ix, [card.reg EXCEPT !["ATR"] =
                                     [card.reg["ATR"] EXCEPT ![card.ix["ATR"] % 32] = v]], card.dac)
            /\ e.flip = FALSE
        BY <1>5, <2>1, AtrDataEffect
      <3> HIDE DEF e
      <3> QED
        BY <2>1, <3>1 DEF IsCard
    <2>2. CASE ~card.flip
      <3>1. IsCard(e, [card.ix EXCEPT !["ATR"] = v % 64], card.reg, card.dac) /\ e.flip = TRUE
        BY <1>5, <2>2, AtrIndexEffect
      <3> HIDE DEF e
      <3> QED
        BY <2>2, <3>1 DEF IsCard
    <2> QED
      BY <2>1, <2>2
  <1>6. ASSUME c.do \in {"in", "modify"}, k \in {3, 6}
        PROVE  e = card
    <2>1. a = InAtr(TRUE) \/ a = InAtr(FALSE)
      BY <1>1, <1>6, Zenon
    <2> QED
      BY <2>1, ReadEffect, Zenon DEF e
  <1>7. ASSUME k \in {2, 8}, ~card.flip
        PROVE  e.dac = card.dac /\ e.flip = TRUE /\ e.ix["ATR"] = c.index /\ e.reg = card.reg
    <2>1. a = OutAtr(c.index) /\ c.index \in 0..63
      BY <1>1, <1>7
    <2> HIDE DEF e, a, c, k
    <2> QED
      BY <1>4, <1>7, <2>1
  <1>8. ASSUME k \in {5, 11}, ~card.flip
        PROVE  e.dac = card.dac /\ e.flip = TRUE /\ e.ix["ATR"] = c.index + 32 /\ e.reg = card.reg
    <2>1. a = OutAtr(c.index + 32) /\ c.index + 32 \in 0..63
      BY <1>1, <1>8
    <2> HIDE DEF e, a, c, k
    <2> QED
      BY <1>4, <1>8, <2>1
  <1>9. ASSUME card.flip, NEW d, a = OutAtr(d)
        PROVE  e.dac = card.dac
    <2>1. IsCard(e, card.ix, [card.reg EXCEPT !["ATR"] =
                                [card.reg["ATR"] EXCEPT ![card.ix["ATR"] % 32] = d]], card.dac)
      BY <1>9, AtrDataEffect
    <2> HIDE DEF e
    <2> QED
      BY <2>1 DEF IsCard
  <1> HIDE DEF e, a, c, k, v, w
  <1>10. \/ k \in {1, 4, 7, 10} \/ k \in {2, 8} \/ k \in {5, 11}
         \/ c.do \in {"in", "modify"} /\ k \in {3, 6}
         \/ c.do \in {"out", "modify"} /\ k \in {w + 3, w + 6}
    BY <1>1, <1>2
  <1>11. e.dac = card.dac
    <2>1. CASE k \in {2, 8}
      BY <1>1, <1>7, <1>9, <2>1
    <2>2. CASE k \in {5, 11}
      BY <1>1, <1>8, <1>9, <2>2
    <2>3. CASE k \in {1, 4, 7, 10}
      BY <1>1, <1>3, <2>3
    <2>4. CASE c.do \in {"in", "modify"} /\ k \in {3, 6}
      BY <1>6, <2>4
    <2>5. CASE c.do \in {"out", "modify"} /\ k \in {w + 3, w + 6}
      BY <1>1, <1>5, <2>5
    <2> QED
      BY <1>10, <2>1, <2>2, <2>3, <2>4, <2>5
  <1>12. k \in {1, 4, 7, 10} => e.flip = FALSE /\ e.ix = card.ix /\ e.reg = card.reg
    BY <1>1, <1>3
  <1>13. c.do \in {"out", "modify"} /\ k \in {w + 3, w + 6} =>
                  /\ card.flip => /\ e.flip = FALSE /\ e.ix = card.ix
                                  /\ e.reg = [card.reg EXCEPT !["ATR"] =
                                                [card.reg["ATR"] EXCEPT ![card.ix["ATR"] % 32] = v]]
                  /\ ~card.flip => e.flip = TRUE /\ e.reg = card.reg
    BY <1>1, <1>5
  <1> QED
    BY <1>6, <1>7, <1>8, <1>11, <1>12, <1>13, Zenon DEF e, a, c, k, v, w

LEMMA DacCard ==
  ASSUME NEW p, Fits(p), UsesPorts(p), CardOK(card), Current(p).set = "DAC"
  PROVE  LET c == Current(p)
             k == pc[p]
             e == Effect(card, Code(p)[k])
         IN  /\ e.reg = card.reg /\ e.ix = card.ix /\ e.flip = card.flip
             /\ k = 1 => e.dac.at = c.index /\ e.dac.n = 0 /\ e.dac.col = card.dac.col
             /\ k > 1 /\ c.do = "rgb" => e.dac = DacTakes(card.dac, c.rgb[k - 1]) /\ c.rgb[k - 1] \in Int
             /\ k > 1 /\ c.do = "dump" => e.dac.col = card.dac.col
  <1> DEFINE c == Current(p)
             k == pc[p]
             a == Code(p)[k]
             e == Effect(card, a)
             b == c.rgb[k - 1]
             i == c.index
  <1>1. /\ c.do \in {"rgb", "dump"} /\ i \in 0..DacSize - 1
        /\ k \in 1..4
        /\ k = 1 => a = DacIndex(i)
        /\ c.do = "rgb" => c.rgb \in [1..3 -> Int]
        /\ c.do = "rgb" /\ k > 1 => a = OutDac(b)
        /\ c.do = "dump" /\ k > 1 => a = InDac
    BY DacAccess
  <1>2. card.dac \in DacType
    BY DEF CardOK
  <1>3. c.do = "rgb" /\ k > 1 => b \in Int
    <2> HIDE DEF c
    <2> QED
      BY <1>1
  <1> HIDE DEF c, i, b, a
  <1>4. CASE k = 1
    <2> DEFINE d == [card.dac EXCEPT !.at = i, !.n = 0, !.got = NoColour]
               f == Effect(card, DacIndex(i))
    <2>1. IsCard(f, card.ix, card.reg, d) /\ f.flip = card.flip
      BY DacEffect, Zenon
    <2>2. d.at = i /\ d.n = 0 /\ d.col = card.dac.col
      BY <1>1, <1>2, DacIndexed
    <2>3. e = f
      BY <1>1, <1>4
    <2> HIDE DEF d, e, f
    <2>4. e.reg = card.reg /\ e.ix = card.ix /\ e.dac = d /\ e.flip = card.flip
      BY <2>1, <2>3 DEF IsCard
    <2> QED
      BY <1>4, <2>2, <2>4 DEF e, a, c, i
  <1>5. CASE k > 1 /\ c.do = "rgb"
    <2>1. /\ IsCard(e, card.ix, card.reg, DacTakes(card.dac, b)) /\ e.flip = card.flip
      BY <1>1, <1>5, DacEffect
    <2> HIDE DEF e
    <2>2. e.reg = card.reg /\ e.ix = card.ix /\ e.dac = DacTakes(card.dac, b) /\ e.flip = card.flip
      BY <2>1 DEF IsCard
    <2> QED
      BY <1>3, <1>5, <2>2 DEF e, a, c, b
  <1>6. CASE k > 1 /\ c.do = "dump"
    <2>1. /\ IsCard(e, card.ix, card.reg, DacStep(card.dac)) /\ e.flip = card.flip
      BY <1>1, <1>6, DacEffect
    <2>2. DacStep(card.dac).col = card.dac.col
      BY <1>2, DacSteps
    <2> HIDE DEF e
    <2>3. e.reg = card.reg /\ e.ix = card.ix /\ e.dac.col = card.dac.col /\ e.flip = card.flip
      BY <2>1, <2>2 DEF IsCard
    <2> QED
      BY <1>6, <2>3 DEF e, a, c
  <1> QED
    BY <1>1, <1>4, <1>5, <1>6

(***************************************************************************)
(* What the next access reads.                                             *)
(***************************************************************************)
LEMMA ModifyReads ==
  ASSUME NEW p, Fits(p), UsesPorts(p), Current(p).do = "modify"
  PROVE  LET c == Current(p)
             read == Reads(card, Code(p)[pc[p]])
         IN  /\ c.set \in Indexed /\ pc[p] = 1 => read = <<>>
             /\ c.set \in Indexed /\ pc[p] = 2 => read = <<card.reg[c.set][card.ix[c.set]]>>
             /\ c.set = "PORT" /\ pc[p] = 1 => read = <<card.reg["PORT"][c.index]>>
  <1> DEFINE c == Current(p)
             a == Code(p)[pc[p]]
             s == c.set
             i == c.index
  <1>1. ASSUME s \in Indexed, pc[p] = 1
        PROVE  Reads(card, a) = <<>>
    <2>1. a = OutIndex(s, i)
      BY <1>1, IndexedAccess
    <2> HIDE DEF a, s, i
    <2> QED
      BY <2>1 DEF Reads, OutIndex
  <1>2. ASSUME s \in Indexed, pc[p] = 2
        PROVE  Reads(card, a) = <<card.reg[s][card.ix[s]]>>
    <2>1. a = InData(s)
      BY <1>2, IndexedAccess
    <2> HIDE DEF a, s, i
    <2> QED
      BY <2>1 DEF Reads, InData
  <1>3. ASSUME s = "PORT", pc[p] = 1
        PROVE  Reads(card, a) = <<card.reg["PORT"][i]>>
    <2>1. a = InPort(i)
      BY <1>3, PortAccess
    <2> HIDE DEF a, s, i
    <2> QED
      BY <2>1 DEF Reads, InPort
  <1> QED
    BY <1>1, <1>2, <1>3

LEMMA AtrReads ==
  ASSUME NEW p, Fits(p), UsesPorts(p), Current(p).set = "ATR"
  PROVE  LET c == Current(p)
             read == Reads(card, Code(p)[pc[p]])
         IN  /\ pc[p] # 3 => read = <<>>
             /\ c.do = "modify" /\ pc[p] = 3 => read = <<card.reg["ATR"][card.ix["ATR"] % 32]>>
  <1> DEFINE c == Current(p)
             k == pc[p]
             w == AtrStart(c)
             v == Value(p)
             a == Code(p)[k]
  <1>1. /\ c.do \in {"out", "in", "modify"} /\ c.index \in 0..31
        /\ k \in 1..12 /\ (c.do # "modify" => k <= 6)
        /\ k \in {1, 4, 7, 10} => a = InStatus
        /\ k \in {2, 8} => a = OutAtr(c.index)
        /\ k \in {5, 11} => a = OutAtr(c.index + 32)
        /\ c.do \in {"in", "modify"} /\ k = 3 => a = InAtr(TRUE)
        /\ c.do \in {"in", "modify"} /\ k = 6 => a = InAtr(FALSE)
        /\ c.do \in {"out", "modify"} /\ k \in {w + 3, w + 6} => a = OutAtr(v)
    BY AtrAccess
  <1>2. w = IF c.do = "out" THEN 0 ELSE 6
    BY DEF AtrStart
  <1>3. a = InStatus => Reads(card, a) = <<>>
    BY DEF Reads, InStatus
  <1>4. ASSUME NEW d, a = OutAtr(d) PROVE Reads(card, a) = <<>>
    BY <1>4 DEF Reads, OutAtr
  <1>5. a = InAtr(FALSE) => Reads(card, a) = <<>>
    <2> DEFINE read == InAtr(FALSE)
    <2>1. read.op = "ina" /\ read.kept = FALSE
      BY DEF InAtr
    <2> HIDE DEF read
    <2>2. Reads(card, read) = <<>>
      BY <2>1 DEF Reads
    <2> QED
      BY <2>2, Zenon DEF read
  <1>6. a = InAtr(TRUE) => Reads(card, a) = <<card.reg["ATR"][card.ix["ATR"] % 32]>>
    <2> DEFINE read == InAtr(TRUE)
    <2>1. read.op = "ina" /\ read.kept = TRUE
      BY DEF InAtr
    <2> HIDE DEF read
    <2>2. Reads(card, read) = <<card.reg["ATR"][card.ix["ATR"] % 32]>>
      BY <2>1 DEF Reads
    <2> QED
      BY <2>2, Zenon DEF read
  <1> DEFINE read == Reads(card, a)
             off == a = InAtr(FALSE)
             on == a = InAtr(TRUE)
             there == card.reg["ATR"][card.ix["ATR"] % 32]
  <1>7. (off => read = <<>>) /\ (on => read = <<there>>)
    BY <1>5, <1>6
  <1>8. /\ c.do \in {"in", "modify"} /\ k = 3 => on
        /\ c.do \in {"in", "modify"} /\ k = 6 => off
    BY <1>1, Zenon
  <1>9. /\ k \in {1, 4, 7, 10} => read = <<>>
        /\ k \in {2, 8} => read = <<>>
        /\ k \in {5, 11} => read = <<>>
        /\ c.do \in {"out", "modify"} /\ k \in {w + 3, w + 6} => read = <<>>
    BY <1>1, <1>3, <1>4, Zenon
  <1>10. c.do \in {"out", "in", "modify"} /\ k \in 1..12 /\ (c.do # "modify" => k <= 6)
    BY <1>1, Zenon
  <1> HIDE DEF read, off, on, there, c, k, w
  <1>11. /\ k # 3 => read = <<>>
         /\ c.do = "modify" /\ k = 3 => read = <<there>>
    BY <1>2, <1>7, <1>8, <1>9, <1>10
  <1> QED
    BY <1>11 DEF read, there, c, k, a

(***************************************************************************)
(* Where a program stands survives what it does and what happens to it.    *)
(***************************************************************************)
LEMMA HoldsNotAlone ==
  ASSUME NEW p, ~alone'[p]
  PROVE  Holds(p)'
  BY DEF Holds, AtrHolds, ModifyHolds, ColourHolds

LEMMA HoldsAtFirst ==
  ASSUME NEW p, pc'[p] = 1, got'[p] = <<>>
  PROVE  Holds(p)'
  <1>1. AtrHolds(p)'
    <2> DEFINE c == Current(p)'
    <2>1. AtrStart(c) \in {0, 6}
      BY DEF AtrStart
    <2> QED
      BY <2>1 DEF AtrHolds
  <1>2. ModifyHolds(p)' /\ ColourHolds(p)'
    BY DEF ModifyHolds, ColourHolds
  <1> QED
    BY <1>1, <1>2 DEF Holds

\* Nothing of what it relies on has changed.
LEMMA HoldsKept ==
  ASSUME NEW p, Holds(p), calls'[p] = calls[p], pc'[p] = pc[p], got'[p] = got[p], hits'[p] = hits[p],
         old'[p] = old[p], alone'[p] = alone[p],
         Current(p).set = "ATR" => /\ card'.flip = card.flip /\ card'.ix["ATR"] = card.ix["ATR"]
                                   /\ card'.reg["ATR"] = card.reg["ATR"],
         Current(p).set \in Indexed => /\ card'.ix[Current(p).set] = card.ix[Current(p).set]
                                       /\ card'.reg[Current(p).set] = card.reg[Current(p).set],
         Current(p).do = "rgb" => card'.dac = card.dac
  PROVE  Holds(p)'
  <1>1. Current(p)' = Current(p) /\ UsesPorts(p)' = UsesPorts(p) /\ Value(p)' = Value(p)
    BY DEF Current, UsesPorts, Running, Value
  <1>2. AtrHolds(p)'
    BY <1>1 DEF Holds, AtrHolds
  <1>3. ModifyHolds(p)'
    BY <1>1 DEF Holds, ModifyHolds
  <1>4. ColourHolds(p)'
    BY <1>1 DEF Holds, ColourHolds
  <1> QED
    BY <1>2, <1>3, <1>4 DEF Holds

\* The kernel came in on its registers.
LEMMA HoldsHit ==
  ASSUME NEW p, Fits(p), Holds(p), calls'[p] = calls[p], pc'[p] = pc[p], got'[p] = got[p],
         hits'[p] = hits[p] + 1, pc[p] > 1, old'[p] = old[p], alone'[p] = alone[p],
         Current(p).set = "ATR" => card'.flip = FALSE /\ card'.reg["ATR"] = card.reg["ATR"],
         Current(p).do = "rgb" => card'.dac.at = 16 /\ card'.dac.n = 0
  PROVE  Holds(p)'
  <1>1. Current(p)' = Current(p) /\ UsesPorts(p)' = UsesPorts(p) /\ Value(p)' = Value(p)
    BY DEF Current, UsesPorts, Running, Value
  <1>2. hits[p] \in Nat /\ pc[p] \in Nat
    BY DEF Fits
  <1>3. AtrHolds(p)'
    BY <1>1, <1>2 DEF Holds, AtrHolds
  <1>4. ModifyHolds(p)'
    BY <1>1, <1>2 DEF Holds, ModifyHolds
  <1>5. ColourHolds(p)'
    BY <1>1, <1>2 DEF Holds, ColourHolds
  <1> QED
    BY <1>3, <1>4, <1>5 DEF Holds

\* Its own access, not the last of the call.
LEMMA AtrMoved ==
  ASSUME TypeInv, NEW p \in Programs, Holds(p), Access(p), ~Finishes(p), Current(p).set = "ATR",
         pc[p] > 1 => alone[p]
  PROVE  AtrHolds(p)'
  <1> DEFINE c == Current(p)
             k == pc[p]
             w == AtrStart(c)
             v == Value(p)
             i == c.index
             h == hits[p]
             a == Code(p)[k]
             e == Effect(card, a)
             read == Reads(card, a)
             x == card.ix["ATR"]
             r == card.reg["ATR"]
  <1>1. /\ UsesPorts(p) /\ card' = e
        /\ pc' = [pc EXCEPT ![p] = k + 1] /\ got' = [got EXCEPT ![p] = got[p] \o read]
        /\ calls' = calls /\ hits' = hits
        /\ old' = [old EXCEPT ![p] = IF k = 1 /\ c.set \in Sets THEN card.reg[c.set][i] ELSE old[p]]
    BY AccessSteps
  <1>2. Fits(p) /\ CardOK(card)
    BY DEF TypeInv
  <1>3. /\ pc'[p] = k + 1 /\ got'[p] = got[p] \o read /\ calls'[p] = calls[p] /\ hits'[p] = h
        /\ old'[p] = IF k = 1 THEN r[i] ELSE old[p]
    BY <1>1 DEF TypeInv, Sets
  <1>4. Current(p)' = c
    BY <1>3 DEF Current
  <1>5. /\ c.do \in {"out", "in", "modify"} /\ i \in 0..31
        /\ k \in 1..12 /\ (c.do # "modify" => k <= 6)
        /\ k # IF c.do = "modify" THEN 12 ELSE 6
    BY <1>1, <1>2, AtrAccess
  <1>6. /\ e.dac = card.dac
        /\ k \in {1, 4, 7, 10} => e.flip = FALSE /\ e.ix = card.ix /\ e.reg = card.reg
        /\ k \in {2, 8} /\ ~card.flip =>
             e.flip = TRUE /\ e.ix["ATR"] = i /\ e.reg = card.reg
        /\ k \in {5, 11} /\ ~card.flip =>
             e.flip = TRUE /\ e.ix["ATR"] = i + 32 /\ e.reg = card.reg
        /\ c.do \in {"in", "modify"} /\ k \in {3, 6} => e = card
        /\ c.do \in {"out", "modify"} /\ k \in {w + 3, w + 6} =>
             /\ card.flip => /\ e.flip = FALSE /\ e.ix = card.ix
                             /\ e.reg = [card.reg EXCEPT !["ATR"] = [r EXCEPT ![x % 32] = v]]
             /\ ~card.flip => e.flip = TRUE /\ e.reg = card.reg
    BY <1>1, <1>2, AtrCard
  <1>7. /\ k # 3 => read = <<>>
        /\ c.do = "modify" /\ k = 3 => read = <<r[x % 32]>>
    BY <1>1, <1>2, AtrReads
  <1>8. k > 1 =>
        /\ k \in {2, 5, 8, 11} => ~card.flip
        /\ k \in {3, 6, 9, 12} => (card.flip => x % 32 = i)
        /\ k \in {3, 6, 9, 12} /\ h = 0 => card.flip /\ x % 32 = i
        /\ c.do \in {"out", "modify"} =>
             /\ k \in {w + 4, w + 5, w + 6} /\ h = 0 => r[i] = v
        /\ c.do = "modify" =>
             /\ k <= 3 => got[p] = <<>>
             /\ k \in {2, 3} /\ h = 0 => r[i] = old[p]
             /\ k > 3 /\ h = 0 => got[p] = <<old[p]>>
    BY <1>1 DEF Holds, AtrHolds
  <1>9. k = 1 => got[p] = <<>>
    BY <1>2 DEF Fits
  <1>10. w = IF c.do = "out" THEN 0 ELSE 6
    BY DEF AtrStart
  <1>11. i \in DOMAIN r /\ "ATR" \in DOMAIN card.reg
    BY <1>2, <1>5, AtrRegisters DEF CardOK, RegOK, Sets
  <1> DEFINE x1 == e.ix["ATR"]
             r1 == e.reg["ATR"]
             v1 == Value(p)'
             g1 == got'[p]
             o1 == old'[p]
  <1>12. k # 3 => g1 = got[p]
    BY <1>2, <1>3, <1>7, ConcatEmptySeq DEF Fits
  <1>13. c.do = "modify" /\ k = 3 => g1 = <<r[x % 32]>>
    <2> SUFFICES ASSUME c.do = "modify", k = 3
                 PROVE  g1 = <<r[x % 32]>>
      OBVIOUS
    <2> DEFINE b == r[x % 32]
    <2>1. got[p] = <<>> /\ read = <<b>>
      BY <1>7, <1>8
    <2> HIDE DEF b
    <2>2. <<b>> \in Seq({b})
      OBVIOUS
    <2>3. <<>> \o <<b>> = <<b>>
      BY <2>2, ConcatEmptySeq
    <2> QED
      BY <1>3, <2>1, <2>3 DEF b
  <1>14. k # 3 => v1 = v
    BY <1>3, <1>4, <1>12 DEF Value
  <1>14a. c.do = "out" => v1 = v
    BY <1>4 DEF Value
  <1>15. i + 32 # i /\ (i + 32) % 32 = i /\ i % 32 = i
    BY <1>5
  <1>16. /\ pc'[p] = k + 1 /\ hits'[p] = h /\ card'.flip = e.flip
         /\ card'.ix["ATR"] = x1 /\ card'.reg["ATR"] = r1
    BY <1>1, <1>3
  <1> HIDE DEF c, k, w, v, i, h, a, read, x, r, x1, r1, v1, g1, o1
  <1>17. (IF k = 1 THEN o1 = r[i] ELSE o1 = old[p])
    BY <1>3 DEF o1
  \* The index written before the data.
  <1>18. /\ k + 1 \in {2, 5, 8, 11} => ~e.flip
         /\ k + 1 \in {3, 9} => e.flip /\ x1 = i /\ r1 = r
         /\ k + 1 \in {6, 12} => e.flip /\ x1 = i + 32 /\ r1 = r
         /\ k \in {1, 4, 7, 10} => r1 = r
    <2>1. k \in {1, 4, 7, 10} => ~e.flip /\ r1 = r
      BY <1>6 DEF r1, r
    <2>2. k \in {2, 8} => e.flip /\ x1 = i /\ r1 = r
      BY <1>6, <1>8 DEF r1, r, x1
    <2>3. k \in {5, 11} => e.flip /\ x1 = i + 32 /\ r1 = r
      BY <1>6, <1>8 DEF r1, r, x1
    <2> HIDE DEF e
    <2> QED
      BY <1>5, <2>1, <2>2, <2>3
  \* The first of the two data writes.
  <1>19. c.do \in {"out", "modify"} /\ k = w + 3 /\ h = 0 => r1[i] = v
    <2> SUFFICES ASSUME c.do \in {"out", "modify"}, k = w + 3, h = 0
                 PROVE  r1[i] = v
      OBVIOUS
    <2>1. k \in {3, 9}
      BY <1>10
    <2>2. card.flip /\ x % 32 = i
      BY <1>8, <2>1
    <2>3. e.reg = [card.reg EXCEPT !["ATR"] = [r EXCEPT ![x % 32] = v]]
      BY <1>6, <2>2
    <2> HIDE DEF e
    <2> QED
      BY <1>11, <2>2, <2>3 DEF r1
  <1> HIDE DEF e
  <1>20. /\ k + 1 \in {2, 5, 8, 11} => ~e.flip
         /\ k + 1 \in {3, 6, 9, 12} => (e.flip => x1 % 32 = i)
         /\ k + 1 \in {3, 6, 9, 12} /\ h = 0 => e.flip /\ x1 % 32 = i
         /\ k + 1 \in {6, 12} /\ h = 0 => x1 = i + 32
    BY <1>15, <1>18
  <1>21. c.do \in {"out", "modify"} =>
             /\ k + 1 \in {w + 4, w + 5, w + 6} /\ h = 0 => r1[i] = v1
             /\ k + 1 = w + 6 /\ h = 1 => r1[i] = v1 \/ (e.flip /\ x1 % 32 = i)
    <2> SUFFICES ASSUME c.do \in {"out", "modify"}
                 PROVE  /\ k + 1 \in {w + 4, w + 5, w + 6} /\ h = 0 => r1[i] = v1
                        /\ k + 1 = w + 6 => (e.flip /\ x1 % 32 = i)
      OBVIOUS
    <2>1. k + 1 = w + 6 => k + 1 \in {6, 12}
      BY <1>10
    <2>2. k + 1 \in {w + 4, w + 5, w + 6} => v1 = v
      BY <1>10, <1>14, <1>14a
    <2>3. k + 1 \in {w + 5, w + 6} => r1 = r
      BY <1>5, <1>10, <1>18
    <2>4. k + 1 \in {w + 5, w + 6} /\ h = 0 => r[i] = v
      BY <1>5, <1>8, <1>10
    <2>5. k + 1 = w + 4 /\ h = 0 => r1[i] = v
      BY <1>19, <1>5, <1>10
    <2> QED
      BY <1>15, <1>18, <2>1, <2>2, <2>3, <2>4, <2>5
  <1>22. c.do = "modify" =>
             /\ k + 1 <= 3 => g1 = <<>>
             /\ k + 1 \in {2, 3} /\ h = 0 => r1[i] = o1
             /\ k + 1 > 3 /\ h = 0 => g1 = <<o1>>
    <2> SUFFICES ASSUME c.do = "modify"
                 PROVE  /\ k + 1 <= 3 => g1 = <<>>
                        /\ k + 1 \in {2, 3} /\ h = 0 => r1[i] = o1
                        /\ k + 1 > 3 /\ h = 0 => g1 = <<o1>>
      OBVIOUS
    <2>1. k + 1 <= 3 => g1 = <<>>
      BY <1>5, <1>8, <1>9, <1>12
    <2>2. k + 1 \in {2, 3} /\ h = 0 => r1[i] = o1
      BY <1>5, <1>8, <1>17, <1>18
    <2>3. k = 3 /\ h = 0 => g1 = <<o1>>
      BY <1>8, <1>13, <1>17
    <2>4. k > 3 /\ h = 0 => g1 = <<o1>>
      <3> SUFFICES ASSUME k > 3, h = 0
                   PROVE  g1 = <<o1>>
        OBVIOUS
      <3>1. k > 1 /\ k # 3 /\ k # 1
        BY <1>5
      <3>2. got[p] = <<old[p]>>
        BY <1>8, <3>1
      <3>3. g1 = got[p] /\ o1 = old[p]
        BY <1>12, <1>17, <3>1
      <3> QED
        BY <3>2, <3>3
    <2> QED
      BY <1>5, <2>1, <2>2, <2>3, <2>4
  <1> QED
    BY <1>4, <1>16, <1>20, <1>21, <1>22 DEF AtrHolds, c, w, i, v1, g1, o1

LEMMA OtherMoved ==
  ASSUME TypeInv, NEW p \in Programs, Holds(p), Access(p), ~Finishes(p), Current(p).set # "ATR",
         pc[p] > 1 => alone[p]
  PROVE  Holds(p)'
  <1> DEFINE c == Current(p)
             k == pc[p]
             i == c.index
             s == c.set
             h == hits[p]
             a == Code(p)[k]
             e == Effect(card, a)
             read == Reads(card, a)
  <1>1. /\ UsesPorts(p) /\ card' = e
        /\ pc' = [pc EXCEPT ![p] = k + 1] /\ got' = [got EXCEPT ![p] = got[p] \o read]
        /\ calls' = calls /\ hits' = hits
        /\ old' = [old EXCEPT ![p] = IF k = 1 /\ s \in Sets THEN card.reg[s][i] ELSE old[p]]
    BY AccessSteps
  <1>2. Fits(p) /\ CardOK(card)
    BY DEF TypeInv
  <1>3. /\ pc'[p] = k + 1 /\ got'[p] = got[p] \o read /\ calls'[p] = calls[p] /\ hits'[p] = h
        /\ s \in Sets => old'[p] = IF k = 1 THEN card.reg[s][i] ELSE old[p]
    BY <1>1 DEF TypeInv
  <1>4. Current(p)' = c
    BY <1>3 DEF Current
  <1>5. AtrHolds(p)'
    BY <1>4 DEF AtrHolds
  <1>6. c \in GoodCall
    BY <1>1, <1>2, CurrentIsGood DEF UsesPorts
  <1>7. k \in Nat \ {0} /\ (k = 1 => h = 0 /\ got[p] = <<>>) /\ h \in Nat
    BY <1>2 DEF Fits
  <1>8. ModifyHolds(p)'
    <2> SUFFICES ASSUME c.do = "modify"
                 PROVE  /\ s \in Indexed =>
                             /\ k + 1 = 2 => got'[p] = <<>>
                             /\ k + 1 = 2 /\ h = 0 => e.ix[s] = i /\ e.reg[s][i] = old'[p]
                             /\ k + 1 = 3 /\ h = 0 => got'[p] = <<old'[p]>>
                        /\ s = "PORT" => (k + 1 = 2 => got'[p] = <<old'[p]>>)
      BY <1>1, <1>3, <1>4 DEF ModifyHolds
    <2>1. c.set \in Sets /\ i \in Registers[s]
      BY <1>6, GoodCallFacts DEF Sets
    <2>2. old'[p] = IF k = 1 THEN card.reg[s][i] ELSE old[p]
      BY <1>3, <2>1
    <2>3. ASSUME s \in Indexed, k = 1
          PROVE  got'[p] = <<>> /\ e.ix[s] = i /\ e.reg[s][i] = old'[p]
      <3>1. read = <<>>
        BY <1>1, <1>2, <2>3, ModifyReads
      <3>2. e.reg = card.reg /\ e.ix = [card.ix EXCEPT ![s] = i]
        BY <1>1, <1>2, <2>3, IndexedCard
      <3>3. s \in DOMAIN card.ix
        BY <1>2, <2>1 DEF CardOK, IxOK
      <3> HIDE DEF e, s, i, read, c
      <3>4. got'[p] = <<>>
        BY <1>3, <1>7, <2>3, <3>1
      <3> QED
        BY <2>2, <2>3, <3>2, <3>3, <3>4
    <2>4. ASSUME s \in Indexed, k = 2, h = 0
          PROVE  got'[p] = <<old'[p]>>
      <3>1. got[p] = <<>> /\ card.ix[s] = i /\ card.reg[s][i] = old[p]
        BY <1>1, <2>4 DEF Holds, ModifyHolds
      <3>2. read = <<card.reg[s][card.ix[s]]>>
        BY <1>1, <1>2, <2>4, ModifyReads
      <3> DEFINE b == old[p]
      <3>3. read = <<b>> /\ old'[p] = b
        BY <2>2, <2>4, <3>1, <3>2
      <3> HIDE DEF b, read
      <3>4. <<b>> \in Seq({b})
        OBVIOUS
      <3>5. <<>> \o <<b>> = <<b>>
        BY <3>4, ConcatEmptySeq
      <3> QED
        BY <1>3, <3>1, <3>3, <3>5
    <2>5. ASSUME s = "PORT", k = 1
          PROVE  got'[p] = <<old'[p]>>
      <3>1. read = <<card.reg["PORT"][i]>>
        BY <1>1, <1>2, <2>5, ModifyReads
      <3> DEFINE b == old'[p]
      <3>2. read = <<b>>
        BY <2>2, <2>5, <3>1
      <3> HIDE DEF b, read
      <3>3. <<b>> \in Seq({b})
        OBVIOUS
      <3>4. <<>> \o <<b>> = <<b>>
        BY <3>3, ConcatEmptySeq
      <3> QED
        BY <1>3, <1>7, <2>5, <3>2, <3>4 DEF b
    <2>6. (k + 1 = 2 => k = 1) /\ (k + 1 = 3 => k = 2)
      <3> HIDE DEF k
      <3> QED
        BY <1>7
    <2> HIDE DEF e, s, i, c, k
    <2> QED
      BY <2>3, <2>4, <2>5, <2>6
  <1>9. ColourHolds(p)'
    <2> SUFFICES ASSUME c.do = "rgb"
                 PROVE  /\ h = 0 => e.dac.at = i /\ e.dac.n = k - 1
                        /\ h > 0 => e.dac.at = 16 /\ e.dac.n <= k - 1
      <3>1. (k + 1) - 2 = k - 1
        BY <1>7
      <3> QED
        BY <1>1, <1>3, <1>4, <3>1 DEF ColourHolds
    <2>1. s = "DAC"
      BY <1>6, GoodCallFacts
    <2>2. /\ k = 1 => e.dac.at = i /\ e.dac.n = 0
          /\ k > 1 => e.dac = DacTakes(card.dac, c.rgb[k - 1]) /\ c.rgb[k - 1] \in Int
      BY <1>1, <1>2, <2>1, DacCard
    <2>3. k \in 1..4 /\ k # 4
      BY <1>1, <1>2, <2>1, DacAccess
    <2>4. k > 1 => /\ h = 0 => card.dac.at = i /\ card.dac.n = k - 2
                   /\ h > 0 => card.dac.at = 16 /\ card.dac.n <= k - 2
      BY <1>1 DEF Holds, ColourHolds
    <2>5. card.dac \in DacType
      BY <1>2 DEF CardOK
    <2>6. card.dac.n \in 0..2
      BY <2>5 DEF DacType
    <2> DEFINE d == card.dac
               b == c.rgb[k - 1]
    <2> HIDE DEF e, c, i, k, h, d
    <2>7. k > 1 => d.n < 2
      BY <1>7, <2>3, <2>4, <2>6 DEF d
    <2>8. k > 1 => e.dac.n = d.n + 1 /\ e.dac.at = d.at
      <3> SUFFICES ASSUME k > 1
                   PROVE  e.dac.n = d.n + 1 /\ e.dac.at = d.at
        OBVIOUS
      <3>1. e.dac = DacTakes(d, b) /\ b \in Int
        BY <2>2 DEF d
      <3> HIDE DEF b
      <3>2. DacTakes(d, b).n = d.n + 1 /\ DacTakes(d, b).at = d.at
        BY <2>5, <2>7, <3>1, DacSteps DEF d
      <3> QED
        BY <3>1, <3>2
    <2> QED
      BY <1>7, <2>2, <2>3, <2>4, <2>6, <2>8 DEF d
  <1> QED
    BY <1>5, <1>8, <1>9 DEF Holds

LEMMA AccessHolds ==
  ASSUME TypeInv, CallInv, NEW p \in Programs, Access(p), NEW q \in Programs
  PROVE  Holds(q)'
  <1>1. CASE Finishes(p)
    <2>1. GoOn(p, Tail(calls[p]), "done")
      BY <1>1, AccessSteps
    <2>2. CASE q = p
      BY <2>1, <2>2, HoldsAtFirst DEF GoOn, TypeInv
    <2>3. CASE q # p
      BY <2>1, <2>3, HoldsNotAlone DEF GoOn, Acts
    <2> QED
      BY <2>2, <2>3
  <1>2. CASE ~Finishes(p)
    <2>1. Acts(p, FALSE)
      BY <1>2, AccessSteps
    <2>2. CASE q # p
      BY <2>1, <2>2, HoldsNotAlone DEF Acts
    <2>3. CASE q = p /\ ~alone'[p]
      BY <2>3, HoldsNotAlone
    <2>4. CASE q = p /\ alone'[p]
      <3>1. pc[p] > 1 => alone[p]
        <4> SUFFICES ASSUME pc[p] > 1
                     PROVE  alone[p]
          OBVIOUS
        <4>1. ~Starting(p)
          BY DEF Starting
        <4>2. alone' = [r \in Programs |-> r = p /\ IF Starting(p) THEN TRUE ELSE alone[p]]
          BY <2>1 DEF Acts
        <4> QED
          BY <2>4, <4>1, <4>2, Zenon
      <3>2. Holds(p)
        BY DEF CallInv
      <3>3. CASE Current(p).set # "ATR"
        BY <1>2, <2>4, <3>1, <3>2, <3>3, OtherMoved
      <3>4. CASE Current(p).set = "ATR"
        <4>1. AtrHolds(p)'
          BY <1>2, <3>1, <3>2, <3>4, AtrMoved
        <4>2. Current(p)' = Current(p)
          BY <1>2, AccessSteps DEF Current
        <4>3. Current(p) \in GoodCall
          BY AccessSteps, CurrentIsGood DEF TypeInv, UsesPorts
        <4>4. Current(p).do \in {"out", "in", "modify"} /\ Current(p).set \notin Indexed
              /\ Current(p).set # "PORT"
          BY <3>4, <4>3, GoodCallFacts DEF Indexed
        <4>5. ModifyHolds(p)' /\ ColourHolds(p)'
          BY <4>2, <4>4 DEF ModifyHolds, ColourHolds
        <4> QED
          BY <2>4, <4>1, <4>5 DEF Holds
      <3> QED
        BY <3>3, <3>4
    <2> QED
      BY <2>2, <2>3, <2>4
  <1> QED
    BY <1>1, <1>2

LEMMA GoOnHolds ==
  ASSUME TypeInv, NEW p \in Programs, NEW rest, NEW how, GoOn(p, rest, how), NEW q \in Programs
  PROVE  Holds(q)'
  <1>1. CASE q = p
    BY <1>1, HoldsAtFirst DEF GoOn, TypeInv
  <1>2. CASE q # p
    BY <1>2, HoldsNotAlone DEF GoOn, Acts
  <1> QED
    BY <1>1, <1>2

LEMMA CallsHold ==
  ASSUME TypeInv, CallInv, NEW p \in Programs, Calls(p), NEW q \in Programs
  PROVE  Holds(q)'
  <1>1. CASE Access(p)
    BY <1>1, AccessHolds
  <1>2. CASE \E rest, how : GoOn(p, rest, how)
    BY <1>2, GoOnHolds
  <1>3. Access(p) \/ \E rest, how : GoOn(p, rest, how)
    <2>1. ASSUME Abort(p) PROVE \E rest, how : GoOn(p, rest, how)
      BY <2>1, Zenon DEF Abort
    <2> QED
      BY <2>1, Zenon DEF Calls, BadLine, ReadKernelPalette, TellKernel, FontProg, NextLine, Exit
  <1> QED
    BY <1>1, <1>2, <1>3

LEMMA KillHolds ==
  ASSUME TypeInv, CallInv, NEW p \in Programs, Kill(p), NEW q \in Programs
  PROVE  Holds(q)'
  <1>1. /\ calls' = [calls EXCEPT ![p] = <<>>]
        /\ UNCHANGED <<card, pc, got, hits, old, alone>>
    BY DEF Kill, history
  <1>2. CASE q = p
    <2>1. calls'[q] = <<>>
      BY <1>1, <1>2 DEF TypeInv
    <2>2. ~UsesPorts(q)' /\ ~Running(q)'
      BY <2>1 DEF UsesPorts, Running
    <2>3. AtrHolds(q)' /\ ModifyHolds(q)'
      BY <2>2 DEF AtrHolds, ModifyHolds
    <2>4. ColourHolds(q)'
      BY <2>2 DEF ColourHolds
    <2> QED
      BY <2>3, <2>4 DEF Holds
  <1>3. CASE q # p
    <2>1. calls'[q] = calls[q]
      BY <1>1, <1>3 DEF TypeInv
    <2> QED
      BY <1>1, <2>1, HoldsKept DEF CallInv
  <1> QED
    BY <1>2, <1>3

LEMMA BurstSteps ==
  ASSUME TypeInv, NEW use, NEW sets, NEW c, Burst(use, sets, c), NEW q \in Programs
  PROVE  /\ card' = c /\ calls'[q] = calls[q] /\ pc'[q] = pc[q] /\ got'[q] = got[q]
         /\ old'[q] = old[q] /\ alone'[q] = alone[q]
         /\ hits'[q] = IF UsesPorts(q) /\ pc[q] > 1 /\ Current(q).set \in sets
                       THEN hits[q] + 1 ELSE hits[q]
  BY DEF Burst, local

\* A burst on some register sets turns the card into c.
Touches(sets, c) ==
  /\ "ATR" \notin sets => c.flip = card.flip /\ c.ix["ATR"] = card.ix["ATR"]
  /\ "ATR" \in sets => c.flip = FALSE
  /\ c.reg["ATR"] = card.reg["ATR"]
  /\ \A s \in Indexed : s \notin sets => c.ix[s] = card.ix[s] /\ c.reg[s] = card.reg[s]
  /\ "DAC" \notin sets => c.dac = card.dac
  /\ "DAC" \in sets => c.dac.at = 16 /\ c.dac.n = 0

\* A burst that leaves alone what the program's call is about, or hits it.
LEMMA BurstHolds ==
  ASSUME TypeInv, CallInv, NEW use, NEW sets, NEW c, Burst(use, sets, c), NEW q \in Programs,
         Touches(sets, c)
  PROVE  Holds(q)'
  <1>1. /\ card' = c /\ calls'[q] = calls[q] /\ pc'[q] = pc[q] /\ got'[q] = got[q]
        /\ old'[q] = old[q] /\ alone'[q] = alone[q]
        /\ hits'[q] = IF UsesPorts(q) /\ pc[q] > 1 /\ Current(q).set \in sets
                      THEN hits[q] + 1 ELSE hits[q]
    BY BurstSteps
  <1>2. Holds(q) /\ Fits(q)
    BY DEF CallInv, TypeInv
  <1>3. CASE ~UsesPorts(q) /\ ~(Running(q) /\ Current(q).do = "rgb")
    <2>1. Current(q)' = Current(q) /\ UsesPorts(q)' = UsesPorts(q)
      BY <1>1 DEF Current, UsesPorts, Running
    <2> QED
      BY <1>3, <2>1 DEF Holds, AtrHolds, ModifyHolds, ColourHolds
  <1>4. Running(q) /\ Current(q).do = "rgb" => UsesPorts(q) /\ Current(q).set = "DAC"
    <2> SUFFICES ASSUME Running(q), Current(q).do = "rgb"
                 PROVE  UsesPorts(q) /\ Current(q).set = "DAC"
      OBVIOUS
    <2>1. Current(q) \in GoodCall
      BY <1>2, CurrentIsGood
    <2> QED
      BY <2>1, GoodCallFacts DEF UsesPorts
  <1>5. CASE UsesPorts(q) /\ pc[q] = 1
    <2>1. got[q] = <<>>
      BY <1>2, <1>5 DEF Fits
    <2> QED
      BY <1>1, <1>5, <2>1, HoldsAtFirst
  <1>6. CASE UsesPorts(q) /\ pc[q] > 1 /\ Current(q).set \in sets
    <2>1. hits'[q] = hits[q] + 1
      BY <1>1, <1>6
    <2>2. Current(q).do = "rgb" => card'.dac.at = 16 /\ card'.dac.n = 0
      BY <1>1, <1>4, <1>6 DEF UsesPorts, Touches
    <2>3. Current(q).set = "ATR" => card'.flip = FALSE /\ card'.reg["ATR"] = card.reg["ATR"]
      BY <1>1, <1>6 DEF Touches
    <2> QED
      BY <1>1, <1>2, <1>6, <2>1, <2>2, <2>3, HoldsHit
  <1>7. CASE UsesPorts(q) /\ pc[q] > 1 /\ Current(q).set \notin sets
    <2>1. hits'[q] = hits[q]
      BY <1>1, <1>7
    <2>2. Current(q).do = "rgb" => card'.dac = card.dac
      BY <1>1, <1>4, <1>7 DEF UsesPorts, Touches
    <2>3. Current(q).set = "ATR" => /\ card'.flip = card.flip /\ card'.ix["ATR"] = card.ix["ATR"]
                                    /\ card'.reg["ATR"] = card.reg["ATR"]
      BY <1>1, <1>7 DEF Touches
    <2>4. Current(q).set \in Indexed => /\ card'.ix[Current(q).set] = card.ix[Current(q).set]
                                        /\ card'.reg[Current(q).set] = card.reg[Current(q).set]
      BY <1>1, <1>7 DEF Touches
    <2> QED
      BY <1>1, <1>2, <2>1, <2>2, <2>3, <2>4, HoldsKept
  <1>8. pc[q] = 1 \/ pc[q] > 1
    BY <1>2 DEF Fits
  <1> QED
    BY <1>3, <1>4, <1>5, <1>6, <1>7, <1>8

LEMMA KernelHolds ==
  ASSUME TypeInv, CallInv, KernelCursor \/ KernelAttributes \/ KernelFont \/ KernelSwitch,
         NEW q \in Programs
  PROVE  Holds(q)'
  <1>1. CardOK(card) /\ kpal \in Palette
    BY DEF TypeInv
  <1>2. CASE KernelCursor
    <2>1. PICK e : CardOK(e) /\ CursorMoved(e, card) /\ Burst("cursor", {"CRTC"}, e)
      BY <1>1, <1>2, CursorBurst
    <2>2. Touches({"CRTC"}, e)
      BY <2>1 DEF Sets, Touches, CursorMoved
    <2> QED
      BY <2>1, <2>2, BurstHolds
  <1>3. CASE KernelAttributes
    <2> DEFINE e == [card EXCEPT !.flip = FALSE, !.ix["ATR"] = 48]
               f == [card EXCEPT !.flip = FALSE]
    <2>1. Burst("attributes", {"ATR"}, e) \/ Burst("attributes", {"ATR"}, f)
      BY <1>3, Zenon DEF KernelAttributes
    <2>2. /\ e.flip = FALSE /\ e.dac = card.dac /\ e.reg = card.reg
          /\ \A s \in Sets : s # "ATR" => e.ix[s] = card.ix[s]
      BY <1>1, AttributesCard
    <2>3. /\ f.flip = FALSE /\ f.dac = card.dac /\ f.reg = card.reg
          /\ \A s \in Sets : s # "ATR" => f.ix[s] = card.ix[s]
      BY <1>1, AttributesCard
    <2> HIDE DEF e, f
    <2>4. Touches({"ATR"}, e) /\ Touches({"ATR"}, f)
      BY <2>2, <2>3 DEF Sets, Indexed, Touches
    <2> QED
      BY <2>1, <2>4, BurstHolds
  <1>4. CASE KernelFont
    <2> DEFINE e == [card EXCEPT !.ix["SEQ"] = 0, !.ix["GR"] = 0]
    <2>1. Burst("font", {"SEQ", "GR"}, e)
      BY <1>4 DEF KernelFont
    <2>2. /\ e.flip = card.flip /\ e.dac = card.dac /\ e.reg = card.reg
          /\ \A s \in Sets : s \notin {"SEQ", "GR"} => e.ix[s] = card.ix[s]
      BY <1>1, FontCard
    <2> HIDE DEF e
    <2>3. Touches({"SEQ", "GR"}, e)
      BY <2>2 DEF Sets, Touches
    <2> QED
      BY <2>1, <2>3, BurstHolds
  <1>5. CASE KernelSwitch
    <2> DEFINE e == Switched(card, kpal)
               d == SwitchedDac(card.dac, kpal)
    <2>1. Burst("switch", {"DAC"}, e)
      BY <1>5 DEF KernelSwitch
    <2>2. IsCard(e, card.ix, card.reg, d) /\ e.flip = card.flip
      BY <1>1, SwitchedCard
    <2>3. d.at = 16 /\ d.n = 0
      BY <1>1, SwitchedDacType DEF CardOK
    <2> HIDE DEF e, d
    <2>4. e.ix = card.ix /\ e.reg = card.reg /\ e.dac.at = 16 /\ e.dac.n = 0
      BY <2>2, <2>3 DEF IsCard
    <2>5. Touches({"DAC"}, e)
      BY <2>2, <2>4 DEF Touches
    <2> QED
      BY <2>1, <2>5, BurstHolds
  <1> QED
    BY <1>2, <1>3, <1>4, <1>5

LEMMA InitHolds == Init => CallInv
  BY DEF Init, CallInv, Holds, AtrHolds, ModifyHolds, ColourHolds

LEMMA StepHolds == TypeInv /\ CallInv /\ [Next]_vars => CallInv'
  <1> SUFFICES ASSUME TypeInv, CallInv, [Next]_vars, NEW q \in Programs
               PROVE  Holds(q)'
    BY DEF CallInv
  <1>1. CASE Next
    BY <1>1, CallsHold, KillHolds, KernelHolds DEF Next
  <1>2. CASE UNCHANGED vars
    <2>1. UNCHANGED <<card, calls, pc, got, hits, old, alone>>
      BY <1>2 DEF vars, local, history
    <2> QED
      BY <2>1, HoldsKept DEF CallInv
  <1> QED
    BY <1>1, <1>2

\* Between the accesses of a call its program finds what its earlier ones left
\* of the attribute controller's two registers and the DAC's position, however
\* the kernel comes in; and a read-modify-write puts back what it read.
THEOREM ToolsCallsHold == Spec => [](TypeInv /\ CallInv)
  <1>1. Init => TypeInv /\ CallInv
    BY InitType, InitHolds
  <1>2. (TypeInv /\ CallInv) /\ [Next]_vars => (TypeInv /\ CallInv)'
    BY StepType, StepHolds
  <1> QED
    BY <1>1, <1>2, PTL DEF Spec

-----------------------------------------------------------------------------
(* What one access may change, and what a finished call has done.          *)

LEMMA AloneBefore ==
  ASSUME NEW p \in Programs, Access(p), alone'[p], pc[p] > 1
  PROVE  alone[p]
  <1>1. ~Starting(p)
    BY DEF Starting
  <1>2. PICK ends : Acts(p, ends)
    BY AccessSteps, Zenon DEF GoOn
  <1>3. alone' = [r \in Programs |-> r = p /\ IF Starting(p) THEN TRUE ELSE alone[p]]
    BY <1>2 DEF Acts
  <1> QED
    BY <1>1, <1>3, Zenon

\* Register [s][i] written with v, or nothing.
Stored(new, r, s, i, v) == new = r \/ new = [r EXCEPT ![s] = [r[s] EXCEPT ![i] = v]]

LEMMA OneRegister ==
  ASSUME NEW r, RegOK(r), NEW s \in Sets, NEW i, NEW v, NEW new, Stored(new, r, s, i, v)
  PROVE  \A t \in Sets : \A n \in Registers[t] : new[t][n] # r[t][n] => t = s /\ n = i
  <1> SUFFICES ASSUME NEW t \in Sets, NEW n \in Registers[t], t # s \/ n # i,
                      new = [r EXCEPT ![s] = [r[s] EXCEPT ![i] = v]]
               PROVE  new[t][n] = r[t][n]
    BY DEF Stored
  <1> DEFINE y == r[s]
             x == [y EXCEPT ![i] = v]
  <1>1. t \in DOMAIN r /\ n \in DOMAIN r[t] /\ s \in DOMAIN r
    BY DEF RegOK
  <1>2. n # i /\ t = s => x[n] = y[n]
    BY <1>1
  <1>3. new = [r EXCEPT ![s] = x]
    OBVIOUS
  <1> HIDE DEF x
  <1>4. new[s] = x /\ (t # s => new[t] = r[t])
    BY <1>1, <1>3 DEF RegOK
  <1> QED
    BY <1>2, <1>4

LEMMA AccessConfined ==
  ASSUME TypeInv, CallInv, NEW p \in Programs, Access(p), alone'[p] \/ Current(p).set \in Indexed
  PROVE  Confined(p)
  <1> DEFINE c == Current(p)
             k == pc[p]
             i == c.index
             s == c.set
             e == Effect(card, Code(p)[k])
             v == Value(p)
             Regs == \A t \in Sets : \A n \in Registers[t] :
                       e.reg[t][n] # card.reg[t][n] => t = s /\ n = i
             Cols == \A n \in 0..DacSize - 1 :
                       e.dac.col[n] # card.dac.col[n] => s = "DAC" /\ (n = i \/ (hits[p] > 0 /\ n = 16))
  <1>1. UsesPorts(p) /\ card' = e
    BY AccessSteps
  <1>2. Fits(p) /\ CardOK(card) /\ Holds(p)
    BY DEF TypeInv, CallInv
  <1>3. RegOK(card.reg) /\ card.dac \in DacType
    BY <1>2 DEF CardOK
  <1>4. c \in GoodCall
    BY <1>1, <1>2, CurrentIsGood DEF UsesPorts
  <1>5. k > 1 /\ s \notin Indexed => alone[p]
    BY AloneBefore
  <1> SUFFICES Regs /\ Cols
    BY <1>1 DEF Confined
  <1>6. CASE s \in Indexed
    <2>1. /\ e.dac = card.dac
          /\ \/ e.reg = card.reg
             \/ e.reg = [card.reg EXCEPT ![s] = [card.reg[s] EXCEPT ![i] = v]]
      BY <1>1, <1>2, <1>6, IndexedCard
    <2>2. s \in Sets
      BY <1>6 DEF Sets
    <2> HIDE DEF e, c, v, s, i
    <2>3. Stored(e.reg, card.reg, s, i, v)
      BY <2>1 DEF Stored
    <2>4. Regs
      BY <1>3, <2>2, <2>3, OneRegister
    <2> QED
      BY <2>1, <2>4
  <1>7. CASE s = "PORT"
    <2>1. /\ e.dac = card.dac
          /\ \/ e.reg = card.reg
             \/ e.reg = [card.reg EXCEPT ![s] = [card.reg[s] EXCEPT ![i] = v]]
      BY <1>1, <1>2, <1>7, PortCard
    <2>2. s \in Sets
      BY <1>7 DEF Sets
    <2> HIDE DEF e, c, v, s, i
    <2>3. Stored(e.reg, card.reg, s, i, v)
      BY <2>1 DEF Stored
    <2>4. Regs
      BY <1>3, <2>2, <2>3, OneRegister
    <2> QED
      BY <2>1, <2>4
  <1>8. CASE s = "ATR"
    <2> DEFINE w == AtrStart(c)
               at == card.ix["ATR"] % 32
    <2>1. /\ e.dac = card.dac
          /\ k \in {1, 4, 7, 10} => e.reg = card.reg
          /\ k \in {2, 8} /\ ~card.flip => e.reg = card.reg
          /\ k \in {5, 11} /\ ~card.flip => e.reg = card.reg
          /\ c.do \in {"in", "modify"} /\ k \in {3, 6} => e.reg = card.reg
          /\ c.do \in {"out", "modify"} /\ k \in {w + 3, w + 6} =>
               /\ card.flip => e.reg = [card.reg EXCEPT !["ATR"] = [card.reg["ATR"] EXCEPT ![at] = v]]
               /\ ~card.flip => e.reg = card.reg
      BY <1>1, <1>2, <1>8, AtrCard
    <2>2. /\ c.do \in {"out", "in", "modify"} /\ k \in 1..12 /\ (c.do # "modify" => k <= 6)
          /\ w = IF c.do = "out" THEN 0 ELSE 6
      BY <1>1, <1>2, <1>8, AtrAccess DEF AtrStart
    <2>3. k > 1 => /\ k \in {2, 5, 8, 11} => ~card.flip
                   /\ k \in {3, 6, 9, 12} => (card.flip => at = i)
      BY <1>1, <1>2, <1>5, <1>8 DEF Holds, AtrHolds, Indexed
    <2> HIDE DEF e, c, v, k, i, w, at
    <2>4. \/ e.reg = card.reg
          \/ at = i /\ e.reg = [card.reg EXCEPT !["ATR"] = [card.reg["ATR"] EXCEPT ![at] = v]]
      <3>1. k = 1 \/ k = 4 \/ k = 7 \/ k = 10 => e.reg = card.reg
        BY <2>1
      <3>2. k = 2 \/ k = 8 \/ k = 5 \/ k = 11 => e.reg = card.reg
        BY <2>1, <2>3
      <3>3. CASE k = 3 \/ k = 6 \/ k = 9 \/ k = 12
        BY <2>1, <2>2, <2>3, <3>3
      <3> QED
        BY <2>2, <3>1, <3>2, <3>3
    <2>5. "ATR" \in Sets
      BY DEF Sets
    <2> HIDE DEF s
    <2>6. Stored(e.reg, card.reg, s, i, v)
      BY <1>8, <2>4 DEF Stored
    <2>7. Regs
      BY <1>3, <1>8, <2>5, <2>6, OneRegister
    <2> QED
      BY <2>1, <2>7
  <1>9. CASE s = "DAC"
    <2>1. /\ e.reg = card.reg
          /\ k = 1 => e.dac.col = card.dac.col
          /\ k > 1 /\ c.do = "rgb" => e.dac = DacTakes(card.dac, c.rgb[k - 1]) /\ c.rgb[k - 1] \in Int
          /\ k > 1 /\ c.do = "dump" => e.dac.col = card.dac.col
      BY <1>1, <1>2, <1>9, DacCard
    <2>2. c.do \in {"rgb", "dump"} /\ k \in 1..4
      BY <1>1, <1>2, <1>9, DacAccess
    <2>3. k > 1 /\ c.do = "rgb" =>
            /\ hits[p] = 0 => card.dac.at = i
            /\ hits[p] > 0 => card.dac.at = 16
      BY <1>1, <1>2, <1>5, <1>9 DEF Holds, ColourHolds, Indexed
    <2>4. hits[p] \in Nat
      BY <1>2 DEF Fits
    <2> DEFINE b == c.rgb[k - 1]
               d == card.dac
    <2>5. Cols
      <3> SUFFICES ASSUME k > 1, c.do = "rgb",
                          NEW n \in 0..DacSize - 1, n # i, ~(hits[p] > 0 /\ n = 16)
                   PROVE  e.dac.col[n] = d.col[n]
        BY <1>9, <2>1, <2>2
      <3>1. n # d.at
        BY <2>3, <2>4
      <3>2. e.dac = DacTakes(d, b) /\ b \in Int /\ d \in DacType
        BY <1>3, <2>1
      <3> HIDE DEF e, b, d
      <3>3. DacTakes(d, b).col[n] = d.col[n]
        BY <3>1, <3>2, DacSteps
      <3> QED
        BY <3>2, <3>3
    <2> HIDE DEF e, c
    <2>6. Regs
      BY <2>1
    <2> QED
      BY <2>5, <2>6
  <1>10. s \in Indexed \cup {"PORT", "ATR", "DAC"}
    BY <1>1, <1>4, GoodCallFacts DEF UsesPorts
  <1> QED
    BY <1>6, <1>7, <1>8, <1>9, <1>10

\* A byte a program writes never lands in a register its call does not name:
\* with index and data in one instruction whoever comes in between, and in the
\* attribute controller and the DAC whatever the kernel does in between.
THEOREM ToolsNothingStrays == Spec => NothingStrays
  <1>1. TypeInv /\ CallInv /\ [Next]_vars =>
          [\A p \in Programs : Access(p) /\ (alone'[p] \/ Current(p).set \in Indexed) => Confined(p)]_vars
    BY AccessConfined
  <1> QED
    BY <1>1, ToolsCallsHold, PTL DEF Spec, NothingStrays

LEMMA ValueIsWritten ==
  ASSUME NEW p, Fits(p), UsesPorts(p), Current(p).do \in {"out", "modify"}
  PROVE  /\ Written(p, Value(p))
         /\ Current(p).do = "modify" => \A b : got[p] = <<b>> => Value(p) = Merge(Current(p), b)
  <1> DEFINE c == Current(p)
             byte == IF got[p] = <<>> THEN 0 ELSE got[p][1]
  <1>1. c \in GoodCall
    BY CurrentIsGood DEF UsesPorts
  <1>2. CASE c.do = "out"
    BY <1>2 DEF Written, Value
  <1>3. CASE c.do = "modify"
    <2>1. c.keep \in Byte /\ c.or \in Byte
      BY <1>1, <1>3, CallFacts DEF GoodCall
    <2>2. byte \in Byte
      BY FirstByte DEF Fits
    <2>3. Value(p) = Merge(c, byte)
      BY <1>3 DEF Value
    <2>4. \A b : got[p] = <<b>> => byte = b
      OBVIOUS
    <2> HIDE DEF byte, c
    <2>5. BitAnd(Merge(c, byte), c.or) = c.or /\ BitAnd(Merge(c, byte), 255 - BitOr(c.keep, c.or)) = 0
      BY <2>1, <2>2, MergedBits
    <2> QED
      BY <1>3, <2>3, <2>4, <2>5 DEF Written, c
  <1> QED
    BY <1>2, <1>3

LEMMA AccessArrives ==
  ASSUME TypeInv, CallInv, NEW p \in Programs, Access(p), Finishes(p),
         Current(p).do \in {"out", "in", "modify"}
  PROVE  Arrived(p)
  <1> DEFINE c == Current(p)
             k == pc[p]
             i == c.index
             s == c.set
             e == Effect(card, Code(p)[k])
             v == Value(p)
             h == hits[p]
             new == e.reg[s][i]
             Goal == /\ (s \in Indexed \/ (alone'[p] /\ h <= 1)) => Written(p, new)
                     /\ (alone'[p] /\ h = 0) /\ c.do = "modify" => new = Merge(c, old[p])
                     /\ (alone'[p] /\ h = 0) /\ s = "ATR" => PaletteOn(e)
  <1>1. UsesPorts(p) /\ card' = e
    BY AccessSteps
  <1>2. Fits(p) /\ CardOK(card) /\ Holds(p)
    BY DEF TypeInv, CallInv
  <1>3. RegOK(card.reg) /\ h \in Nat /\ k \in Nat \ {0}
    BY <1>2 DEF CardOK, Fits
  <1>4. c \in GoodCall
    BY <1>1, <1>2, CurrentIsGood DEF UsesPorts
  <1>5. s \in Sets /\ i \in Registers[s]
    BY <1>4, GoodCallFacts
  <1>6. alone'[p] /\ k > 1 => alone[p]
    BY AloneBefore
  <1>7. \A r : r = [card.reg EXCEPT ![s] = [card.reg[s] EXCEPT ![i] = v]] => r[s][i] = v
    <2> DEFINE y == card.reg[s]
               x == [y EXCEPT ![i] = v]
    <2>1. x[i] = v /\ s \in DOMAIN card.reg
      BY <1>3, <1>5 DEF RegOK
    <2> SUFFICES ASSUME NEW r, r = [card.reg EXCEPT ![s] = x]
                 PROVE  r[s] = x
      BY <2>1
    <2> HIDE DEF x
    <2> QED
      BY <2>1
  <1>8. c.do \in {"out", "modify"} => Written(p, v)
    BY <1>1, <1>2, ValueIsWritten
  <1>9. c.do = "in" => \A x : Written(p, x)
    BY DEF Written
  <1>10. c.do = "modify" /\ got[p] = <<old[p]>> => v = Merge(c, old[p])
    BY <1>1, <1>2, ValueIsWritten
  <1> SUFFICES Goal
    BY <1>1 DEF Arrived
  <1>11. CASE s \in Indexed
    <2>1. /\ c.do \in {"out", "modify"} =>
               e.reg = [card.reg EXCEPT ![s] = [card.reg[s] EXCEPT ![i] = v]]
          /\ c.do = "modify" => k = 3
      BY <1>1, <1>2, <1>11, IndexedCard
    <2>2. alone'[p] /\ h = 0 /\ c.do = "modify" => got[p] = <<old[p]>>
      BY <1>1, <1>2, <1>6, <1>11, <2>1 DEF Holds, ModifyHolds
    <2>3. s # "ATR"
      BY <1>11 DEF Indexed
    <2> HIDE DEF e, c, v, s, i, k, h
    <2>4. c.do \in {"out", "modify"} => new = v
      BY <1>7, <2>1
    <2> HIDE DEF new
    <2> QED
      BY <1>8, <1>9, <1>10, <2>2, <2>3, <2>4 DEF c
  <1>12. CASE s = "PORT"
    <2>1. /\ c.do \in {"out", "modify"} =>
               e.reg = [card.reg EXCEPT ![s] = [card.reg[s] EXCEPT ![i] = v]]
          /\ c.do = "modify" => k = 2
      BY <1>1, <1>2, <1>12, PortCard
    <2>2. alone'[p] /\ h = 0 /\ c.do = "modify" => got[p] = <<old[p]>>
      BY <1>1, <1>2, <1>6, <1>12, <2>1 DEF Holds, ModifyHolds
    <2> HIDE DEF e, c, v, s, i, k, h
    <2>3. c.do \in {"out", "modify"} => new = v
      BY <1>7, <2>1
    <2> HIDE DEF new
    <2> QED
      BY <1>8, <1>9, <1>10, <1>12, <2>2, <2>3 DEF c
  <1>13. CASE s = "ATR"
    <2> DEFINE at == card.ix["ATR"]
    <2>1. /\ c.do \in {"in", "modify"} /\ k = 6 => e = card
          /\ c.do \in {"out", "modify"} /\ k = AtrStart(c) + 6 =>
               /\ card.flip => /\ e.ix = card.ix
                               /\ e.reg = [card.reg EXCEPT !["ATR"] = [card.reg["ATR"] EXCEPT ![at % 32] = v]]
               /\ ~card.flip => e.reg = card.reg
      BY <1>1, <1>2, <1>13, AtrCard
    <2>2. /\ k = IF c.do = "modify" THEN 12 ELSE 6
          /\ i \in 0..31
      BY <1>1, <1>2, <1>13, AtrAccess
    <2>3. AtrStart(c) = IF c.do = "out" THEN 0 ELSE 6
      BY DEF AtrStart
    <2>4. ASSUME alone'[p]
          PROVE  /\ card.flip => at % 32 = i
                 /\ h = 0 => card.flip /\ at = i + 32
                 /\ c.do \in {"out", "modify"} /\ h = 1 => card.reg[s][i] = v \/ (card.flip /\ at % 32 = i)
                 /\ c.do = "modify" /\ h = 0 => got[p] = <<old[p]>>
      <3>1. alone[p] /\ k \in {6, 12} /\ (c.do \in {"out", "modify"} => k = AtrStart(c) + 6) /\ k > 3
        BY <1>6, <2>2, <2>3, <2>4
      <3> QED
        BY <1>1, <1>2, <1>13, <2>2, <2>3, <3>1 DEF Holds, AtrHolds
    <2> HIDE DEF e, c, v, i, k, h, at
    <2>5. ASSUME alone'[p], h <= 1, c.do \in {"out", "modify"}
          PROVE  new = v
      <3>1. k = AtrStart(c) + 6
        BY <2>2, <2>3, <2>5
      <3>2. h = 0 \/ h = 1
        BY <1>3, <2>5 DEF h
      <3>3. CASE card.flip
        BY <1>7, <1>13, <2>1, <2>4, <2>5, <3>1, <3>3
      <3>4. CASE ~card.flip
        BY <1>13, <2>1, <2>4, <2>5, <3>1, <3>2, <3>4
      <3> QED
        BY <3>3, <3>4
    <2>6. ASSUME alone'[p], h = 0
          PROVE  PaletteOn(e)
      <3>1. e.ix["ATR"] = i + 32
        BY <1>4, <2>1, <2>2, <2>3, <2>4, <2>6 DEF c, at
      <3>2. ((i + 32) \div 32) % 2 = 1
        BY <2>2
      <3> QED
        BY <3>1, <3>2, Powers DEF PaletteOn, Bit
    <2> HIDE DEF new, s
    <2>7. s \notin Indexed
      BY <1>13 DEF Indexed
    <2> QED
      BY <1>8, <1>9, <1>10, <2>4, <2>5, <2>6, <2>7 DEF c
  <1> QED
    BY <1>5, <1>11, <1>12, <1>13 DEF Sets

\* What a finished call has done, whatever the kernel did in between: a write
\* has arrived, a read-modify-write has set and cleared its bits and, when
\* nobody came in, changed no other, and the picture is on again.
THEOREM ToolsCallsTakeEffect == Spec => CallsTakeEffect
  <1>1. TypeInv /\ CallInv /\ [Next]_vars =>
          [\A p \in Programs :
             Access(p) /\ Finishes(p) /\ Current(p).do \in {"out", "in", "modify"} => Arrived(p)]_vars
    BY AccessArrives
  <1> QED
    BY <1>1, ToolsCallsHold, PTL DEF Spec, CallsTakeEffect

-----------------------------------------------------------------------------
(* The font: what its last four calls leave behind, one after the other.   *)

Joins(u, s, t) == /\ Len(u) = Len(s) + Len(t)
                  /\ \A k \in 1..Len(s) : u[k] = s[k]
                  /\ \A k \in 1..Len(t) : u[Len(s) + k] = t[k]

LEMMA JoinedEnd ==
  ASSUME NEW S, NEW s \in Seq(S), NEW t \in Seq(S)
  PROVE  s \o t \in Seq(S) /\ Joins(s \o t, s, t)
  <1> DEFINE u == s \o t
             m == Len(s)
             n == Len(t)
  <1>1. /\ u \in Seq(S) /\ Len(u) = m + n
        /\ \A k \in 1..m + n : u[k] = IF k <= m THEN s[k] ELSE t[k - m]
    BY ConcatProperties
  <1>2. m \in Nat /\ n \in Nat
    OBVIOUS
  <1> HIDE DEF u, m, n
  <1>3. \A k \in 1..m : u[k] = s[k]
    BY <1>1, <1>2
  <1>4. \A k \in 1..n : u[m + k] = t[k]
    <2> SUFFICES ASSUME NEW k \in 1..n
                 PROVE  u[m + k] = t[k]
      OBVIOUS
    <2>1. m + k \in 1..m + n /\ ~(m + k <= m) /\ (m + k) - m = k
      BY <1>2
    <2> QED
      BY <1>1, <2>1
  <1> QED
    BY <1>1, <1>3, <1>4 DEF u, m, n, Joins

FontOrder(on) == Outbit("CRTC", 58, 5, on)
FontSpeed(on) == Outbit("CRTC", 49, 6, on)

LEMMA LoadFontEnd ==
  ASSUME NEW hs \in BOOLEAN
  PROVE  LET f == LoadFont(hs)
             n == Len(f)
         IN  /\ n \in Nat /\ n >= 6
             /\ f[n - 3] = FontOrder(hs) /\ f[n - 2] = FontSpeed(hs)
             /\ f[n - 1] = Call("fontprog") /\ f[n] = FontOrder(FALSE)
  <1> DEFINE a == In("CRTC", 49)
             b == FontOrder(FALSE)
             o == FontOrder(hs)
             s == FontSpeed(hs)
             g == Call("fontprog")
             x == IF hs THEN <<o, s>> ELSE <<s>>
             S == {a, b, o, s, g}
             u == <<a>>
             v == <<a, b>>
             w == <<g, b>>
             d == v \o x
             e == u \o d
             f == e \o w
             m == Len(x)
  <1>1. f = LoadFont(hs)
    <2>1. CASE hs = TRUE
      BY <2>1, Zenon DEF LoadFont, S3_StartHSText_FontLoad, S3_EndHSText_FontLoad, FontOrder, FontSpeed
    <2>2. CASE hs = FALSE
      BY <2>2, Zenon DEF LoadFont, S3_StartHSText_FontLoad, S3_EndHSText_FontLoad, FontOrder, FontSpeed
    <2> QED
      BY <2>1, <2>2
  <1>2. ~hs => o = b
    BY Zenon
  <1> HIDE DEF a, b, o, s, g
  <1>3. (hs => x = <<o, s>>) /\ (~hs => x = <<s>>)
    BY Zenon
  <1>4. /\ u \in Seq(S) /\ v \in Seq(S) /\ w \in Seq(S) /\ x \in Seq(S)
    <2>1. <<o, s>> \in Seq(S) /\ <<s>> \in Seq(S)
      OBVIOUS
    <2>2. u \in Seq(S) /\ v \in Seq(S) /\ w \in Seq(S)
      OBVIOUS
    <2> HIDE DEF x, S
    <2> QED
      BY <1>3, <2>1, <2>2
  <1>5. /\ Len(u) = 1 /\ Len(v) = 2 /\ Len(w) = 2
        /\ v[2] = b /\ w[1] = g /\ w[2] = b
        /\ hs => Len(x) = 2 /\ x[1] = o /\ x[2] = s
        /\ ~hs => Len(x) = 1 /\ x[1] = s
    <2>1. /\ Len(<<o, s>>) = 2 /\ <<o, s>>[1] = o /\ <<o, s>>[2] = s
          /\ Len(<<s>>) = 1 /\ <<s>>[1] = s
      OBVIOUS
    <2>2. /\ Len(u) = 1 /\ Len(v) = 2 /\ Len(w) = 2
          /\ v[2] = b /\ w[1] = g /\ w[2] = b
      OBVIOUS
    <2> HIDE DEF x, u, v, w
    <2> QED
      BY <1>3, <2>1, <2>2
  <1> HIDE DEF x, u, v, w, S
  <1>6. m \in 1..2 /\ (hs => m = 2) /\ (~hs => m = 1)
    BY <1>5
  <1>7. /\ d \in Seq(S) /\ Len(d) = 2 + m
        /\ d[2] = b /\ \A k \in 1..m : d[2 + k] = x[k]
    <2>1. d \in Seq(S) /\ Joins(d, v, x)
      BY <1>4, JoinedEnd
    <2> HIDE DEF d
    <2> QED
      BY <1>5, <2>1 DEF Joins
  <1> HIDE DEF d
  <1>8. /\ e \in Seq(S) /\ Len(e) = 3 + m
        /\ \A k \in 1..2 + m : e[1 + k] = d[k]
    <2>1. e \in Seq(S) /\ Joins(e, u, d)
      BY <1>4, <1>7, JoinedEnd
    <2> HIDE DEF e
    <2> QED
      BY <1>5, <1>6, <1>7, <2>1 DEF Joins
  <1>9. e[3] = b /\ \A k \in 1..m : e[3 + k] = x[k]
    <2> HIDE DEF e
    <2>1. e[1 + 2] = b
      BY <1>6, <1>7, <1>8
    <2>2. ASSUME NEW k \in 1..m
          PROVE  e[3 + k] = x[k]
      <3>1. 2 + k \in 1..2 + m /\ 1 + (2 + k) = 3 + k
        BY <1>6
      <3> QED
        BY <1>7, <1>8, <3>1
    <2> QED
      BY <2>1, <2>2
  <1> HIDE DEF e
  <1>10. /\ Len(f) = 5 + m /\ f[4 + m] = g /\ f[5 + m] = b
         /\ \A k \in 1..3 + m : f[k] = e[k]
    <2>1. Joins(f, e, w)
      BY <1>4, <1>8, JoinedEnd
    <2>2. w[1] = g /\ w[2] = b
      BY <1>5
    <2> HIDE DEF f
    <2>3. f[Len(e) + 1] = g /\ f[Len(e) + 2] = b
      BY <1>5, <2>1, <2>2 DEF Joins
    <2> QED
      BY <1>5, <1>6, <1>8, <2>1, <2>3 DEF Joins
  <1> HIDE DEF f
  <1>11. CASE hs
    <2>1. m = 2 /\ x[1] = o /\ x[2] = s
      BY <1>5, <1>11
    <2>2. /\ Len(f) = 7 /\ f[7] = b /\ f[6] = g /\ f[5] = s /\ f[4] = o
      BY <1>9, <1>10, <2>1
    <2> QED
      BY <1>1, <2>2 DEF o, s, g, b
  <1>12. CASE ~hs
    <2>1. m = 1 /\ x[1] = s
      BY <1>5, <1>12
    <2>2. /\ Len(f) = 6 /\ f[6] = b /\ f[5] = g /\ f[4] = s /\ f[3] = o
      BY <1>2, <1>9, <1>10, <1>12, <2>1
    <2> QED
      BY <1>1, <2>2 DEF o, s, g, b
  <1> QED
    BY <1>11, <1>12

-----------------------------------------------------------------------------
(* How a program stands, and what is left of its job.                      *)

\* The calls left are the job's last ones.
Left(p) == LET n == Len(job[p]) - Len(calls[p]) IN
           n \in Nat /\ \A k \in 1..Len(calls[p]) : calls[p][k] = job[p][n + k]

Stands(p) == /\ ended[p] \in {"done", "killed"} => calls[p] = <<>>
             /\ last = p => alone[p] /\ calls[p] = <<>> /\ ended[p] = "done"
             /\ Call("lines") \notin ToSet(job[p]) /\ ended[p] \in {"run", "done"} => Left(p)
StandInv == (\E j \in Jobs : job = j.calls) /\ \A p \in Programs : Stands(p)

LEMMA InitStands == Init => StandInv
  <1> SUFFICES ASSUME Init PROVE StandInv
    OBVIOUS
  <1>1. \E j \in Jobs : job = j.calls
    BY DEF Init
  <1>2. ASSUME NEW p \in Programs PROVE Stands(p)
    <2>1. /\ job[p] \in Seq(GoodCall) /\ calls[p] = job[p]
          /\ ended[p] = IF job[p] = <<>> THEN "done" ELSE "run"
          /\ last # p
      BY <1>2, InitType, ToolsAssumption DEF Init, TypeInv, Nobody
    <2>2. Left(p)
      BY <2>1 DEF Left
    <2> QED
      BY <2>1, <2>2 DEF Stands
  <1> QED
    BY <1>1, <1>2 DEF StandInv

LEMMA StandsKept ==
  ASSUME NEW q, Stands(q), job'[q] = job[q], calls'[q] = calls[q], ended'[q] = ended[q],
         last' = q => last = q /\ alone'[q] = alone[q]
  PROVE  Stands(q)'
  <1>1. Left(q)' <=> Left(q)
    BY DEF Left
  <1> QED
    BY <1>1 DEF Stands

\* A call of p is the next of its job.
LEMMA CurrentInJob ==
  ASSUME NEW p, calls[p] \in Seq(GoodCall), job[p] \in Seq(GoodCall), Running(p), Left(p)
  PROVE  LET n == Len(job[p]) - Len(calls[p]) IN
         /\ n \in Nat /\ n + 1 \in 1..Len(job[p]) /\ Current(p) = job[p][n + 1]
         /\ Current(p) \in ToSet(job[p])
         /\ Len(Tail(calls[p])) = Len(calls[p]) - 1 /\ Len(calls[p]) >= 1
         /\ \A k \in 1..Len(Tail(calls[p])) : Tail(calls[p])[k] = job[p][n + 1 + k]
  <1> DEFINE cs == calls[p]
             js == job[p]
             n == Len(js) - Len(cs)
  <1>1. cs # <<>> /\ Len(cs) \in Nat /\ Len(js) \in Nat /\ n \in Nat
        /\ \A k \in 1..Len(cs) : cs[k] = js[n + k]
    <2>1. cs # <<>> /\ Len(cs) \in Nat /\ Len(js) \in Nat
      BY DEF Running
    <2>2. n \in Nat /\ \A k \in 1..Len(cs) : cs[k] = js[n + k]
      BY Zenon DEF Left
    <2> QED
      BY <2>1, <2>2
  <1>2. Len(cs) >= 1 /\ Head(cs) = cs[1] /\ Len(Tail(cs)) = Len(cs) - 1
        /\ \A k \in 1..Len(Tail(cs)) : Tail(cs)[k] = cs[k + 1]
    <2>1. cs \in Seq(GoodCall) /\ cs # <<>>
      BY <1>1
    <2> HIDE DEF cs
    <2> QED
      BY <2>1
  <1> HIDE DEF cs
  <1>3. n + 1 \in 1..Len(js) /\ cs[1] = js[n + 1]
    BY <1>1, <1>2
  <1>4. ASSUME NEW k \in 1..Len(Tail(cs))
        PROVE  Tail(cs)[k] = js[n + 1 + k]
    <2>1. k + 1 \in 1..Len(cs) /\ n + (k + 1) = n + 1 + k
      <3> HIDE DEF n
      <3> QED
        BY <1>1, <1>2
    <2> HIDE DEF n
    <2> QED
      BY <1>1, <1>2, <2>1
  <1>5. cs[1] \in ToSet(js)
    BY <1>3 DEF ToSet
  <1> QED
    BY <1>1, <1>2, <1>3, <1>4, <1>5 DEF Current, cs

LEMMA GoOnStands ==
  ASSUME TypeInv, NEW p \in Programs, Stands(p), Running(p), NEW rest, NEW how \in {"done", "aborted"},
         GoOn(p, rest, how),
         how = "done" /\ ended[p] = "run" /\ Call("lines") \notin ToSet(job[p]) => rest = Tail(calls[p])
  PROVE  Stands(p)'
  <1> DEFINE ends == rest = <<>> /\ ended[p] = "run" /\ how = "done"
             byItself == IF Starting(p) THEN TRUE ELSE alone[p]
  <1>1. /\ calls'[p] = rest /\ job' = job
        /\ ended'[p] = IF ended[p] = "run" /\ (rest = <<>> \/ how = "aborted") THEN how ELSE ended[p]
    BY DEF GoOn, TypeInv
  <1>2. /\ alone' = [q \in Programs |-> q = p /\ byItself]
        /\ last' = IF ends /\ byItself THEN p ELSE Nobody
    BY DEF GoOn, Acts
  <1>3. last' = p => ends /\ alone'[p]
    BY <1>2, ToolsAssumption, Zenon DEF Nobody
  <1>4. calls[p] # <<>>
    BY DEF Running
  <1>5. ended[p] \in {"run", "aborted"}
    BY <1>4 DEF TypeInv, Stands
  <1>6. ASSUME Call("lines") \notin ToSet(job[p]), ended'[p] \in {"run", "done"}
        PROVE  Left(p)'
    <2>1. ended[p] = "run" /\ how = "done"
      BY <1>1, <1>5, <1>6
    <2>2. rest = Tail(calls[p]) /\ Left(p)
      BY <1>6, <2>1 DEF Stands
    <2>3. calls[p] \in Seq(GoodCall) /\ job[p] \in Seq(GoodCall)
      BY DEF TypeInv
    <2> DEFINE n == Len(job[p]) - Len(calls[p])
    <2>4. /\ n \in Nat /\ n + 1 \in 1..Len(job[p])
          /\ Len(rest) = Len(calls[p]) - 1 /\ Len(calls[p]) >= 1
          /\ \A k \in 1..Len(rest) : rest[k] = job[p][n + 1 + k]
      BY <2>2, <2>3, CurrentInJob
    <2>5. Len(job[p]) - Len(rest) = n + 1 /\ n + 1 \in Nat
      BY <2>3, <2>4
    <2> HIDE DEF n
    <2> QED
      BY <1>1, <2>4, <2>5 DEF Left
  <1>7. ended'[p] \in {"done", "killed"} => rest = <<>>
    BY <1>1, <1>5
  <1>8. ends => rest = <<>> /\ ended'[p] = "done"
    BY <1>1
  <1> HIDE DEF ends, byItself
  <1> QED
    BY <1>1, <1>3, <1>6, <1>7, <1>8 DEF Stands

LEMMA OthersStand ==
  ASSUME TypeInv, NEW p \in Programs, NEW q \in Programs, q # p, Stands(q),
         NEW rest, NEW how, GoOn(p, rest, how)
  PROVE  Stands(q)'
  <1>1. job' = job /\ calls'[q] = calls[q] /\ ended'[q] = ended[q]
    BY DEF GoOn, TypeInv
  <1>2. last' # q
    BY ToolsAssumption, Zenon DEF GoOn, Acts, Nobody
  <1> QED
    BY <1>1, <1>2, StandsKept

\* What p does with its calls when it uses no port.
LEMMA CallsGoOn ==
  ASSUME TypeInv, NEW p \in Programs, Stands(p), Calls(p), ~Access(p)
  PROVE  /\ Running(p)
         /\ \E rest, how : /\ how \in {"done", "aborted"} /\ GoOn(p, rest, how)
                           /\ how = "done" /\ ended[p] = "run" /\ Call("lines") \notin ToSet(job[p])
                                => rest = Tail(calls[p])
  <1>1. CASE BadLine(p) \/ ReadKernelPalette(p) \/ TellKernel(p) \/ FontProg(p) \/ Exit(p)
    <2>1. Running(p) /\ (GoOn(p, Rest(p), "done") \/ GoOn(p, <<SCREEN_ON>>, "aborted"))
      BY <1>1, Zenon DEF BadLine, ReadKernelPalette, TellKernel, FontProg, Exit, Abort, Does
    <2>2. "aborted" # "done"
      OBVIOUS
    <2> QED
      BY <2>1, <2>2, Zenon DEF Rest
  <1>2. CASE NextLine(p)
    <2>1. Running(p) /\ Current(p).do = "lines" /\ \E rest : GoOn(p, rest, "done")
      BY <1>2, Zenon DEF NextLine, Does
    <2>2. ended[p] = "run" => Call("lines") \in ToSet(job[p])
      <3> SUFFICES ASSUME ended[p] = "run", Call("lines") \notin ToSet(job[p])
                   PROVE  FALSE
        OBVIOUS
      <3>1. Left(p) /\ calls[p] \in Seq(GoodCall) /\ job[p] \in Seq(GoodCall)
        BY DEF Stands, TypeInv
      <3>2. Current(p) \in ToSet(job[p]) /\ Current(p) \in GoodCall
        BY <2>1, <3>1, CurrentInJob, CurrentIsGood DEF TypeInv
      <3>3. Current(p) = Call("lines")
        BY <2>1, <3>2 DEF GoodCall, CallSet, Call
      <3> QED
        BY <3>2, <3>3
    <2> QED
      BY <2>1, <2>2
  <1> QED
    BY <1>1, <1>2 DEF Calls

LEMMA JobsStay == [Next]_vars => job' = job
  <1>1. ASSUME NEW p \in Programs, Access(p) PROVE job' = job
    BY <1>1, AccessSteps DEF GoOn
  <1>2. ASSUME NEW p \in Programs, Calls(p), ~Access(p) PROVE job' = job
    BY <1>2, Zenon DEF Calls, BadLine, ReadKernelPalette, TellKernel, FontProg, NextLine, Exit, Abort, GoOn
  <1>3. ASSUME NEW p \in Programs, Kill(p) PROVE job' = job
    BY <1>3 DEF Kill
  <1>4. ASSUME KernelCursor \/ KernelAttributes \/ KernelFont \/ KernelSwitch PROVE job' = job
    <2>1. PICK use, sets, c : Burst(use, sets, c)
      BY <1>4, Zenon DEF KernelCursor, KernelAttributes, KernelFont, KernelSwitch
    <2> QED
      BY <2>1 DEF Burst, local
  <1> QED
    BY <1>1, <1>2, <1>3, <1>4 DEF Next, vars, local

LEMMA StepStands == TypeInv /\ StandInv /\ [Next]_vars => StandInv'
  <1> SUFFICES ASSUME TypeInv, StandInv, [Next]_vars
               PROVE  StandInv'
    OBVIOUS
  <1>1. ASSUME NEW p \in Programs, Calls(p), NEW q \in Programs
        PROVE  Stands(q)'
    <2>1. Stands(p) /\ Stands(q)
      BY DEF StandInv
    <2>2. ASSUME Access(p), Finishes(p)
          PROVE  Stands(q)'
      <3>1. GoOn(p, Tail(calls[p]), "done") /\ Running(p)
        BY <2>2, AccessSteps DEF UsesPorts
      <3>2. Stands(p)'
        BY <2>1, <3>1, GoOnStands
      <3>3. q # p => Stands(q)'
        BY <2>1, <3>1, OthersStand
      <3> QED
        BY <3>1, <3>2, <3>3 DEF GoOn
    <2>3. ASSUME Access(p), ~Finishes(p)
          PROVE  Stands(q)'
      <3>1. UNCHANGED <<job, calls, ended>> /\ Acts(p, FALSE)
        BY <2>3, AccessSteps
      <3>2. last' # q
        BY <3>1, ToolsAssumption, Zenon DEF Acts, Nobody
      <3> QED
        BY <2>1, <3>1, <3>2, StandsKept
    <2>4. ASSUME ~Access(p)
          PROVE  Stands(q)'
      <3>1. PICK rest, how : /\ how \in {"done", "aborted"} /\ GoOn(p, rest, how)
                             /\ how = "done" /\ ended[p] = "run" /\ Call("lines") \notin ToSet(job[p])
                                  => rest = Tail(calls[p])
        BY <1>1, <2>1, <2>4, CallsGoOn
      <3>2. Running(p)
        BY <1>1, <2>1, <2>4, CallsGoOn
      <3>3. Stands(p)'
        BY <2>1, <3>1, <3>2, GoOnStands
      <3>4. q # p => Stands(q)'
        BY <2>1, <3>1, OthersStand
      <3> QED
        BY <3>1, <3>3, <3>4 DEF GoOn
    <2> QED
      BY <2>2, <2>3, <2>4
  <1>2. ASSUME NEW p \in Programs, Kill(p), NEW q \in Programs
        PROVE  Stands(q)'
    <2>1. Stands(p) /\ Stands(q)
      BY DEF StandInv
    <2>2. /\ Running(p) /\ UNCHANGED <<job, alone, last>>
          /\ calls' = [calls EXCEPT ![p] = <<>>] /\ ended' = [ended EXCEPT ![p] = "killed"]
      BY <1>2 DEF Kill, history
    <2>3. CASE q = p
      <3>1. calls'[q] = <<>> /\ ended'[q] = "killed" /\ last' # q
        BY <2>1, <2>2, <2>3 DEF TypeInv, Stands, Running
      <3> QED
        BY <2>2, <3>1 DEF Stands
    <2>4. CASE q # p
      <3>1. calls'[q] = calls[q] /\ ended'[q] = ended[q]
        BY <2>2, <2>4 DEF TypeInv
      <3> QED
        BY <2>1, <2>2, <3>1, StandsKept
    <2> QED
      BY <2>2, <2>3, <2>4
  <1>3. ASSUME KernelCursor \/ KernelAttributes \/ KernelFont \/ KernelSwitch, NEW q \in Programs
        PROVE  Stands(q)'
    <2>1. PICK use, sets, c : Burst(use, sets, c)
      BY <1>3, Zenon DEF KernelCursor, KernelAttributes, KernelFont, KernelSwitch
    <2>2. UNCHANGED <<job, calls, ended, alone, last>>
      BY <2>1 DEF Burst, local
    <2> QED
      BY <2>2, StandsKept DEF StandInv
  <1>4. ASSUME UNCHANGED vars, NEW q \in Programs
        PROVE  Stands(q)'
    <2>1. UNCHANGED <<job, calls, ended, alone, last>>
      BY <1>4 DEF vars, local, history
    <2> QED
      BY <2>1, StandsKept DEF StandInv
  <1>5. ASSUME NEW q \in Programs
        PROVE  Stands(q)'
    BY <1>1, <1>2, <1>3, <1>4 DEF Next
  <1> QED
    BY <1>5, JobsStay DEF StandInv

\* What the calls made so far have set, by the number of those left.
FontSet(p, hs) ==
  LET left  == Len(calls[p])
      on    == IF hs THEN 1 ELSE 0
      order == Bit(card.reg["CRTC"][58], 5)
      speed == Bit(card.reg["CRTC"][49], 6)
  IN  /\ left \in 1..3 => order = on
      /\ left <= 2 => speed = on
      /\ left <= 1 /\ loaded[p] => font = IF hs THEN "fast" ELSE "normal"
      /\ left = 0 => order = 0
FontHolds(p) ==
  Call("fontprog") \in ToSet(job[p]) /\ alone[p] /\ ended[p] \in {"run", "done"} =>
    \A hs \in BOOLEAN : EndsWith(job[p], LoadFont(hs)) => FontSet(p, hs)
FontInv == \A p \in Programs : FontHolds(p)

\* The calls a job that loads a font ends with.
LEMMA FontCalls ==
  ASSUME NEW p, calls[p] \in Seq(GoodCall), job[p] \in Seq(GoodCall), Left(p),
         NEW hs \in BOOLEAN, EndsWith(job[p], LoadFont(hs))
  PROVE  LET left == Len(calls[p]) IN
         /\ left \in Nat /\ Len(job[p]) >= 6
         /\ left = 4 => Current(p) = FontOrder(hs)
         /\ left = 3 => Current(p) = FontSpeed(hs)
         /\ left = 2 => Current(p) = Call("fontprog")
         /\ left = 1 => Current(p) = FontOrder(FALSE)
  <1> DEFINE cs == calls[p]
             js == job[p]
             f == LoadFont(hs)
             n == Len(f)
             left == Len(cs)
             m == Len(js)
  <1>1. /\ n \in Nat /\ n >= 6
        /\ f[n - 3] = FontOrder(hs) /\ f[n - 2] = FontSpeed(hs)
        /\ f[n - 1] = Call("fontprog") /\ f[n] = FontOrder(FALSE)
    BY LoadFontEnd
  <1>2. m - n >= 0 /\ \A k \in 1..n : js[(m - n) + k] = f[k]
    BY Zenon DEF EndsWith
  <1>3. left \in Nat /\ m \in Nat
    OBVIOUS
  <1>4. left >= 1 => Current(p) = js[(m - left) + 1]
    <2>1. left >= 1 => Running(p)
      BY DEF Running
    <2> QED
      BY <2>1, CurrentInJob
  <1> HIDE DEF f, n, left, m, js
  <1>5. \A k \in 1..4 : left = k => Current(p) = f[(n - k) + 1]
    <2> SUFFICES ASSUME NEW k \in 1..4, left = k
                 PROVE  Current(p) = f[(n - k) + 1]
      OBVIOUS
    <2>1. (n - k) + 1 \in 1..n /\ (m - n) + ((n - k) + 1) = (m - left) + 1
      <3>1. n \in Nat /\ n >= 6 /\ m \in Nat /\ k \in Nat /\ k >= 1 /\ k <= 4
        BY <1>1, <1>3
      <3>2. (n - k) + 1 \in 1..n
        BY <3>1
      <3>3. (m - n) + ((n - k) + 1) = (m - k) + 1
        BY <3>1
      <3> QED
        BY <3>2, <3>3
    <2> QED
      BY <1>2, <1>3, <1>4, <2>1
  <1>6. /\ left = 4 => Current(p) = f[n - 3]
        /\ left = 3 => Current(p) = f[n - 2]
        /\ left = 2 => Current(p) = f[n - 1]
        /\ left = 1 => Current(p) = f[n]
    <2>1. (n - 4) + 1 = n - 3 /\ (n - 3) + 1 = n - 2 /\ (n - 2) + 1 = n - 1 /\ (n - 1) + 1 = n
      BY <1>1
    <2> QED
      BY <1>5, <2>1
  <1>7. m >= 6
    BY <1>1, <1>2, <1>3
  <1> QED
    BY <1>1, <1>3, <1>6, <1>7 DEF left, m, js

LEMMA FontFields ==
  ASSUME NEW on \in BOOLEAN
  PROVE  /\ FontOrder(on).do = "modify" /\ FontOrder(on).set = "CRTC" /\ FontOrder(on).index = 58
         /\ FontOrder(on).keep = 223 /\ FontOrder(on).or = (IF on THEN 32 ELSE 0)
         /\ FontSpeed(on).do = "modify" /\ FontSpeed(on).set = "CRTC" /\ FontSpeed(on).index = 49
         /\ FontSpeed(on).keep = 191 /\ FontSpeed(on).or = (IF on THEN 64 ELSE 0)
  BY Powers DEF FontOrder, FontSpeed, Outbit, Modify

\* A register the access does not write stays.
LEMMA CrtcKept ==
  ASSUME TypeInv, CallInv, NEW p \in Programs, Access(p), alone'[p], NEW i \in Registers["CRTC"],
         ~(Finishes(p) /\ Current(p).set = "CRTC" /\ Current(p).index = i)
  PROVE  card'.reg["CRTC"][i] = card.reg["CRTC"][i]
  <1>1. CASE Current(p).set = "CRTC" /\ ~Finishes(p)
    <2>1. "CRTC" \in Indexed
      BY DEF Indexed
    <2>2. UsesPorts(p) /\ card' = Effect(card, Code(p)[pc[p]]) /\ Fits(p) /\ CardOK(card)
      BY AccessSteps DEF TypeInv
    <2> DEFINE e == Effect(card, Code(p)[pc[p]])
    <2>3. e.reg = card.reg
      BY <1>1, <2>1, <2>2, IndexedCard
    <2> HIDE DEF e
    <2> QED
      BY <2>2, <2>3 DEF e
  <1>2. CASE ~(Current(p).set = "CRTC" /\ Current(p).index = i)
    <2>1. Confined(p) /\ "CRTC" \in Sets
      BY AccessConfined DEF Sets, Indexed
    <2> QED
      BY <1>2, <2>1 DEF Confined
  <1> QED
    BY <1>1, <1>2

\* A finished Outbit of one of the two font registers.
LEMMA FontBits ==
  ASSUME TypeInv, NEW p \in Programs, Access(p), Finishes(p), NEW on \in BOOLEAN
  PROVE  /\ Current(p) = FontOrder(on) => Bit(card'.reg["CRTC"][58], 5) = IF on THEN 1 ELSE 0
         /\ Current(p) = FontSpeed(on) => Bit(card'.reg["CRTC"][49], 6) = IF on THEN 1 ELSE 0
  <1> DEFINE c == Current(p)
             e == Effect(card, Code(p)[pc[p]])
             v == Value(p)
             byte == IF got[p] = <<>> THEN 0 ELSE got[p][1]
             r == card.reg["CRTC"]
  <1>1. UsesPorts(p) /\ card' = e /\ Fits(p) /\ CardOK(card)
    BY AccessSteps DEF TypeInv
  <1>2. byte \in Byte
    BY <1>1, FirstByte DEF Fits
  <1>3. ASSUME c.set = "CRTC", c.do = "modify"
        PROVE  card'.reg["CRTC"] = [r EXCEPT ![c.index] = v] /\ c.index \in DOMAIN r /\ v = Merge(c, byte)
    <2>1. "CRTC" \in Indexed /\ "CRTC" \in Sets
      BY DEF Indexed, Sets
    <2>2. e.reg = [card.reg EXCEPT !["CRTC"] = [card.reg["CRTC"] EXCEPT ![c.index] = v]]
      BY <1>1, <1>3, <2>1, IndexedCard
    <2>3. c \in GoodCall
      BY <1>1, CurrentIsGood DEF UsesPorts
    <2>4. c.index \in Registers["CRTC"]
      BY <1>3, <2>3, GoodCallFacts
    <2>5. "CRTC" \in DOMAIN card.reg /\ c.index \in DOMAIN r
      BY <1>1, <2>1, <2>4 DEF CardOK, RegOK
    <2>6. v = Merge(c, byte)
      BY <1>3 DEF Value
    <2> DEFINE x == [r EXCEPT ![c.index] = v]
    <2>7. e.reg = [card.reg EXCEPT !["CRTC"] = x]
      BY <2>2
    <2> HIDE DEF x, e
    <2>8. e.reg["CRTC"] = x
      BY <2>5, <2>7
    <2> QED
      BY <1>1, <2>5, <2>6, <2>8 DEF x
  <1>4. ASSUME c = FontOrder(on)
        PROVE  Bit(card'.reg["CRTC"][58], 5) = IF on THEN 1 ELSE 0
    <2>1. /\ c.do = "modify" /\ c.set = "CRTC" /\ c.index = 58
          /\ c.keep = 223 /\ c.or = IF on THEN 32 ELSE 0
      BY <1>4, FontFields
    <2>2. card'.reg["CRTC"] = [r EXCEPT ![58] = v] /\ 58 \in DOMAIN r /\ v = Merge(c, byte)
      BY <1>3, <2>1
    <2>3. card'.reg["CRTC"][58] = Merge(c, byte)
      BY <2>2
    <2>4. c.keep \in Byte /\ c.or \in Byte /\ 5 \in 0..7
      BY <2>1 DEF Byte
    <2>5. Bit(c.keep, 5) = 0 /\ Bit(c.or, 5) = IF on THEN 1 ELSE 0
      BY <2>1, Powers DEF Bit
    <2> HIDE DEF c, byte
    <2>6. Bit(c.or, 5) = 1 => Bit(Merge(c, byte), 5) = 1
      BY <1>2, <2>4, MergedBits
    <2>7. Bit(c.or, 5) = 0 /\ Bit(c.keep, 5) = 0 => Bit(Merge(c, byte), 5) = 0
      BY <1>2, <2>4, MergedBits
    <2> QED
      BY <2>3, <2>5, <2>6, <2>7
  <1>5. ASSUME c = FontSpeed(on)
        PROVE  Bit(card'.reg["CRTC"][49], 6) = IF on THEN 1 ELSE 0
    <2>1. /\ c.do = "modify" /\ c.set = "CRTC" /\ c.index = 49
          /\ c.keep = 191 /\ c.or = IF on THEN 64 ELSE 0
      BY <1>5, FontFields
    <2>2. card'.reg["CRTC"] = [r EXCEPT ![49] = v] /\ 49 \in DOMAIN r /\ v = Merge(c, byte)
      BY <1>3, <2>1
    <2>3. card'.reg["CRTC"][49] = Merge(c, byte)
      BY <2>2
    <2>4. c.keep \in Byte /\ c.or \in Byte /\ 6 \in 0..7
      BY <2>1 DEF Byte
    <2>5. Bit(c.keep, 6) = 0 /\ Bit(c.or, 6) = IF on THEN 1 ELSE 0
      BY <2>1, Powers DEF Bit
    <2> HIDE DEF c, byte
    <2>6. Bit(c.or, 6) = 1 => Bit(Merge(c, byte), 6) = 1
      BY <1>2, <2>4, MergedBits
    <2>7. Bit(c.or, 6) = 0 /\ Bit(c.keep, 6) = 0 => Bit(Merge(c, byte), 6) = 0
      BY <1>2, <2>4, MergedBits
    <2> QED
      BY <2>3, <2>5, <2>6, <2>7
  <1> QED
    BY <1>4, <1>5

LEMMA FontRegisters ==
  ASSUME NEW p, job[p] \in Seq(GoodCall), NEW hs \in BOOLEAN, EndsWith(job[p], LoadFont(hs))
  PROVE  49 \in Registers["CRTC"] /\ 58 \in Registers["CRTC"]
  <1> DEFINE js == job[p]
             f == LoadFont(hs)
             n == Len(f)
             m == Len(js)
  <1>1. /\ n \in Nat /\ n >= 6
        /\ f[n - 3] = FontOrder(hs) /\ f[n - 2] = FontSpeed(hs)
    BY LoadFontEnd
  <1>2. m - n >= 0 /\ \A k \in 1..n : js[(m - n) + k] = f[k]
    BY Zenon DEF EndsWith
  <1>3. m \in Nat /\ \A k \in 1..m : js[k] \in GoodCall
    OBVIOUS
  <1> HIDE DEF f, n, m, js
  <1>4. \A k \in 1..n : f[k] \in GoodCall
    <2> SUFFICES ASSUME NEW k \in 1..n
                 PROVE  f[k] \in GoodCall
      OBVIOUS
    <2>1. (m - n) + k \in 1..m
      BY <1>1, <1>2, <1>3
    <2> QED
      BY <1>2, <1>3, <2>1
  <1>5. n - 3 \in 1..n /\ n - 2 \in 1..n
    BY <1>1
  <1>6. FontOrder(hs) \in GoodCall /\ FontSpeed(hs) \in GoodCall
    BY <1>1, <1>4, <1>5
  <1> QED
    BY <1>6, FontFields, GoodCallFacts

LEMMA KernelKeepsCrtc ==
  ASSUME TypeInv, KernelCursor \/ KernelAttributes \/ KernelFont \/ KernelSwitch,
         NEW i \in Registers["CRTC"], i # CursorReg
  PROVE  card'.reg["CRTC"][i] = card.reg["CRTC"][i]
  <1>1. CardOK(card) /\ kpal \in Palette
    BY DEF TypeInv
  <1>2. CASE KernelCursor
    <2>1. PICK e : CardOK(e) /\ CursorMoved(e, card) /\ Burst("cursor", {"CRTC"}, e)
      BY <1>1, <1>2, CursorBurst
    <2> QED
      BY <2>1 DEF Burst, CursorMoved
  <1>3. CASE KernelAttributes
    <2> DEFINE e == [card EXCEPT !.flip = FALSE, !.ix["ATR"] = 48]
               f == [card EXCEPT !.flip = FALSE]
    <2>1. Burst("attributes", {"ATR"}, e) \/ Burst("attributes", {"ATR"}, f)
      BY <1>3, Zenon DEF KernelAttributes
    <2>2. e.reg = card.reg /\ f.reg = card.reg
      BY <1>1, AttributesCard
    <2> HIDE DEF e, f
    <2> QED
      BY <2>1, <2>2 DEF Burst
  <1>4. CASE KernelFont
    <2> DEFINE e == [card EXCEPT !.ix["SEQ"] = 0, !.ix["GR"] = 0]
    <2>1. Burst("font", {"SEQ", "GR"}, e)
      BY <1>4 DEF KernelFont
    <2>2. e.reg = card.reg
      BY <1>1, FontCard
    <2> HIDE DEF e
    <2> QED
      BY <2>1, <2>2 DEF Burst
  <1>5. CASE KernelSwitch
    <2> DEFINE e == Switched(card, kpal)
    <2>1. Burst("switch", {"DAC"}, e)
      BY <1>5 DEF KernelSwitch
    <2>2. e.reg = card.reg
      BY <1>1, SwitchedCard DEF IsCard
    <2> HIDE DEF e
    <2> QED
      BY <2>1, <2>2 DEF Burst
  <1> QED
    BY <1>2, <1>3, <1>4, <1>5

LEMMA FontKept ==
  ASSUME NEW q, FontHolds(q), job'[q] = job[q], calls'[q] = calls[q], alone'[q] => alone[q],
         ended'[q] = ended[q], loaded'[q] = loaded[q],
         loaded[q] => font' = font,
         card'.reg["CRTC"][58] = card.reg["CRTC"][58], card'.reg["CRTC"][49] = card.reg["CRTC"][49]
  PROVE  FontHolds(q)'
  BY DEF FontHolds, FontSet

\* A program that has only its last four calls left began some time ago.
LEMMA FontGoesOn ==
  ASSUME NEW p \in Programs, NEW ends, Acts(p, ends), alone'[p], Len(job[p]) >= 6, Len(calls[p]) <= 4
  PROVE  alone[p]
  <1>1. ~Starting(p)
    BY DEF Starting
  <1>2. alone' = [r \in Programs |-> r = p /\ IF Starting(p) THEN TRUE ELSE alone[p]]
    BY DEF Acts
  <1> QED
    BY <1>1, <1>2, Zenon

\* The program's own steps, with as many calls left as it has before the step.
LEMMA FontAccess ==
  ASSUME TypeInv, CallInv, NEW p \in Programs, Stands(p), FontHolds(p), Access(p), alone'[p],
         ended[p] = "run", Call("fontprog") \in ToSet(job[p]), Left(p),
         NEW hs \in BOOLEAN, EndsWith(job[p], LoadFont(hs))
  PROVE  FontSet(p, hs)'
  <1> DEFINE left == Len(calls[p])
             on == IF hs THEN 1 ELSE 0
             order == Bit(card.reg["CRTC"][58], 5)
             speed == Bit(card.reg["CRTC"][49], 6)
  <1>1. calls[p] \in Seq(GoodCall) /\ job[p] \in Seq(GoodCall) /\ calls[p] # <<>>
    BY AccessSteps DEF TypeInv, UsesPorts, Running
  <1>2. left \in Nat /\ left >= 1
    BY <1>1
  <1>3. /\ left = 4 => Current(p) = FontOrder(hs)
        /\ left = 3 => Current(p) = FontSpeed(hs)
        /\ left = 2 => Current(p) = Call("fontprog")
        /\ left = 1 => Current(p) = FontOrder(FALSE)
        /\ Len(job[p]) >= 6
    BY <1>1, FontCalls
  <1>4. left # 2
    <2>1. Current(p).set # "none"
      BY AccessSteps DEF UsesPorts
    <2>2. Call("fontprog").set = "none"
      BY DEF Call
    <2> HIDE DEF left
    <2> QED
      BY <1>3, <2>1, <2>2
  <1>5. left <= 4 => FontSet(p, hs)
    <2>1. PICK ends : Acts(p, ends)
      BY AccessSteps, Zenon DEF GoOn
    <2> QED
      BY <1>3, <2>1, FontGoesOn DEF FontHolds
  <1>6. UNCHANGED <<font, loaded>>
    BY AccessSteps
  <1>7. 49 \in Registers["CRTC"] /\ 58 \in Registers["CRTC"]
    BY <1>1, FontRegisters
  <1>8. ~(Finishes(p) /\ Current(p).set = "CRTC" /\ Current(p).index = 58) => order' = order
    BY <1>7, CrtcKept
  <1>9. ~(Finishes(p) /\ Current(p).set = "CRTC" /\ Current(p).index = 49) => speed' = speed
    BY <1>7, CrtcKept
  <1>10. CASE ~Finishes(p)
    <2>1. calls'[p] = calls[p]
      BY <1>10, AccessSteps
    <2>2. order' = order /\ speed' = speed
      BY <1>8, <1>9, <1>10
    <2> HIDE DEF order, speed
    <2>3. CASE left <= 4
      BY <1>5, <1>6, <2>1, <2>2, <2>3 DEF FontSet, order, speed
    <2>4. CASE left > 4
      <3>1. Len(calls'[p]) = left
        BY <2>1
      <3> HIDE DEF left
      <3> QED
        BY <1>2, <2>4, <3>1 DEF FontSet
    <2> HIDE DEF left
    <2> QED
      BY <1>2, <2>3, <2>4
  <1>11. CASE Finishes(p)
    <2>1. calls'[p] = Tail(calls[p])
      <3>1. GoOn(p, Tail(calls[p]), "done")
        BY <1>11, AccessSteps
      <3> QED
        BY <3>1 DEF GoOn, TypeInv
    <2>2. Len(calls'[p]) = left - 1
      BY <1>1, <2>1
    <2> HIDE DEF left
    <2>3. CASE left = 4
      <3>1. order' = on
        BY <1>3, <1>11, <2>3, FontBits
      <3> QED
        BY <2>2, <2>3, <3>1 DEF FontSet
    <2>4. CASE left = 3
      <3>1. speed' = on
        BY <1>3, <1>11, <2>4, FontBits
      <3>2. order' = order
        BY <1>3, <1>8, <2>4, FontFields
      <3>3. order = on
        BY <1>5, <2>4 DEF FontSet, left
      <3> HIDE DEF on
      <3> QED
        BY <2>2, <2>4, <3>1, <3>2, <3>3 DEF FontSet, on
    <2>5. CASE left = 1
      <3>1. order' = 0
        BY <1>3, <1>11, <2>5, FontBits
      <3>2. speed' = speed
        <4>1. Current(p).index = 58
          <5>1. Current(p) = FontOrder(FALSE)
            BY <1>3, <2>5
          <5>2. FontOrder(FALSE).index = 58
            BY FontFields
          <5> QED
            BY <5>1, <5>2, Zenon
        <4> QED
          BY <1>9, <4>1
      <3>3. speed = on /\ (loaded[p] => font = IF hs THEN "fast" ELSE "normal")
        BY <1>5, <2>5 DEF FontSet, left
      <3> HIDE DEF speed
      <3> QED
        BY <1>6, <2>2, <2>5, <3>1, <3>2, <3>3 DEF FontSet, speed
    <2>6. CASE left > 4
      BY <1>2, <2>2, <2>6 DEF FontSet
    <2> QED
      BY <1>2, <1>4, <2>3, <2>4, <2>5, <2>6
  <1> QED
    BY <1>10, <1>11

\* The same for its calls that use no port.
LEMMA FontCall ==
  ASSUME TypeInv, NEW p \in Programs, Stands(p), FontHolds(p), Calls(p), ~Access(p), alone'[p],
         ended[p] = "run", ended'[p] \in {"run", "done"},
         Call("fontprog") \in ToSet(job[p]), Call("lines") \notin ToSet(job[p]),
         NEW hs \in BOOLEAN, EndsWith(job[p], LoadFont(hs))
  PROVE  FontSet(p, hs)'
  <1> DEFINE left == Len(calls[p])
             order == Bit(card.reg["CRTC"][58], 5)
             speed == Bit(card.reg["CRTC"][49], 6)
  <1>1. PICK rest, how : /\ how \in {"done", "aborted"} /\ GoOn(p, rest, how)
                         /\ how = "done" => rest = Tail(calls[p])
    BY CallsGoOn
  <1>2. Running(p) /\ calls[p] \in Seq(GoodCall) /\ job[p] \in Seq(GoodCall) /\ calls[p] # <<>> /\ Left(p)
    BY CallsGoOn DEF TypeInv, Running, Stands
  <1>3. how = "done"
    BY <1>1 DEF GoOn, TypeInv
  <1>4. calls'[p] = Tail(calls[p])
    BY <1>1, <1>3 DEF GoOn, TypeInv
  <1>5. left \in Nat /\ left >= 1 /\ Len(calls'[p]) = left - 1
    BY <1>2, <1>4
  <1>6. /\ left = 4 => Current(p) = FontOrder(hs)
        /\ left = 3 => Current(p) = FontSpeed(hs)
        /\ left = 2 => Current(p) = Call("fontprog")
        /\ left = 1 => Current(p) = FontOrder(FALSE)
        /\ Len(job[p]) >= 6
    BY <1>2, FontCalls
  <1>7. Current(p).do # "modify"
    BY Zenon DEF Calls, BadLine, ReadKernelPalette, TellKernel, FontProg, NextLine, Exit, Does
  <1>8. left = 2 \/ left > 4
    <2>1. FontOrder(hs).do = "modify" /\ FontSpeed(hs).do = "modify" /\ FontOrder(FALSE).do = "modify"
      BY FontFields
    <2>2. left # 4 /\ left # 3 /\ left # 1
      BY <1>6, <1>7, <2>1, Zenon
    <2> HIDE DEF left
    <2> QED
      BY <1>5, <2>2
  <1>9. CASE left > 4
    <2> HIDE DEF left
    <2> QED
      BY <1>5, <1>9 DEF FontSet
  <1>10. CASE left = 2
    <2>1. Current(p).do = "fontprog"
      BY <1>6, <1>10 DEF Call
    <2>2. FontProg(p)
      BY <2>1, Zenon DEF Calls, BadLine, ReadKernelPalette, TellKernel, NextLine, Exit, Does
    <2>3. PICK ok \in BOOLEAN :
            /\ font' = IF ~ok THEN font
                       ELSE IF order = 1 THEN "fast" ELSE "normal"
            /\ loaded' = [loaded EXCEPT ![p] = ok]
      BY <2>2 DEF FontProg
    <2>4. card' = card
      BY <2>2 DEF FontProg
    <2>5. loaded'[p] = ok
      BY <2>3 DEF TypeInv
    <2>6. FontSet(p, hs)
      <3>1. Acts(p, rest = <<>> /\ ended[p] = "run" /\ how = "done")
        BY <1>1 DEF GoOn
      <3> DEFINE ends == rest = <<>> /\ ended[p] = "run" /\ how = "done"
      <3>2. Acts(p, ends)
        BY <3>1
      <3> HIDE DEF ends
      <3>3. Len(calls[p]) <= 4 /\ Len(job[p]) >= 6
        BY <1>6, <1>10
      <3>4. alone[p]
        BY <3>2, <3>3, FontGoesOn
      <3> QED
        BY <3>4 DEF FontHolds
    <2>7. order = (IF hs THEN 1 ELSE 0) /\ speed = (IF hs THEN 1 ELSE 0)
      BY <1>10, <2>6 DEF FontSet
    <2> HIDE DEF order, speed
    <2>8. order' = order /\ speed' = speed
      BY <2>4 DEF order, speed
    <2>9. loaded'[p] => font' = IF hs THEN "fast" ELSE "normal"
      BY <2>3, <2>5, <2>7
    <2> QED
      BY <1>5, <1>10, <2>7, <2>8, <2>9 DEF FontSet, order, speed
  <1> QED
    BY <1>8, <1>9, <1>10

LEMMA InitFont == Init => FontInv
  BY DEF Init, FontInv, FontHolds

\* A program that loads fonts reads no pipe, and ends as LoadFont does.
LEMMA FontJobs ==
  ASSUME StandInv, NEW p \in Programs, Call("fontprog") \in ToSet(job[p])
  PROVE  Call("lines") \notin ToSet(job[p])
  BY FontAssumption DEF StandInv

LEMMA StepFont == TypeInv /\ CallInv /\ StandInv /\ FontInv /\ [Next]_vars => FontInv'
  <1> SUFFICES ASSUME TypeInv, CallInv, StandInv, FontInv, [Next]_vars, NEW q \in Programs
               PROVE  FontHolds(q)'
    BY DEF FontInv
  <1>1. FontHolds(q) /\ Stands(q) /\ job' = job
    BY JobsStay DEF FontInv, StandInv
  <1>2. ASSUME NEW p \in Programs, Calls(p)
        PROVE  FontHolds(q)'
    <2>1. CASE q # p
      <3>1. PICK ends : Acts(p, ends)
        <4>1. CASE Access(p)
          BY <4>1, AccessSteps, Zenon DEF GoOn
        <4>2. CASE ~Access(p)
          BY <1>2, <4>2, CallsGoOn, Zenon DEF GoOn, StandInv
        <4> QED
          BY <4>1, <4>2
      <3>2. ~alone'[q]
        BY <2>1, <3>1 DEF Acts
      <3> QED
        BY <3>2 DEF FontHolds
    <2>2. CASE q = p
      <3> SUFFICES ASSUME Call("fontprog") \in ToSet(job[p]), alone'[p], ended'[p] \in {"run", "done"},
                          NEW hs \in BOOLEAN, EndsWith(job[p], LoadFont(hs))
                   PROVE  FontSet(p, hs)'
        BY <1>1, <2>2 DEF FontHolds
      <3>1. Call("lines") \notin ToSet(job[p])
        BY FontJobs
      <3>2. ended[p] = "run"
        <4>1. Running(p)
          BY <1>1, <1>2, <2>2, AccessSteps, CallsGoOn DEF UsesPorts
        <4>2. ended[p] \in {"run", "aborted"}
          BY <1>1, <2>2, <4>1 DEF Stands, Running, TypeInv
        <4>3. ended[p] = "aborted" => ended'[p] = "aborted"
          <5>1. \A rest, how : GoOn(p, rest, how) /\ ended[p] = "aborted" => ended'[p] = "aborted"
            BY DEF GoOn, TypeInv
          <5>2. CASE Access(p)
            BY <5>1, <5>2, AccessSteps
          <5>3. CASE ~Access(p)
            BY <1>1, <1>2, <2>2, <5>1, <5>3, CallsGoOn
          <5> QED
            BY <5>2, <5>3
        <4> QED
          BY <4>2, <4>3
      <3>3. Left(p)
        BY <1>1, <2>2, <3>1, <3>2 DEF Stands
      <3> QED
        BY <1>1, <1>2, <2>2, <3>1, <3>2, <3>3, FontAccess, FontCall
    <2> QED
      BY <2>1, <2>2
  <1>3. ASSUME NEW p \in Programs, Kill(p)
        PROVE  FontHolds(q)'
    <2>1. /\ Running(p) /\ UNCHANGED <<card, font, job, alone, loaded>>
          /\ calls' = [calls EXCEPT ![p] = <<>>] /\ ended' = [ended EXCEPT ![p] = "killed"]
      BY <1>3 DEF Kill, history
    <2>2. CASE q = p
      BY <2>1, <2>2 DEF FontHolds, TypeInv
    <2>3. CASE q # p
      <3>1. calls'[q] = calls[q] /\ ended'[q] = ended[q]
        BY <2>1, <2>3 DEF TypeInv
      <3> QED
        BY <1>1, <2>1, <3>1, FontKept
    <2> QED
      BY <2>2, <2>3
  <1>4. ASSUME KernelCursor \/ KernelAttributes \/ KernelFont \/ KernelSwitch
        PROVE  FontHolds(q)'
    <2>1. PICK use, sets, c : Burst(use, sets, c)
      BY <1>4, Zenon DEF KernelCursor, KernelAttributes, KernelFont, KernelSwitch
    <2>2. UNCHANGED <<font, job, calls, ended, alone, loaded>>
      BY <2>1 DEF Burst, local
    <2> SUFFICES ASSUME NEW hs \in BOOLEAN, EndsWith(job[q], LoadFont(hs))
                 PROVE  FontHolds(q)'
      BY <2>2 DEF FontHolds
    <2>3. /\ card'.reg["CRTC"][58] = card.reg["CRTC"][58]
          /\ card'.reg["CRTC"][49] = card.reg["CRTC"][49]
      <3>1. 49 \in Registers["CRTC"] /\ 58 \in Registers["CRTC"]
        BY FontRegisters DEF TypeInv
      <3>2. 49 # CursorReg /\ 58 # CursorReg
        BY DEF CursorReg
      <3> QED
        BY <1>4, <3>1, <3>2, KernelKeepsCrtc
    <2> QED
      BY <1>1, <2>2, <2>3, FontKept
  <1>5. ASSUME UNCHANGED vars
        PROVE  FontHolds(q)'
    <2>1. UNCHANGED <<card, font, job, calls, ended, alone, loaded>>
      BY <1>5 DEF vars, local, history
    <2> QED
      BY <1>1, <2>1, FontKept
  <1> QED
    BY <1>2, <1>3, <1>4, <1>5 DEF Next

\* A program that runs has a last part of its job still to make, a killed one
\* ended in the middle of it, and a program on the last calls of a font has
\* set what the earlier of them set, as long as it is alone.
THEOREM ToolsStand == Spec => [](TypeInv /\ CallInv /\ StandInv /\ FontInv)
  <1> DEFINE Inv == TypeInv /\ CallInv /\ StandInv /\ FontInv
  <1>1. Init => Inv
    BY InitType, InitHolds, InitStands, InitFont
  <1>2. Inv /\ [Next]_vars => Inv'
    BY StepType, StepHolds, StepStands, StepFont
  <1> QED
    BY <1>1, <1>2, PTL DEF Spec

LEMMA FontAgreed == TypeInv /\ StandInv /\ FontInv => FontAgrees
  <1> SUFFICES ASSUME TypeInv, StandInv, FontInv, NEW p \in Programs, last = p,
                      Call("fontprog") \in ToSet(job[p]), loaded[p]
               PROVE  /\ (Bit(card.reg["CRTC"][49], 6) = 1) = (font = "fast")
                      /\ Bit(card.reg["CRTC"][58], 5) = 0
    BY DEF FontAgrees
  <1>1. alone[p] /\ calls[p] = <<>> /\ ended[p] = "done" /\ FontHolds(p)
    BY DEF StandInv, Stands, FontInv
  <1>2. PICK hs \in BOOLEAN : EndsWith(job[p], LoadFont(hs))
    BY FontAssumption DEF StandInv
  <1>3. FontSet(p, hs)
    BY <1>1, <1>2 DEF FontHolds
  <1>4. Len(calls[p]) = 0
    BY <1>1
  <1> DEFINE order == Bit(card.reg["CRTC"][58], 5)
             speed == Bit(card.reg["CRTC"][49], 6)
  <1>5. speed = (IF hs THEN 1 ELSE 0) /\ order = 0 /\ font = IF hs THEN "fast" ELSE "normal"
    BY <1>3, <1>4 DEF FontSet
  <1> HIDE DEF order, speed
  <1>6. (speed = 1) = (font = "fast")
    BY <1>5
  <1> QED
    BY <1>5, <1>6 DEF order, speed

\* Once SVGATextMode has loaded a font, nobody else in between, the card
\* fetches it in the order it is stored in and the text memory is back in its
\* own, whatever programs killed before it left in the registers and whatever
\* the kernel does afterwards.
THEOREM ToolsFontAgrees == Spec => []FontAgrees
  BY ToolsStand, FontAgreed, PTL
-----------------------------------------------------------------------------
(* The palette: what setpalette keeps of the lines it has read.            *)

\* setpalette without the pipe.
Paints(p) == Call("PIO_CMAP") \in ToSet(job[p]) /\ Call("lines") \notin ToSet(job[p])

\* The lines for text colour i among the first n calls, and what the kernel's
\* palette is to hold for it after them.
LinesTo(p, i, n) == {k \in Lines(p, i) : k <= n}
Wanted(p, i, n) == IF LinesTo(p, i, n) = {} THEN was[p][AnsiOrder(i)]
                   ELSE KernelColour(job[p][Max(LinesTo(p, i, n))].rgb)
Made(p) == Len(job[p]) - Len(calls[p])

\* Until PIO_CMAP the program's copy is overlaid line by line and the kernel's
\* palette stays; afterwards the kernel has the copy, and shows it.
Painted(p, i) ==
  /\ calls[p] # <<>> => kpal = was[p] /\ mine[p][AnsiOrder(i)] = Wanted(p, i, Made(p))
  /\ calls[p] = <<>> => /\ kpal[AnsiOrder(i)] = Wanted(p, i, Made(p))
                        /\ card.dac.col[i] = DacColour(kpal[AnsiOrder(i)])
PaletteHolds(p) ==
  Paints(p) /\ alone[p] /\ ended[p] \in {"run", "done"} /\ Made(p) >= 1 =>
    \A i \in Text : Painted(p, i)
PaletteInv == \A p \in Programs : PaletteHolds(p)

\* The table is the kernel's order, and every colour has a place of its own.
LEMMA AnsiTable == \A i \in Text : color_table[i + 1] = AnsiOrder(i)
  <1> DEFINE P(i) == color_table[i + 1] = AnsiOrder(i)
  <1>1. /\ color_table[1] = 0 /\ color_table[2] = 4 /\ color_table[3] = 2 /\ color_table[4] = 6
        /\ color_table[5] = 1 /\ color_table[6] = 5 /\ color_table[7] = 3 /\ color_table[8] = 7
        /\ color_table[9] = 8 /\ color_table[10] = 12 /\ color_table[11] = 10 /\ color_table[12] = 14
        /\ color_table[13] = 9 /\ color_table[14] = 13 /\ color_table[15] = 11 /\ color_table[16] = 15
    BY DEF color_table
  <1>2. P(0) /\ P(1) /\ P(2) /\ P(3)
    BY <1>1, Powers DEF AnsiOrder, Bit
  <1>3. P(4) /\ P(5) /\ P(6) /\ P(7)
    BY <1>1, Powers DEF AnsiOrder, Bit
  <1>4. P(8) /\ P(9) /\ P(10) /\ P(11)
    BY <1>1, Powers DEF AnsiOrder, Bit
  <1>5. P(12) /\ P(13) /\ P(14) /\ P(15)
    BY <1>1, Powers DEF AnsiOrder, Bit
  <1>6. \A i \in Text : \/ i = 0 \/ i = 1 \/ i = 2 \/ i = 3 \/ i = 4 \/ i = 5 \/ i = 6 \/ i = 7
                        \/ i = 8 \/ i = 9 \/ i = 10 \/ i = 11 \/ i = 12 \/ i = 13 \/ i = 14 \/ i = 15
    BY DEF Text
  <1> HIDE DEF P
  <1>7. \A i \in Text : P(i)
    BY <1>2, <1>3, <1>4, <1>5, <1>6
  <1> QED
    BY <1>7 DEF P

LEMMA AnsiInjective ==
  ASSUME NEW i \in Text, NEW j \in Text, AnsiOrder(i) = AnsiOrder(j)
  PROVE  i = j
  <1>1. \A n \in Text : n = Bit(n, 0) + 2 * Bit(n, 1) + 4 * Bit(n, 2) + 8 * Bit(n, 3)
    BY Powers DEF Bit, Text
  <1>2. \A n \in Text : Bit(n, 0) \in 0..1 /\ Bit(n, 1) \in 0..1 /\ Bit(n, 2) \in 0..1 /\ Bit(n, 3) \in 0..1
    BY BitType DEF Text
  <1> QED
    BY <1>1, <1>2 DEF AnsiOrder

\* What the kernel keeps of a colour, and shows of it.
LEMMA ShownColour ==
  ASSUME NEW rgb \in [1..3 -> Int]
  PROVE  /\ KernelColour(rgb) \in [1..3 -> Byte]
         /\ DacColour(KernelColour(rgb)) = [k \in 1..3 |-> rgb[k] % 64]
  <1>1. \A k \in 1..3 : (rgb[k] * 4) % 256 \in Byte /\ ((rgb[k] * 4) % 256) \div 4 = rgb[k] % 64
    BY DEF Byte
  <1> QED
    BY <1>1 DEF KernelColour, DacColour

LEMMA LinesNext ==
  ASSUME NEW p, NEW i, NEW n \in Nat, Len(job[p]) \in Nat, n + 1 \in 1..Len(job[p])
  PROVE  LET c == job[p][n + 1] IN
         Wanted(p, i, n + 1) = IF c.do = "rgb" /\ c.index = i THEN KernelColour(c.rgb) ELSE Wanted(p, i, n)
  <1> DEFINE c == job[p][n + 1]
             L == LinesTo(p, i, n + 1)
  <1>1. CASE c.do = "rgb" /\ c.index = i
    <2>1. n + 1 \in L /\ \A k \in L : k \in Int /\ k <= n + 1
      BY <1>1 DEF LinesTo, Lines
    <2> HIDE DEF L
    <2>2. Max(L) = n + 1
      BY <2>1 DEF Max
    <2> QED
      BY <1>1, <2>1, <2>2 DEF Wanted, L
  <1>2. CASE ~(c.do = "rgb" /\ c.index = i)
    <2>1. L = LinesTo(p, i, n)
      BY <1>2 DEF LinesTo, Lines
    <2> HIDE DEF L
    <2> QED
      BY <1>2, <2>1 DEF Wanted, L
  <1> QED
    BY <1>1, <1>2

LEMMA LinesLast ==
  ASSUME NEW p, NEW i, Len(job[p]) \in Nat
  PROVE  LinesTo(p, i, Len(job[p])) = Lines(p, i)
  BY DEF LinesTo, Lines

\* What comes next in a job that paints.
LEMMA PaintsNext ==
  ASSUME TypeInv, StandInv, NEW p \in Programs, Paints(p), ended[p] = "run", Running(p)
  PROVE  LET n == Made(p)
             m == Len(job[p])
         IN  /\ m \in Nat /\ m >= 2 /\ n \in Nat /\ n + 1 \in 1..m /\ Current(p) = job[p][n + 1]
             /\ job[p][1] = Call("GIO_CMAP") /\ job[p][m] = Call("PIO_CMAP")
             /\ n = 0 => Current(p) = Call("GIO_CMAP")
             /\ n >= 1 /\ n + 1 < m => Current(p).do \in {"rgb", "bad"}
             /\ n + 1 = m => Current(p) = Call("PIO_CMAP")
             /\ Len(Tail(calls[p])) = m - (n + 1)
             /\ calls[p] = job[p] => n = 0
  <1>1. /\ Left(p) /\ calls[p] \in Seq(GoodCall) /\ job[p] \in Seq(GoodCall)
    BY DEF StandInv, Stands, TypeInv, Paints
  <1> DEFINE cs == job[p]
             n == Made(p)
  <1>2. /\ n \in Nat /\ n + 1 \in 1..Len(cs) /\ Current(p) = cs[n + 1]
        /\ Len(Tail(calls[p])) = Len(calls[p]) - 1
    BY <1>1, CurrentInJob DEF Made
  <1>3. /\ Len(cs) >= 2 /\ cs[1] = Call("GIO_CMAP") /\ cs[Len(cs)] = Call("PIO_CMAP")
        /\ \A k \in 2..Len(cs) - 1 : cs[k].do \in {"rgb", "bad"}
    BY PaintsAssumption, Zenon DEF StandInv, Paints
  <1>4. Len(cs) \in Nat /\ Len(calls[p]) \in Nat
    BY <1>1
  <1>5. Len(calls[p]) - 1 = Len(cs) - (n + 1) /\ (calls[p] = cs => n = 0)
    BY <1>4 DEF Made
  <1> HIDE DEF n, cs
  <1>6. n >= 1 /\ n + 1 < Len(cs) => n + 1 \in 2..Len(cs) - 1
    BY <1>2, <1>4
  <1>7. /\ n = 0 => cs[n + 1] = Call("GIO_CMAP")
        /\ n >= 1 /\ n + 1 < Len(cs) => cs[n + 1].do \in {"rgb", "bad"}
        /\ n + 1 = Len(cs) => cs[n + 1] = Call("PIO_CMAP")
    BY <1>3, <1>6
  <1> QED
    BY <1>2, <1>3, <1>4, <1>5, <1>7 DEF n, cs

\* The two calls at the ends of the job, and those between.
LEMMA PaintsCalls ==
  /\ Call("GIO_CMAP").do = "GIO_CMAP" /\ Call("GIO_CMAP").set = "none"
  /\ Call("PIO_CMAP").do = "PIO_CMAP" /\ Call("PIO_CMAP").set = "none"
  BY DEF Call

LEMMA PaintedKept ==
  ASSUME NEW p, NEW i, Painted(p, i), job'[p] = job[p], was'[p] = was[p], calls'[p] = calls[p],
         mine'[p] = mine[p], kpal' = kpal,
         calls[p] = <<>> => card'.dac.col[i] \in {card.dac.col[i], DacColour(kpal[AnsiOrder(i)])}
  PROVE  Painted(p, i)'
  <1>1. Made(p)' = Made(p)
    BY DEF Made
  <1>2. Wanted(p, i, Made(p))' = Wanted(p, i, Made(p))
    BY <1>1 DEF Wanted, LinesTo, Lines
  <1> QED
    BY <1>1, <1>2 DEF Painted

LEMMA SwitchedColour ==
  ASSUME NEW c, CardOK(c), NEW pal \in Palette, NEW i \in Text
  PROVE  Switched(c, pal).dac.col[i] = DacColour(pal[AnsiOrder(i)])
  <1>1. Switched(c, pal).dac = SwitchedDac(c.dac, pal)
    BY SwitchedCard DEF IsCard
  <1>2. c.dac \in DacType
    BY DEF CardOK
  <1>3. i \in 0..DacSize - 1
    BY DacIsLarge DEF Text
  <1> QED
    BY <1>1, <1>2, <1>3, SwitchedDacType

\* Only a console switch moves the DAC.
LEMMA KernelLeavesDac ==
  ASSUME TypeInv, KernelCursor \/ KernelAttributes \/ KernelFont
  PROVE  card'.dac = card.dac
  <1>1. CardOK(card)
    BY DEF TypeInv
  <1>2. CASE KernelCursor
    <2>1. PICK e : CardOK(e) /\ CursorMoved(e, card) /\ Burst("cursor", {"CRTC"}, e)
      BY <1>1, <1>2, CursorBurst
    <2> QED
      BY <2>1 DEF Burst, CursorMoved
  <1>3. CASE KernelAttributes
    <2> DEFINE e == [card EXCEPT !.flip = FALSE, !.ix["ATR"] = 48]
               f == [card EXCEPT !.flip = FALSE]
    <2>1. Burst("attributes", {"ATR"}, e) \/ Burst("attributes", {"ATR"}, f)
      BY <1>3, Zenon DEF KernelAttributes
    <2>2. e.dac = card.dac /\ f.dac = card.dac
      BY <1>1, AttributesCard
    <2> HIDE DEF e, f
    <2> QED
      BY <2>1, <2>2 DEF Burst
  <1>4. CASE KernelFont
    <2> DEFINE e == [card EXCEPT !.ix["SEQ"] = 0, !.ix["GR"] = 0]
    <2>1. Burst("font", {"SEQ", "GR"}, e)
      BY <1>4 DEF KernelFont
    <2>2. e.dac = card.dac
      BY <1>1, FontCard
    <2> HIDE DEF e
    <2> QED
      BY <2>1, <2>2 DEF Burst
  <1> QED
    BY <1>2, <1>3, <1>4

LEMMA KernelShows ==
  ASSUME TypeInv, KernelCursor \/ KernelAttributes \/ KernelFont \/ KernelSwitch, NEW i \in Text
  PROVE  card'.dac.col[i] \in {card.dac.col[i], DacColour(kpal[AnsiOrder(i)])}
  <1>1. CASE KernelCursor \/ KernelAttributes \/ KernelFont
    BY <1>1, KernelLeavesDac
  <1>2. CASE KernelSwitch
    <2>1. card' = Switched(card, kpal)
      BY <1>2 DEF KernelSwitch, Burst
    <2>2. CardOK(card) /\ kpal \in Palette
      BY DEF TypeInv
    <2> QED
      BY <2>1, <2>2, SwitchedColour
  <1> QED
    BY <1>1, <1>2

\* What an access, and what a kill, leave of the palettes.
LEMMA AccessPaints ==
  ASSUME TypeInv, StandInv, NEW p \in Programs, Paints(p), ended[p] = "run", PaletteHolds(p),
         Access(p), alone'[p]
  PROVE  PaletteHolds(p)'
  <1> DEFINE c == Current(p)
             n == Made(p)
             m == Len(job[p])
  <1>1. UsesPorts(p) /\ Running(p) /\ c \in GoodCall
    BY AccessSteps, CurrentIsGood DEF UsesPorts, TypeInv
  <1>2. /\ m \in Nat /\ n \in Nat /\ n + 1 \in 1..m /\ c = job[p][n + 1]
        /\ n = 0 => c = Call("GIO_CMAP")
        /\ n >= 1 /\ n + 1 < m => c.do \in {"rgb", "bad"}
        /\ n + 1 = m => c = Call("PIO_CMAP")
        /\ Len(Tail(calls[p])) = m - (n + 1)
        /\ calls[p] = job[p] => n = 0
    BY <1>1, PaintsNext
  <1>3. c.set # "none"
    BY <1>1 DEF UsesPorts
  <1> HIDE DEF c, n, m
  <1>4. n >= 1 /\ n + 1 < m /\ c.do \in {"rgb", "bad"}
    BY <1>2, <1>3, PaintsCalls
  <1>5. c.do = "rgb" /\ c.index \in 0..DacSize - 1 /\ c.rgb \in [1..3 -> Int]
    BY <1>1, <1>3, <1>4, GoodCallFacts, CallFacts
  <1>6. alone[p]
    <2>1. Acts(p, FALSE) \/ \E ends : Acts(p, ends)
      BY AccessSteps DEF GoOn
    <2>2. ~Starting(p)
      BY <1>2, <1>4 DEF Starting
    <2> QED
      BY <2>1, <2>2 DEF Acts
  <1>7. \A i \in Text : kpal = was[p] /\ mine[p][AnsiOrder(i)] = Wanted(p, i, n)
    <2>1. \A i \in Text : Painted(p, i)
      BY <1>4, <1>6 DEF PaletteHolds, n
    <2>2. calls[p] # <<>>
      BY <1>1 DEF Running
    <2> QED
      BY <2>1, <2>2 DEF Painted, n
  <1>8. UNCHANGED <<kpal, was, job>>
    BY AccessSteps DEF GoOn
  <1>9. mine' = IF Finishes(p) /\ c.index \in Text
                  THEN [mine EXCEPT ![p] = [mine[p] EXCEPT ![color_table[c.index + 1]] = KernelColour(c.rgb)]]
                  ELSE mine
    BY <1>5 DEF Access, Remembers, c
  <1>10. CASE Finishes(p)
    <2>1. calls'[p] = Tail(calls[p])
      <3>1. GoOn(p, Tail(calls[p]), "done")
        BY <1>10, AccessSteps
      <3>2. \A rest : GoOn(p, rest, "done") => calls'[p] = rest
        BY DEF GoOn, TypeInv
      <3> QED
        BY <3>1, <3>2
    <2>2. Made(p)' = n + 1 /\ calls'[p] # <<>>
      <3>1. Len(calls'[p]) = m - (n + 1)
        BY <1>2, <2>1
      <3>2. Len(job'[p]) = m
        BY <1>8 DEF m
      <3> QED
        BY <1>2, <1>4, <3>1, <3>2 DEF Made
    <2>3. ASSUME NEW i \in Text
          PROVE  mine'[p][AnsiOrder(i)] = Wanted(p, i, n + 1)
      <3>1. Wanted(p, i, n + 1) = IF c.index = i THEN KernelColour(c.rgb) ELSE Wanted(p, i, n)
        <4>1. n \in Nat /\ Len(job[p]) \in Nat /\ n + 1 \in 1..Len(job[p])
          BY <1>2 DEF m
        <4>2. Wanted(p, i, n + 1) = IF job[p][n + 1].do = "rgb" /\ job[p][n + 1].index = i
                                    THEN KernelColour(job[p][n + 1].rgb) ELSE Wanted(p, i, n)
          BY <4>1, LinesNext
        <4> QED
          BY <1>2, <1>5, <4>2
      <3>2. mine[p] \in Palette
        BY DEF TypeInv
      <3>3. CASE c.index \in Text
        <4>1. color_table[c.index + 1] = AnsiOrder(c.index)
          BY <3>3, AnsiTable
        <4>2. mine'[p] = [mine[p] EXCEPT ![AnsiOrder(c.index)] = KernelColour(c.rgb)]
          BY <1>9, <1>10, <3>3, <4>1 DEF TypeInv
        <4>3. AnsiOrder(c.index) \in Text /\ AnsiOrder(i) \in Text
          BY <3>3, AnsiIsText
        <4>4. AnsiOrder(c.index) = AnsiOrder(i) <=> c.index = i
          BY <3>3, AnsiInjective
        <4>5. mine'[p][AnsiOrder(i)] = IF c.index = i THEN KernelColour(c.rgb) ELSE mine[p][AnsiOrder(i)]
          BY <3>2, <4>2, <4>3, <4>4 DEF Palette
        <4> QED
          BY <1>7, <3>1, <4>5
      <3>4. CASE c.index \notin Text
        BY <1>7, <1>9, <3>1, <3>4
      <3> QED
        BY <3>3, <3>4
    <2>4. ASSUME NEW i \in Text
          PROVE  Painted(p, i)'
      <3>1. Wanted(p, i, Made(p))' = Wanted(p, i, n + 1)
        BY <1>8, <2>2 DEF Wanted, LinesTo, Lines
      <3> QED
        BY <1>7, <1>8, <2>2, <2>3, <3>1 DEF Painted
    <2> QED
      BY <2>4 DEF PaletteHolds
  <1>11. CASE ~Finishes(p)
    <2>1. calls' = calls /\ ended' = ended
      BY <1>11, AccessSteps
    <2>2. mine' = mine /\ calls[p] # <<>>
      BY <1>1, <1>9, <1>11 DEF Running
    <2>3. ASSUME NEW i \in Text
          PROVE  Painted(p, i)'
      <3>1. Painted(p, i)
        BY <1>4, <1>6 DEF PaletteHolds, n
      <3> QED
        BY <1>8, <2>1, <2>2, <3>1, PaintedKept
    <2> QED
      BY <2>3 DEF PaletteHolds
  <1> QED
    BY <1>10, <1>11

LEMMA CallPaints ==
  ASSUME TypeInv, StandInv, NEW p \in Programs, Paints(p), ended[p] = "run", PaletteHolds(p),
         Calls(p), ~Access(p), Running(p), alone'[p], ended'[p] \in {"run", "done"}
  PROVE  PaletteHolds(p)'
  <1> DEFINE c == Current(p)
             n == Made(p)
             m == Len(job[p])
  <1>1. /\ m \in Nat /\ m >= 2 /\ n \in Nat /\ n + 1 \in 1..m /\ c = job[p][n + 1]
        /\ job[p][1] = Call("GIO_CMAP")
        /\ n = 0 => c = Call("GIO_CMAP")
        /\ n >= 1 /\ n + 1 < m => c.do \in {"rgb", "bad"}
        /\ n + 1 = m => c = Call("PIO_CMAP")
        /\ Len(Tail(calls[p])) = m - (n + 1)
        /\ calls[p] = job[p] => n = 0
    BY PaintsNext
  <1>2. \A rest, how : GoOn(p, rest, how) =>
          /\ calls'[p] = rest /\ UNCHANGED job
          /\ how = "aborted" => ended'[p] = "aborted"
          /\ alone'[p] => Starting(p) \/ alone[p]
    BY DEF GoOn, Acts, TypeInv
  <1>3. ~Abort(p)
    BY <1>2, Zenon DEF Abort
  <1> HIDE DEF c, n, m
  <1>4. c.do \in {"GIO_CMAP", "PIO_CMAP", "rgb", "bad"}
    BY <1>1, PaintsCalls
  <1>5. ASSUME GoOn(p, Rest(p), "done"), job' = job
        PROVE  Made(p)' = n + 1 /\ (calls'[p] = <<>> <=> n + 1 = m)
    <2>1. calls'[p] = Tail(calls[p])
      BY <1>2, <1>5 DEF Rest
    <2>2. Tail(calls[p]) \in Seq(GoodCall)
      BY RestIsGood DEF Rest
    <2>3. Len(calls'[p]) = m - (n + 1) /\ Len(job'[p]) = m
      BY <1>1, <1>5, <2>1 DEF m
    <2>4. \A s \in Seq(GoodCall) : s = <<>> <=> Len(s) = 0
      OBVIOUS
    <2> QED
      <3>1. Made(p)' = m - (m - (n + 1))
        BY <2>3 DEF Made
      <3>2. calls'[p] = <<>> <=> m - (n + 1) = 0
        BY <2>1, <2>2, <2>3, <2>4
      <3> QED
        BY <1>1, <3>1, <3>2
  <1>6. CASE ReadKernelPalette(p)
    <2>1. /\ mine' = [mine EXCEPT ![p] = kpal] /\ was' = [was EXCEPT ![p] = kpal]
          /\ GoOn(p, Rest(p), "done") /\ kpal' = kpal /\ c.do = "GIO_CMAP"
      BY <1>3, <1>6, Zenon DEF ReadKernelPalette, Does, c
    <2>2. n = 0
      BY <1>1, <2>1, PaintsCalls
    <2>3. job' = job
      BY <1>2, <2>1
    <2>4. Made(p)' = 1 /\ calls'[p] # <<>>
      BY <1>1, <1>5, <2>1, <2>2, <2>3
    <2>5. mine'[p] = kpal /\ was'[p] = kpal
      BY <2>1 DEF TypeInv
    <2>6. ASSUME NEW i \in Text
          PROVE  Painted(p, i)'
      <3>1. LinesTo(p, i, 1)' = {}
        <4>1. job'[p][1].do # "rgb"
          BY <1>1, <2>3, PaintsCalls
        <4> QED
          BY <4>1 DEF LinesTo, Lines
      <3>2. Wanted(p, i, Made(p))' = was'[p][AnsiOrder(i)]
        BY <2>4, <3>1 DEF Wanted, LinesTo
      <3> QED
        BY <2>1, <2>4, <2>5, <3>2 DEF Painted
    <2> QED
      BY <2>6 DEF PaletteHolds
  <1>7. CASE TellKernel(p)
    <2>1. /\ kpal' = mine[p] /\ card' = Switched(card, kpal')
          /\ GoOn(p, Rest(p), "done") /\ UNCHANGED <<mine, was>> /\ c.do = "PIO_CMAP"
      BY <1>3, <1>7, Zenon DEF TellKernel, Does, c
    <2>2. n >= 1 /\ n + 1 = m
      BY <1>1, <2>1, PaintsCalls
    <2>3. job' = job /\ alone[p]
      BY <1>1, <1>2, <2>1, <2>2 DEF Starting
    <2>4. Made(p)' = n + 1 /\ calls'[p] = <<>>
      BY <1>5, <2>1, <2>2, <2>3
    <2>5. calls[p] # <<>>
      BY DEF Running
    <2>6. ASSUME NEW i \in Text
          PROVE  Painted(p, i)'
      <3>1. mine[p][AnsiOrder(i)] = Wanted(p, i, n)
        BY <2>2, <2>3, <2>5 DEF PaletteHolds, Painted, n
      <3>2. Wanted(p, i, n + 1) = Wanted(p, i, n)
        <4>1. n \in Nat /\ Len(job[p]) \in Nat /\ n + 1 \in 1..Len(job[p])
          BY <1>1 DEF m
        <4>2. job[p][n + 1].do # "rgb"
          BY <1>1, <2>1
        <4> QED
          BY <4>1, <4>2, LinesNext
      <3>3. Wanted(p, i, Made(p))' = Wanted(p, i, n + 1)
        BY <2>1, <2>3, <2>4 DEF Wanted, LinesTo, Lines
      <3>4. card'.dac.col[i] = DacColour(kpal'[AnsiOrder(i)])
        <4>1. CardOK(card) /\ kpal' \in Palette
          BY <2>1 DEF TypeInv
        <4> QED
          BY <2>1, <4>1, SwitchedColour
      <3> QED
        BY <2>1, <2>4, <3>1, <3>2, <3>3, <3>4 DEF Painted
    <2> QED
      BY <2>6 DEF PaletteHolds
  <1>8. ~(BadLine(p) \/ FontProg(p) \/ NextLine(p) \/ Exit(p))
    <2>1. ~BadLine(p)
      BY <1>3 DEF BadLine
    <2>2. FontProg(p) \/ NextLine(p) \/ Exit(p) => c.do \in {"fontprog", "lines", "exit"}
      BY Zenon DEF FontProg, NextLine, Exit, Does, c
    <2> QED
      BY <1>4, <2>1, <2>2
  <1> QED
    BY <1>6, <1>7, <1>8 DEF Calls

LEMMA InitPaints == TypeInv /\ Init => PaletteInv
  BY DEF Init, PaletteInv, PaletteHolds

LEMMA PaletteKept ==
  ASSUME NEW p, PaletteHolds(p), job'[p] = job[p], was'[p] = was[p], calls'[p] = calls[p],
         mine'[p] = mine[p], kpal' = kpal, ended'[p] = ended[p], alone'[p] = alone[p],
         \A i \in Text : card'.dac.col[i] \in {card.dac.col[i], DacColour(kpal[AnsiOrder(i)])}
  PROVE  PaletteHolds(p)'
  <1>1. Made(p)' = Made(p) /\ (Paints(p)' <=> Paints(p))
    BY DEF Made, Paints
  <1>2. ASSUME NEW i \in Text, Painted(p, i) PROVE Painted(p, i)'
    BY <1>2, PaintedKept
  <1> QED
    BY <1>1, <1>2 DEF PaletteHolds

LEMMA StepPaints == TypeInv /\ StandInv /\ PaletteInv /\ [Next]_vars => PaletteInv'
  <1> SUFFICES ASSUME TypeInv, StandInv, PaletteInv, [Next]_vars, NEW q \in Programs
               PROVE  PaletteHolds(q)'
    BY DEF PaletteInv
  <1>1. PaletteHolds(q) /\ Stands(q)
    BY DEF PaletteInv, StandInv
  <1>2. ASSUME NEW p \in Programs, Calls(p)
        PROVE  PaletteHolds(q)'
    <2>1. \E ends : Acts(p, ends)
      <3>1. CASE Access(p)
        BY <3>1, AccessSteps, Zenon DEF GoOn
      <3>2. CASE ~Access(p)
        BY <1>2, <3>2, CallsGoOn, Zenon DEF GoOn, StandInv
      <3> QED
        BY <3>1, <3>2
    <2>2. CASE q # p
      <3>1. ~alone'[q]
        BY <2>1, <2>2 DEF Acts
      <3> QED
        BY <3>1 DEF PaletteHolds
    <2>3. CASE q = p
      <3> SUFFICES ASSUME Paints(p), alone'[p], ended'[p] \in {"run", "done"}
                   PROVE  PaletteHolds(p)'
        BY <2>3, JobsStay DEF PaletteHolds, Paints
      <3>1. Running(p)
        BY <1>1, <1>2, <2>3, AccessSteps, CallsGoOn DEF UsesPorts
      <3>2. ended[p] = "run"
        <4>1. ended[p] \in {"run", "aborted"}
          BY <1>1, <2>3, <3>1 DEF Stands, Running, TypeInv
        <4>2. \A rest, how : GoOn(p, rest, how) /\ ended[p] = "aborted" => ended'[p] = "aborted"
          BY DEF GoOn, TypeInv
        <4>3. CASE Access(p)
          BY <4>1, <4>2, <4>3, AccessSteps
        <4>4. CASE ~Access(p)
          BY <1>1, <1>2, <2>3, <4>1, <4>2, <4>4, CallsGoOn
        <4> QED
          BY <4>3, <4>4
      <3> QED
        BY <1>1, <1>2, <2>3, <3>1, <3>2, AccessPaints, CallPaints
    <2> QED
      BY <2>2, <2>3
  <1>3. ASSUME NEW p \in Programs, Kill(p)
        PROVE  PaletteHolds(q)'
    <2>1. /\ UNCHANGED <<card, kpal, job, mine, was, alone>>
          /\ calls' = [calls EXCEPT ![p] = <<>>] /\ ended' = [ended EXCEPT ![p] = "killed"]
      BY <1>3 DEF Kill, history
    <2>2. CASE q = p
      BY <2>1, <2>2 DEF PaletteHolds, TypeInv
    <2>3. CASE q # p
      <3>1. calls'[q] = calls[q] /\ ended'[q] = ended[q]
        BY <2>1, <2>3 DEF TypeInv
      <3> QED
        BY <1>1, <2>1, <3>1, PaletteKept
    <2> QED
      BY <2>2, <2>3
  <1>4. ASSUME KernelCursor \/ KernelAttributes \/ KernelFont \/ KernelSwitch
        PROVE  PaletteHolds(q)'
    <2>1. PICK use, sets, c : Burst(use, sets, c)
      BY <1>4, Zenon DEF KernelCursor, KernelAttributes, KernelFont, KernelSwitch
    <2>2. UNCHANGED <<kpal, job, calls, mine, ended, was, alone>>
      BY <2>1 DEF Burst, local
    <2> QED
      BY <1>1, <1>4, <2>2, KernelShows, PaletteKept
  <1>5. ASSUME UNCHANGED vars
        PROVE  PaletteHolds(q)'
    <2>1. UNCHANGED <<card, kpal, job, calls, mine, ended, was, alone>>
      BY <1>5 DEF vars, local, history
    <2> QED
      BY <1>1, <2>1, PaletteKept
  <1> QED
    BY <1>2, <1>3, <1>4, <1>5 DEF Next
-----------------------------------------------------------------------------
(* The pipe from getpalette to setpalette.                                 *)

\* p is the setpalette that reads the pipe, q the getpalette that writes it.
Pair(p, q) == /\ p # q /\ job[p] = SetPalettePipe /\ job[q] = GetPaletteAll
              /\ \A r \in Programs \ {p, q} : job[r] = <<>>

\* Line l is about DAC entry i, and tells what a palette shows for it.
Shown(pal, i) == DacColour(pal[AnsiOrder(i)])
Tells(l, i, pal) == l[1] = i /\ (i \in Text => l[2] = Shown(pal, i))
AllTell(lines, i, pal) == \A k \in 1..Len(lines) : Tells(lines[k], i + k - 1, pal)

\* Before setpalette has asked the kernel: getpalette's lines are those of the
\* entries it has read, the DAC shows the kernel's palette, and of the entry
\* being read the bytes so far are known.
Reading(q) ==
  LET read == Made(q) IN
  /\ \A i \in Text : card.dac.col[i] = Shown(kpal, i)
  /\ AllTell(pipe, 0, kpal)
  /\ AllTell(buf, Len(pipe), kpal)
  /\ read <= DacSize => Len(pipe) + Len(buf) = read
  /\ read > DacSize => Len(pipe) = DacSize /\ Len(buf) = 0
  /\ UsesPorts(q) /\ pc[q] > 1 =>
       /\ card.dac.at = read /\ card.dac.n = pc[q] - 2
       /\ \A k \in 1..Len(got[q]) : got[q][k] = card.dac.col[read][k]

\* Then, and nobody else coming in: while getpalette still has calls to make
\* setpalette waits for lines; when it has none the lines not taken are the
\* last, and setpalette's copy has the colours of those before.
ToTake(cs) ==
  LET left == Len(cs) IN
  /\ left \in 0..3
  /\ left = 3 => cs[1].do = "rgb" /\ cs[2] = Call("lines") /\ cs[3] = Call("PIO_CMAP")
  /\ left = 2 => cs[1] = Call("lines") /\ cs[2] = Call("PIO_CMAP")
  /\ left = 1 => cs[1] = Call("PIO_CMAP")
Copied(p, n) == \A i \in Text : i < n => mine[p][AnsiOrder(i)] = KernelColour(Shown(was[p], i))
Taken(p) ==
  LET left == Len(calls[p])
      next == DacSize - Len(pipe)
      c    == calls[p][1]
  IN  /\ Len(pipe) <= DacSize /\ AllTell(pipe, next, was[p])
      /\ left = 3 => next >= 1 /\ Tells(<<c.index, c.rgb>>, next - 1, was[p]) /\ Copied(p, next - 1)
      /\ left \in {1, 2} => Copied(p, next)
      /\ left <= 1 => Len(pipe) = 0
      /\ left = 0 => \A i \in Text : /\ kpal[AnsiOrder(i)] = KernelColour(Shown(was[p], i))
                                     /\ card.dac.col[i] = DacColour(kpal[AnsiOrder(i)])
Taking(p, q) ==
  /\ ToTake(calls[p])
  /\ Len(calls[p]) > 0 => kpal = was[p]
  /\ calls[q] # <<>> => Len(calls[p]) >= 2
  /\ calls[q] = <<>> => Taken(p)

NeverAsks(cs) == \A k \in 1..Len(cs) : cs[k].do # "GIO_CMAP"
NoSwitch == bursts = 0 \/ "switch" \notin KernelUses
PipeHolds(p, q) ==
  /\ NoSwitch /\ kills = 0 /\ ended[q] \in {"run", "done"}
  /\ \A r \in Programs \ {p, q} : calls[r] = <<>>
  /\ calls[p] = job[p] \/ NeverAsks(calls[p])
  /\ calls[p] = job[p] => Reading(q)
  /\ calls[p] # job[p] /\ alone[p] /\ ended[p] \in {"run", "done"} => Taking(p, q)
PipeInv == \A p \in Programs : \A q \in Programs : Pair(p, q) => PipeHolds(p, q)

\* The two jobs, call by call.
LEMMA PipeCalls ==
  /\ SetPalettePipe[1] = Call("GIO_CMAP") /\ SetPalettePipe[2] = Call("lines")
  /\ SetPalettePipe[3] = Call("PIO_CMAP") /\ Len(SetPalettePipe) = 3
  BY DEF SetPalettePipe

LEMMA ReadCalls ==
  /\ Len(GetPaletteAll) = DacSize + 1
  /\ \A k \in 1..DacSize : GetPaletteAll[k] = Dump(k - 1)
  /\ GetPaletteAll[DacSize + 1] = Call("exit")
  <1> DEFINE S == {Dump(i) : i \in Int} \cup {Call("exit")}
             s == [k \in 1..DacSize |-> Dump(k - 1)]
             t == <<Call("exit")>>
             u == s \o t
  <1>1. s \in Seq(S) /\ Len(s) = DacSize
    BY DacIsLarge
  <1>2. t \in Seq(S) /\ Len(t) = 1 /\ t[1] = Call("exit")
    OBVIOUS
  <1>3. GetPaletteAll = u
    BY DEF GetPaletteAll
  <1>4. \A k \in 1..DacSize : s[k] = Dump(k - 1)
    OBVIOUS
  <1>5. Joins(u, s, t)
    <2> HIDE DEF S, s, t
    <2> QED
      BY <1>1, <1>2, JoinedEnd
  <1> HIDE DEF S, s, t, u
  <1> QED
    BY <1>1, <1>2, <1>3, <1>4, <1>5, DacIsLarge DEF Joins

\* The kinds of the calls a pair makes.
LEMMA PairKinds ==
  /\ Call("GIO_CMAP").do = "GIO_CMAP" /\ Call("PIO_CMAP").do = "PIO_CMAP"
  /\ Call("lines").do = "lines" /\ Call("exit").do = "exit"
  /\ \A i : Dump(i).do = "dump" /\ Dump(i).set = "DAC" /\ Dump(i).index = i
  /\ \A i, rgb : Colour(i, rgb).do = "rgb" /\ Colour(i, rgb).index = i /\ Colour(i, rgb).rgb = rgb
  /\ Call("exit").set = "none" /\ Call("GIO_CMAP").set = "none"
  /\ Call("PIO_CMAP").set = "none" /\ Call("lines").set = "none"
  /\ SCREEN_ON.do = "modify"
  BY DEF Call, Dump, Colour, SCREEN_ON, Outbit, Modify

\* What getpalette does next.
LEMMA ReadingNext ==
  ASSUME TypeInv, StandInv, NEW p \in Programs, NEW q \in Programs, Pair(p, q),
         ended[q] \in {"run", "done"}, Running(q)
  PROVE  LET n == Made(q) IN
         /\ n \in 0..DacSize
         /\ n < DacSize => Current(q) = Dump(n)
         /\ n = DacSize => Current(q) = Call("exit")
         /\ Len(Tail(calls[q])) = DacSize - n /\ Len(job[q]) = DacSize + 1
         /\ Tail(calls[q]) # <<>> <=> n < DacSize
  <1>1. Call("lines") \notin ToSet(job[q])
    <2>1. Len(job[q]) = DacSize + 1 /\ \A k \in 1..Len(job[q]) : job[q][k] # Call("lines")
      <3>1. job[q] = GetPaletteAll
        BY DEF Pair
      <3>2. \A k \in 1..DacSize + 1 : k \in 1..DacSize \/ k = DacSize + 1
        BY DacIsLarge
      <3> QED
        BY <3>1, <3>2, ReadCalls, PairKinds
    <2>2. \A e \in ToSet(job[q]) : \E k \in 1..Len(job[q]) : e = job[q][k]
      BY DEF ToSet, TypeInv
    <2> QED
      BY <2>1, <2>2
  <1>2. Left(q) /\ calls[q] \in Seq(GoodCall) /\ job[q] \in Seq(GoodCall)
    BY <1>1 DEF StandInv, Stands, TypeInv
  <1> DEFINE n == Made(q)
  <1>3. /\ n \in Nat /\ n + 1 \in 1..Len(job[q]) /\ Current(q) = job[q][n + 1]
        /\ Len(Tail(calls[q])) = Len(calls[q]) - 1 /\ Len(calls[q]) >= 1
    BY <1>2, CurrentInJob DEF Made
  <1>4. job[q] = GetPaletteAll /\ Len(job[q]) = DacSize + 1
    BY ReadCalls DEF Pair
  <1>5. Len(Tail(calls[q])) = DacSize - n
    <2>1. Len(calls[q]) = DacSize + 1 - n
      BY <1>2, <1>4, DacIsLarge DEF Made
    <2> HIDE DEF n
    <2> QED
      BY <1>3, <2>1, DacIsLarge
  <1> HIDE DEF n
  <1>6. /\ n < DacSize => Current(q) = Dump(n)
        /\ n = DacSize => Current(q) = Call("exit")
    <2>1. n < DacSize => n + 1 \in 1..DacSize /\ (n + 1) - 1 = n
      BY <1>3, DacIsLarge
    <2> QED
      BY <1>3, <1>4, <2>1, ReadCalls
  <1>7. Tail(calls[q]) \in Seq(GoodCall)
    BY RestIsGood DEF Rest
  <1>8. \A s \in Seq(GoodCall) : s # <<>> <=> Len(s) # 0
    OBVIOUS
  <1>9. n \in 0..DacSize
    BY <1>3, <1>4, DacIsLarge
  <1>10. Tail(calls[q]) # <<>> <=> n < DacSize
    <2> DEFINE t == Tail(calls[q])
    <2>1. t # <<>> <=> Len(t) # 0
      BY <1>7, <1>8
    <2>2. Len(t) = DacSize - n
      BY <1>5
    <2>3. t # <<>> <=> n < DacSize
      <3> HIDE DEF t
      <3> QED
        BY <1>9, <2>1, <2>2, DacIsLarge
    <2> QED
      BY <2>3
  <1> QED
    BY <1>4, <1>5, <1>6, <1>9, <1>10 DEF n

\* What a step of a dump reads, and where it leaves the DAC.
LEMMA DumpSteps ==
  ASSUME TypeInv, NEW q \in Programs, Access(q), Current(q).do = "dump"
  PROVE  LET k == pc[q]
             e == card.dac
             f == card'.dac
             r == Reads(card, Code(q)[pc[q]])
         IN  /\ k \in 1..4 /\ (Finishes(q) <=> k = 4)
             /\ f.col = e.col
             /\ k = 1 => f.at = Current(q).index /\ f.n = 0 /\ r = <<>>
             /\ k > 1 => r = <<e.col[e.at][e.n + 1]>>
             /\ k > 1 /\ e.n < 2 => f.at = e.at /\ f.n = e.n + 1
  <1> DEFINE k == pc[q]
             c == Current(q)
             a == Code(q)[k]
  <1>1. CardOK(card) /\ Fits(q) /\ UsesPorts(q) /\ card' = Effect(card, a)
    BY AccessSteps DEF TypeInv
  <1>2. c.set = "DAC" /\ c.index \in 0..DacSize - 1
    BY <1>1, CurrentIsGood, GoodCallFacts DEF UsesPorts
  <1>3. /\ k \in 1..4 /\ (Finishes(q) <=> k = 4)
        /\ k = 1 => a = DacIndex(c.index)
        /\ k > 1 => a = InDac
    BY <1>1, <1>2, DacAccess
  <1>4. card.dac \in DacType
    BY <1>1 DEF CardOK
  <1> HIDE DEF k, c, a
  <1>5. CASE k = 1
    <2> DEFINE d == [card.dac EXCEPT !.at = c.index, !.n = 0, !.got = NoColour]
    <2>1. IsCard(Effect(card, DacIndex(c.index)), card.ix, card.reg, d)
      BY <1>1, DacEffect
    <2>2. d.at = c.index /\ d.n = 0 /\ d.col = card.dac.col
      BY <1>2, <1>4, DacIndexed
    <2> HIDE DEF d
    <2>3. card'.dac = d
      BY <1>1, <1>3, <1>5, <2>1 DEF IsCard
    <2>4. Reads(card, a) = <<>>
      BY <1>3, <1>5 DEF Reads, DacIndex
    <2> QED
      BY <1>3, <1>5, <2>2, <2>3, <2>4 DEF k, c, a
  <1>6. CASE k > 1
    <2>1. card'.dac = DacStep(card.dac)
      BY <1>1, <1>3, <1>6, DacEffect DEF IsCard
    <2>2. card'.dac.col = card.dac.col
      BY <1>4, <2>1, DacSteps
    <2>3. card.dac.n < 2 => card'.dac.at = card.dac.at /\ card'.dac.n = card.dac.n + 1
      BY <1>4, <2>1 DEF DacStep, DacType
    <2>4. Reads(card, a) = <<card.dac.col[card.dac.at][card.dac.n + 1]>>
      BY <1>3, <1>6 DEF Reads, InDac
    <2> QED
      BY <1>3, <1>6, <2>2, <2>3, <2>4 DEF k, c, a
  <1> QED
    BY <1>3, <1>5, <1>6

\* Lines put one after the other.
LEMMA TellJoined ==
  ASSUME NEW s \in Seq(Line), NEW t \in Seq(Line), NEW i \in Nat, NEW pal,
         AllTell(s, i, pal), AllTell(t, i + Len(s), pal)
  PROVE  s \o t \in Seq(Line) /\ Len(s \o t) = Len(s) + Len(t) /\ AllTell(s \o t, i, pal)
  <1> DEFINE u == s \o t
             m == Len(s)
             n == Len(t)
  <1>1. u \in Seq(Line) /\ Joins(u, s, t)
    BY JoinedEnd
  <1>2. m \in Nat /\ n \in Nat /\ Len(u) = m + n
    BY <1>1 DEF Joins
  <1>3. ASSUME NEW k \in 1..m + n
        PROVE  Tells(u[k], i + k - 1, pal)
    <2>1. CASE k <= m
      <3>1. k \in 1..m /\ u[k] = s[k]
        BY <1>1, <1>2, <1>3, <2>1 DEF Joins
      <3> QED
        BY <3>1 DEF AllTell
    <2>2. CASE ~(k <= m)
      <3> DEFINE j == k - m
      <3>1. j \in 1..n /\ m + j = k /\ (i + m) + j - 1 = i + k - 1
        <4> HIDE DEF m, n
        <4> QED
          BY <1>2, <1>3, <2>2
      <3>2. u[m + j] = t[j]
        BY <1>1, <3>1 DEF Joins
      <3>3. Tells(t[j], (i + m) + j - 1, pal)
        BY <3>1 DEF AllTell
      <3> HIDE DEF j, u, m, n
      <3> QED
        BY <3>1, <3>2, <3>3
    <2> QED
      BY <2>1, <2>2
  <1> QED
    BY <1>1, <1>2, <1>3 DEF AllTell

LEMMA TellOne ==
  ASSUME NEW l \in Line, NEW i \in Nat, NEW pal, Tells(l, i, pal)
  PROVE  <<l>> \in Seq(Line) /\ Len(<<l>>) = 1 /\ AllTell(<<l>>, i, pal)
  BY DEF AllTell

LEMMA TellTail ==
  ASSUME NEW s \in Seq(Line), s # <<>>, NEW i \in Nat, NEW pal, AllTell(s, i, pal)
  PROVE  /\ Head(s) \in Line /\ Tells(Head(s), i, pal)
         /\ Tail(s) \in Seq(Line) /\ Len(Tail(s)) = Len(s) - 1 /\ AllTell(Tail(s), i + 1, pal)
  <1>1. /\ Head(s) = s[1] /\ s[1] \in Line /\ Len(s) \in Nat /\ Len(s) >= 1
        /\ Tail(s) \in Seq(Line) /\ Len(Tail(s)) = Len(s) - 1
        /\ \A k \in 1..Len(Tail(s)) : Tail(s)[k] = s[k + 1]
    OBVIOUS
  <1>2. Tells(s[1], i + 1 - 1, pal)
    BY <1>1 DEF AllTell
  <1>3. ASSUME NEW k \in 1..Len(Tail(s))
        PROVE  Tells(Tail(s)[k], (i + 1) + k - 1, pal)
    <2>1. k + 1 \in 1..Len(s) /\ i + (k + 1) - 1 = (i + 1) + k - 1 /\ Tail(s)[k] = s[k + 1]
      BY <1>1
    <2>2. Tells(s[k + 1], i + (k + 1) - 1, pal)
      BY <2>1 DEF AllTell
    <2> QED
      BY <2>1, <2>2
  <1>4. i + 1 - 1 = i
    OBVIOUS
  <1> QED
    BY <1>1, <1>2, <1>3, <1>4 DEF AllTell

\* getpalette's steps are its dumps and its exit.
LEMMA ReaderSteps ==
  ASSUME TypeInv, StandInv, NEW p \in Programs, NEW q \in Programs, Pair(p, q),
         ended[q] \in {"run", "done"}, Calls(q)
  PROVE  /\ Running(q) /\ ended'[q] \in {"run", "done"}
         /\ \/ Access(q) /\ Current(q) = Dump(Made(q)) /\ Made(q) \in 0..DacSize - 1
            \/ Exit(q) /\ Made(q) = DacSize
  <1>1. Running(q)
    BY AccessSteps, CallsGoOn DEF StandInv, UsesPorts
  <1>2. /\ Made(q) \in 0..DacSize
        /\ Made(q) < DacSize => Current(q) = Dump(Made(q))
        /\ Made(q) = DacSize => Current(q) = Call("exit")
    BY <1>1, ReadingNext
  <1>3. \/ Made(q) \in 0..DacSize - 1 /\ Current(q) = Dump(Made(q))
        \/ Made(q) = DacSize /\ Current(q) = Call("exit")
    BY <1>2, DacIsLarge
  <1>4. Access(q) \/ Exit(q)
    <2>1. Current(q).do \in {"dump", "exit"}
      BY <1>3, PairKinds
    <2>2. BadLine(q) \/ ReadKernelPalette(q) \/ TellKernel(q) \/ FontProg(q) \/ NextLine(q) =>
            Current(q).do \in {"bad", "GIO_CMAP", "PIO_CMAP", "fontprog", "lines"}
      BY Zenon DEF BadLine, ReadKernelPalette, TellKernel, FontProg, NextLine, Does
    <2> QED
      BY <2>1, <2>2 DEF Calls
  <1>5. Access(q) => Current(q).set # "none"
    BY AccessSteps DEF UsesPorts
  <1>6. Exit(q) => Current(q).do = "exit" /\ GoOn(q, Rest(q), "done")
    BY Zenon DEF Exit, Does
  <1>7. \/ Access(q) /\ Current(q) = Dump(Made(q)) /\ Made(q) \in 0..DacSize - 1
        \/ Exit(q) /\ Made(q) = DacSize
    BY <1>3, <1>4, <1>5, <1>6, PairKinds
  <1>8. ended'[q] \in {"run", "done"}
    <2>1. \A rest : GoOn(q, rest, "done") => ended'[q] \in {"run", "done"}
      BY DEF GoOn, TypeInv
    <2>2. Access(q) => (\E rest : GoOn(q, rest, "done")) \/ ended' = ended
      BY AccessSteps
    <2> QED
      BY <1>4, <1>6, <2>1, <2>2
  <1> QED
    BY <1>1, <1>7, <1>8

\* An access that does not end its dump.
LEMMA ReadingByte ==
  ASSUME TypeInv, TypeInv', NEW q \in Programs, Access(q), ~Finishes(q), Reading(q),
         Current(q) = Dump(Made(q)), Made(q) \in 0..DacSize - 1
  PROVE  Reading(q)'
  <1> DEFINE n == Made(q)
             k == pc[q]
             r == Reads(card, Code(q)[pc[q]])
             d == card.dac
             e == card'.dac
  <1>1. Current(q).do = "dump" /\ Current(q).index = n
    BY PairKinds
  <1>2. /\ k \in 1..4 /\ (Finishes(q) <=> k = 4)
        /\ e.col = d.col
        /\ k = 1 => e.at = n /\ e.n = 0 /\ r = <<>>
        /\ k > 1 => r = <<d.col[d.at][d.n + 1]>>
        /\ k > 1 /\ d.n < 2 => e.at = d.at /\ e.n = d.n + 1
    BY <1>1, DumpSteps
  <1>3. /\ pc'[q] = k + 1 /\ got'[q] = got[q] \o r
        /\ UNCHANGED <<job, calls, kpal>>
    <2>1. pc' = [pc EXCEPT ![q] = k + 1] /\ got' = [got EXCEPT ![q] = got[q] \o r]
      BY AccessSteps
    <2>2. UNCHANGED <<job, calls, kpal>>
      BY AccessSteps
    <2>3. DOMAIN pc = Programs /\ DOMAIN got = Programs
      BY DEF TypeInv
    <2> HIDE DEF k, r
    <2> QED
      BY <2>1, <2>2, <2>3
  <1>4. pipe' = pipe /\ buf' = buf
    BY DEF Access
  <1>5. UsesPorts(q) /\ UsesPorts(q)'
    BY <1>3, AccessSteps DEF UsesPorts, Running, Current
  <1>6. k > 1 => d.at = n /\ d.n = k - 2 /\ \A j \in 1..Len(got[q]) : got[q][j] = d.col[n][j]
    BY <1>5 DEF Reading
  <1>7. /\ got[q] \in Seq(Byte) /\ (k = 1 => got[q] = <<>>) /\ (k > 1 => Len(got[q]) = k - 2)
    BY <1>1, <1>5 DEF TypeInv, Fits
  <1>8. Made(q)' = n
    BY <1>3 DEF Made
  <1> HIDE DEF n, k, r, d, e
  <1>9. e.at = n /\ e.n = k - 1 /\ k \in 1..3
    BY <1>2, <1>6
  <1>10. \A j \in 1..Len(got'[q]) : got'[q][j] = e.col[n][j]
    <2>1. CASE k = 1
      <3>1. got'[q] = <<>>
        BY <1>2, <1>3, <1>7, <2>1
      <3> QED
        BY <3>1
    <2>2. CASE k > 1
      <3> DEFINE b == d.col[n][k - 1]
      <3>1. r = <<b>>
        BY <1>2, <1>6, <1>9, <2>2
      <3> HIDE DEF b
      <3>2. b \in Byte
        <4>1. n \in 0..DacSize - 1 /\ k - 1 \in 1..3 /\ d \in DacType
          BY <1>9, <2>2 DEF n, d, TypeInv, CardOK
        <4>2. d.col[n] \in Colours
          BY <4>1 DEF DacType
        <4> QED
          BY <4>1, <4>2 DEF b, Colours, Byte
      <3> DEFINE s == got[q]
                 t == <<b>>
      <3>3. s \in Seq(Byte) /\ t \in Seq(Byte) /\ Len(t) = 1 /\ t[1] = b /\ Len(s) = k - 2
        BY <1>7, <2>2, <3>2
      <3>4. \A j \in 1..Len(s) : s[j] = d.col[n][j]
        BY <1>6, <2>2
      <3>5. got'[q] = s \o t
        BY <1>3, <3>1
      <3> HIDE DEF s, t
      <3>6. Joins(s \o t, s, t)
        BY <3>3, JoinedEnd
      <3>7. ASSUME NEW j \in 1..Len(s \o t)
            PROVE  (s \o t)[j] = d.col[n][j]
        <4>1. Len(s \o t) = k - 1
          BY <1>9, <3>3, <3>6 DEF Joins
        <4>2. CASE j \in 1..Len(s)
          BY <3>4, <3>6, <4>2 DEF Joins
        <4>3. CASE j = k - 1
          <5>1. (s \o t)[Len(s) + 1] = t[1]
            BY <3>3, <3>6 DEF Joins
          <5> QED
            BY <1>9, <3>3, <4>3, <5>1 DEF b
        <4> QED
          BY <1>9, <3>3, <4>1, <4>2, <4>3
      <3> QED
        BY <1>2, <3>5, <3>7
    <2> QED
      BY <1>9, <2>1, <2>2
  <1>11. UsesPorts(q)' /\ pc'[q] > 1 =>
           /\ card'.dac.at = n /\ card'.dac.n = pc'[q] - 2
           /\ \A j \in 1..Len(got'[q]) : got'[q][j] = card'.dac.col[n][j]
    BY <1>3, <1>9, <1>10 DEF e
  <1>12. card'.dac.col = card.dac.col
    BY <1>2 DEF d, e
  <1> QED
    BY <1>3, <1>4, <1>8, <1>11, <1>12 DEF Reading, n

\* The last access of a dump: its line is about the entry just read.
LEMMA ReadingLine ==
  ASSUME TypeInv, NEW q \in Programs, Access(q), Finishes(q), Reading(q),
         Current(q) = Dump(Made(q)), Made(q) \in 0..DacSize - 1
  PROVE  LET n == Made(q)
             line == <<n, got[q] \o Reads(card, Code(q)[pc[q]])>>
         IN  line \in Line /\ Tells(line, n, kpal) /\ card'.dac.col = card.dac.col
  <1> DEFINE n == Made(q)
             k == pc[q]
             r == Reads(card, Code(q)[pc[q]])
             d == card.dac
             s == got[q]
             u == s \o r
  <1>1. Current(q).do = "dump" /\ Current(q).index = n
    BY PairKinds
  <1>2. k = 4 /\ card'.dac.col = d.col /\ r = <<d.col[d.at][d.n + 1]>>
    BY <1>1, DumpSteps
  <1>3. UsesPorts(q)
    BY AccessSteps
  <1>4. d.at = n /\ d.n = 2 /\ \A j \in 1..Len(s) : s[j] = d.col[n][j]
    BY <1>2, <1>3 DEF Reading
  <1>5. s \in Seq(Byte) /\ Len(s) = 2
    <2>1. Fits(q)
      BY DEF TypeInv
    <2>2. s \in Seq(Byte) /\ (k > 1 => Len(s) = k - 2)
      BY <1>1, <1>3, <2>1 DEF Fits
    <2> HIDE DEF s, k
    <2> QED
      BY <1>2, <2>2
  <1>6. n \in 0..DacSize - 1 /\ d \in DacType
    BY DEF TypeInv, CardOK
  <1>7. \A i \in Text : d.col[i] = Shown(kpal, i)
    BY DEF Reading
  <1> HIDE DEF n, k, r, d
  <1>8. d.col[n] \in Colours
    BY <1>6 DEF DacType
  <1> DEFINE x == d.col[n]
             b == x[3]
             t == <<b>>
  <1>9. r = t
    BY <1>2, <1>4
  <1>10. b \in Byte
    BY <1>8 DEF Colours, Byte
  <1>11. t \in Seq(Byte) /\ Len(t) = 1 /\ t[1] = b
    BY <1>10
  <1>12. s[1] = x[1] /\ s[2] = x[2]
    BY <1>4, <1>5
  <1> HIDE DEF s, t, b, x
  <1>13. (s \o t) \in Seq(Byte) /\ Joins(s \o t, s, t)
    BY <1>5, <1>11, JoinedEnd
  <1> DEFINE v == s \o t
  <1>14. v \in Seq(Byte) /\ Len(v) = 3 /\ v[1] = x[1] /\ v[2] = x[2] /\ v[3] = x[3]
    BY <1>5, <1>11, <1>12, <1>13 DEF Joins, b
  <1>15. u = v
    BY <1>9
  <1> HIDE DEF v
  <1>16. v \in [1..3 -> Byte]
    <2>1. v \in [1..Len(v) -> Byte]
      BY <1>14, LenProperties
    <2> QED
      BY <1>14, <2>1
  <1>17. x \in [1..3 -> 0..63]
    BY <1>8 DEF x, Colours
  <1>18. v = x
    <2>1. \A j \in 1..3 : j = 1 \/ j = 2 \/ j = 3
      OBVIOUS
    <2>2. \A j \in 1..3 : v[j] = x[j]
      BY <1>14, <2>1
    <2> QED
      BY <1>16, <1>17, <2>2
  <1>19. <<n, u>> \in Line
    BY <1>6, <1>15, <1>16 DEF Line
  <1>20. Tells(<<n, u>>, n, kpal)
    <2>1. n \in Text => x = Shown(kpal, n)
      BY <1>7 DEF x
    <2> QED
      BY <1>15, <1>18, <2>1 DEF Tells
  <1> QED
    BY <1>2, <1>19, <1>20 DEF n, r, s, d

LEMMA ReadingEntry ==
  ASSUME TypeInv, StandInv, NEW p \in Programs, NEW q \in Programs, Pair(p, q),
         ended[q] \in {"run", "done"}, Access(q), Finishes(q), Reading(q),
         Current(q) = Dump(Made(q)), Made(q) \in 0..DacSize - 1
  PROVE  Reading(q)'
  <1> DEFINE n == Made(q)
             line == <<n, got[q] \o Reads(card, Code(q)[pc[q]])>>
  <1>1. line \in Line /\ Tells(line, n, kpal) /\ card'.dac.col = card.dac.col
    BY ReadingLine
  <1>2. /\ pipe \in Seq(Line) /\ buf \in Seq(Line)
        /\ AllTell(pipe, 0, kpal) /\ AllTell(buf, Len(pipe), kpal)
        /\ Len(pipe) + Len(buf) = n /\ n \in 0..DacSize - 1
    BY DacIsLarge DEF TypeInv, Reading
  <1>3. kpal' = kpal /\ job' = job /\ calls'[q] = Tail(calls[q]) /\ pc'[q] = 1
    <2>1. GoOn(q, Tail(calls[q]), "done") /\ kpal' = kpal
      BY AccessSteps
    <2>2. \A rest : GoOn(q, rest, "done") => job' = job /\ calls'[q] = rest /\ pc'[q] = 1
      BY DEF GoOn, TypeInv
    <2> QED
      BY <2>1, <2>2
  <1>4. Made(q)' = n + 1
    <2>1. Running(q)
      BY AccessSteps DEF UsesPorts
    <2>2. Len(Tail(calls[q])) = DacSize - n /\ Len(job[q]) = DacSize + 1
      BY <2>1, ReadingNext
    <2>3. Made(q)' = Len(job[q]) - Len(Tail(calls[q]))
      BY <1>3 DEF Made
    <2> DEFINE t == Len(Tail(calls[q]))
               m == Len(job[q])
    <2>4. Made(q)' = m - t /\ t = DacSize - n /\ m = DacSize + 1
      BY <2>2, <2>3
    <2> HIDE DEF n, t, m
    <2> QED
      BY <1>2, <2>4, DacIsLarge
  <1>5. Current(q).do = "dump" /\ Current(q).index = n
    BY PairKinds
  <1>6. /\ buf' = IF Len(buf) = BufferLines - 1 THEN <<>> ELSE Append(buf, line)
        /\ pipe' = IF Len(buf) = BufferLines - 1 THEN pipe \o buf \o <<line>> ELSE pipe
    BY <1>5, Zenon DEF Access
  <1> HIDE DEF line, n
  <1>7. <<line>> \in Seq(Line) /\ Len(<<line>>) = 1 /\ AllTell(<<line>>, n, kpal)
    BY <1>1, <1>2, TellOne
  <1>8. /\ AllTell(pipe', 0, kpal) /\ AllTell(buf', Len(pipe'), kpal)
        /\ Len(pipe') + Len(buf') = n + 1
    <2>1. CASE Len(buf) = BufferLines - 1
      <3> DEFINE u == pipe \o buf
      <3>1. 0 \in Nat /\ 0 + Len(pipe) = Len(pipe)
        BY <1>2
      <3>2. u \in Seq(Line) /\ Len(u) = Len(pipe) + Len(buf) /\ AllTell(u, 0, kpal)
        BY <1>2, <3>1, TellJoined
      <3> HIDE DEF u
      <3>3. AllTell(<<line>>, 0 + Len(u), kpal)
        BY <1>2, <1>7, <3>2
      <3>4. Len(u \o <<line>>) = Len(u) + 1 /\ AllTell(u \o <<line>>, 0, kpal)
        BY <1>7, <3>1, <3>2, <3>3, TellJoined
      <3>5. pipe' = u \o <<line>> /\ buf' = <<>>
        BY <1>6, <2>1 DEF u
      <3>6. AllTell(buf', Len(pipe'), kpal) /\ Len(buf') = 0
        BY <3>5 DEF AllTell
      <3>7. Len(pipe') = n + 1
        BY <1>2, <3>2, <3>4, <3>5
      <3>8. AllTell(pipe', 0, kpal)
        BY <3>4, <3>5
      <3> QED
        BY <1>2, <3>6, <3>7, <3>8
    <2>2. CASE Len(buf) # BufferLines - 1
      <3>1. buf' = Append(buf, line) /\ pipe' = pipe
        BY <1>6, <2>2
      <3>2. Append(buf, line) = buf \o <<line>>
        BY <1>1, <1>2, AppendIsConcat
      <3>3. Len(pipe) \in Nat /\ AllTell(<<line>>, Len(pipe) + Len(buf), kpal)
        BY <1>2, <1>7
      <3>4. Len(buf \o <<line>>) = Len(buf) + 1 /\ AllTell(buf \o <<line>>, Len(pipe), kpal)
        BY <1>2, <1>7, <3>3, TellJoined
      <3> DEFINE w == buf \o <<line>>
      <3>5. buf' = w /\ Len(w) = Len(buf) + 1 /\ AllTell(w, Len(pipe), kpal)
        BY <3>1, <3>2, <3>4
      <3> HIDE DEF w
      <3>6. Len(buf) \in Nat /\ Len(pipe) \in Nat
        BY <1>2
      <3> QED
        BY <1>2, <3>1, <3>5, <3>6
    <2> QED
      BY <2>1, <2>2
  <1>9. n + 1 <= DacSize /\ ~(n + 1 > DacSize)
    BY <1>2, DacIsLarge
  <1>10. \A i \in Text : card'.dac.col[i] = Shown(kpal, i)
    BY <1>1 DEF Reading
  <1> QED
    BY <1>3, <1>4, <1>8, <1>9, <1>10 DEF Reading

\* getpalette's exit.
LEMMA ReadingEnd ==
  ASSUME TypeInv, StandInv, NEW p \in Programs, NEW q \in Programs, Pair(p, q),
         ended[q] \in {"run", "done"}, Running(q), Exit(q), Reading(q), Made(q) = DacSize
  PROVE  Reading(q)' /\ calls'[q] = <<>>
  <1>1. /\ pipe' = pipe \o buf /\ buf' = <<>> /\ UNCHANGED <<card, kpal>>
        /\ GoOn(q, Rest(q), "done")
    BY Zenon DEF Exit
  <1>2. job' = job /\ calls'[q] = Tail(calls[q]) /\ pc'[q] = 1
    <2>1. \A rest : GoOn(q, rest, "done") => job' = job /\ calls'[q] = rest /\ pc'[q] = 1
      BY DEF GoOn, TypeInv
    <2> QED
      BY <1>1, <2>1 DEF Rest
  <1>3. Len(Tail(calls[q])) = DacSize - Made(q) /\ Len(job[q]) = DacSize + 1
        /\ (Tail(calls[q]) # <<>> <=> Made(q) < DacSize)
    BY ReadingNext
  <1>4. Made(q)' = DacSize + 1 /\ calls'[q] = <<>>
    <2>1. Len(Tail(calls[q])) = 0
      BY <1>3, DacIsLarge
    <2>2. Made(q)' = DacSize + 1 - 0
      BY <1>2, <1>3, <2>1 DEF Made
    <2>3. Tail(calls[q]) = <<>>
      BY <1>3, DacIsLarge
    <2> QED
      BY <1>2, <2>2, <2>3, DacIsLarge
  <1>5. /\ pipe \in Seq(Line) /\ buf \in Seq(Line)
        /\ AllTell(pipe, 0, kpal) /\ AllTell(buf, Len(pipe), kpal)
        /\ Len(pipe) + Len(buf) = DacSize
    BY DacIsLarge DEF TypeInv, Reading
  <1>6. Len(pipe') = DacSize /\ AllTell(pipe', 0, kpal)
    <2>1. 0 \in Nat /\ 0 + Len(pipe) = Len(pipe)
      BY <1>5
    <2> QED
      BY <1>1, <1>5, <2>1, TellJoined
  <1>7. AllTell(buf', Len(pipe'), kpal) /\ Len(buf') = 0
    BY <1>1 DEF AllTell
  <1>8. \A i \in Text : card'.dac.col[i] = Shown(kpal, i)
    BY <1>1 DEF Reading
  <1>9. ~(DacSize + 1 <= DacSize)
    BY DacIsLarge
  <1>10. ~(pc'[q] > 1) /\ DacSize + 1 > DacSize
    BY <1>2, DacIsLarge
  <1>11. Reading(q)'
    BY <1>1, <1>4, <1>6, <1>7, <1>8, <1>9, <1>10 DEF Reading
  <1> QED
    BY <1>4, <1>11

\* Sequences of calls.
LEMMA CallsRest ==
  ASSUME NEW cs \in Seq(GoodCall), cs # <<>>
  PROVE  /\ Len(cs) \in Nat /\ Len(cs) >= 1 /\ Head(cs) = cs[1]
         /\ Tail(cs) \in Seq(GoodCall) /\ Len(Tail(cs)) = Len(cs) - 1
         /\ \A k \in 1..Len(Tail(cs)) : Tail(cs)[k] = cs[k + 1]
  OBVIOUS

LEMMA StillNeverAsks ==
  ASSUME NEW cs \in Seq(GoodCall), cs # <<>>, cs = SetPalettePipe \/ NeverAsks(cs)
  PROVE  NeverAsks(Tail(cs))
  <1>1. ASSUME NEW k \in 1..Len(Tail(cs))
        PROVE  cs[k + 1].do # "GIO_CMAP"
    <2>1. k + 1 \in 2..Len(cs)
      BY CallsRest
    <2>2. CASE cs = SetPalettePipe
      <3>1. k + 1 = 2 \/ k + 1 = 3
        BY <2>1, <2>2, PipeCalls
      <3> QED
        BY <2>2, <3>1, PipeCalls, PairKinds
    <2>3. CASE NeverAsks(cs)
      BY <2>1, <2>3 DEF NeverAsks
    <2> QED
      BY <2>2, <2>3
  <1> QED
    BY <1>1, CallsRest DEF NeverAsks

LEMMA AskedOnce == \A cs : NeverAsks(cs) => cs # SetPalettePipe
  BY PipeCalls, PairKinds DEF NeverAsks

\* A call in front of others.
LEMMA InFront ==
  ASSUME NEW S, NEW c \in S, NEW cs \in Seq(S)
  PROVE  LET ds == <<c>> \o cs IN
         /\ Len(ds) = Len(cs) + 1 /\ ds[1] = c
         /\ \A k \in 1..Len(cs) : ds[k + 1] = cs[k]
  <1> DEFINE t == <<c>>
  <1>1. t \in Seq(S) /\ Len(t) = 1 /\ t[1] = c
    OBVIOUS
  <1> HIDE DEF t
  <1>2. Joins(t \o cs, t, cs)
    BY <1>1, JoinedEnd
  <1>3. \A k \in 1..Len(cs) : 1 + k = k + 1
    OBVIOUS
  <1>4. Len(cs) \in Nat
    OBVIOUS
  <1>5. /\ Len(t \o cs) = Len(cs) + 1 /\ (t \o cs)[1] = c
        /\ \A k \in 1..Len(cs) : (t \o cs)[k + 1] = cs[k]
    BY <1>1, <1>2, <1>3, <1>4 DEF Joins
  <1> QED
    BY <1>5 DEF t

\* setpalette has asked the kernel.
LEMMA TakingFirst ==
  ASSUME TypeInv, StandInv, NEW p \in Programs, NEW q \in Programs, Pair(p, q), PipeHolds(p, q),
         calls[p] = job[p], ReadKernelPalette(p), ~Abort(p)
  PROVE  Taking(p, q)'
  <1>1. /\ was' = [was EXCEPT ![p] = kpal] /\ UNCHANGED <<kpal, pipe>>
        /\ GoOn(p, Tail(calls[p]), "done")
    BY Zenon DEF ReadKernelPalette, Rest
  <1>2. was'[p] = kpal
    BY <1>1 DEF TypeInv
  <1>3. calls'[p] = Tail(calls[p]) /\ calls'[q] = calls[q]
    BY <1>1 DEF GoOn, TypeInv, Pair
  <1>4. calls[p] = SetPalettePipe /\ calls[p] \in Seq(GoodCall) /\ calls[p] # <<>>
    <2>1. calls[p] = SetPalettePipe /\ calls[p] \in Seq(GoodCall)
      BY DEF Pair, TypeInv
    <2>2. SetPalettePipe # <<>>
      BY DEF SetPalettePipe
    <2> QED
      BY <2>1, <2>2
  <1> DEFINE s == calls[p]
             cs == Tail(s)
  <1>5. Len(cs) = 2 /\ cs[1] = Call("lines") /\ cs[2] = Call("PIO_CMAP")
    <2>1. s \in Seq(GoodCall) /\ s # <<>> /\ Len(s) = 3 /\ s[2] = Call("lines") /\ s[3] = Call("PIO_CMAP")
      BY <1>4, PipeCalls
    <2> HIDE DEF s
    <2>2. Len(Tail(s)) = Len(s) - 1 /\ \A k \in 1..Len(Tail(s)) : Tail(s)[k] = s[k + 1]
      BY <2>1, CallsRest
    <2> DEFINE t == Tail(s)
               n == Len(t)
    <2>3. n = 2
      BY <2>1, <2>2
    <2>4. \A k \in 1..n : t[k] = s[k + 1]
      BY <2>2
    <2> HIDE DEF t, n
    <2>5. t[1] = s[1 + 1] /\ t[2] = s[2 + 1]
      BY <2>3, <2>4
    <2>6. t[1] = s[2] /\ t[2] = s[3] /\ Len(t) = 2
      BY <2>3, <2>5 DEF n
    <2> QED
      BY <2>1, <2>6 DEF t
  <1>6. ASSUME calls[q] = <<>>
        PROVE  Len(pipe) = DacSize /\ AllTell(pipe, 0, kpal)
    <2>1. Reading(q)
      BY DEF PipeHolds
    <2>2. Made(q) = DacSize + 1
      <3>1. Len(job[q]) = DacSize + 1 /\ Len(calls[q]) = 0
        BY <1>6, ReadCalls DEF Pair
      <3> QED
        BY <3>1, DacIsLarge DEF Made
    <2> QED
      BY <2>1, <2>2, DacIsLarge DEF Reading
  <1> DEFINE next == DacSize - Len(pipe)
  <1>7. ASSUME calls[q] = <<>>
        PROVE  /\ Len(pipe) <= DacSize /\ AllTell(pipe, next, kpal)
               /\ \A i \in Text : ~(i < next)
    <2>1. next = 0
      BY <1>6, <1>7, DacIsLarge
    <2> QED
      BY <1>6, <1>7, <2>1, DacIsLarge DEF Text
  <1>8. pipe' = pipe /\ kpal' = kpal /\ calls'[p] = cs
    BY <1>1, <1>3
  <1> DEFINE lines == Call("lines")
             tell == Call("PIO_CMAP")
  <1>9. Len(calls'[p]) = 2 /\ calls'[p][1] = lines /\ calls'[p][2] = tell
    BY <1>5, <1>8
  <1> HIDE DEF cs, lines, tell
  <1>10. ToTake(calls'[p])
    <2> DEFINE ds == calls'[p]
               n == Len(ds)
    <2>1. n = 2 /\ ds[1] = lines /\ ds[2] = tell
      BY <1>9
    <2> HIDE DEF n, ds
    <2>2. n \in 0..3 /\ n # 3 /\ n # 1
      BY <2>1
    <2> QED
      BY <2>1, <2>2, Zenon DEF ToTake, n, ds, lines, tell
  <1>11. ASSUME calls'[q] = <<>>
         PROVE  Taken(p)'
    <2> DEFINE m == DacSize - Len(pipe')
    <2>1. Len(pipe') <= DacSize /\ AllTell(pipe', m, kpal) /\ \A i \in Text : ~(i < m)
      BY <1>3, <1>7, <1>8, <1>11
    <2> HIDE DEF m
    <2>2. \A i \in Text : i < m => mine'[p][AnsiOrder(i)] = KernelColour(Shown(was'[p], i))
      BY <2>1
    <2> DEFINE n == Len(calls'[p])
    <2>3. n # 3 /\ ~(n <= 1) /\ n # 0
      <3>1. n = 2
        BY <1>9
      <3> HIDE DEF n
      <3> QED
        BY <3>1
    <2> HIDE DEF n
    <2>4. AllTell(pipe', m, was'[p])
      BY <1>2, <2>1
    <2> QED
      BY <2>1, <2>2, <2>3, <2>4, Zenon DEF Taken, Copied, m, n
  <1>12. Len(calls'[p]) >= 2 /\ kpal' = was'[p]
    BY <1>2, <1>8, <1>9
  <1> QED
    BY <1>10, <1>11, <1>12 DEF Taking

LEMMA ToTakeTail ==
  ASSUME NEW cs \in Seq(GoodCall), cs # <<>>, ToTake(cs)
  PROVE  /\ ToTake(Tail(cs)) /\ Len(Tail(cs)) = Len(cs) - 1 /\ Tail(cs) \in Seq(GoodCall)
         /\ Head(cs) = cs[1] /\ Len(cs) \in 1..3
  <1> DEFINE n == Len(cs)
             t == Tail(cs)
             l == Call("lines")
             e == Call("PIO_CMAP")
  <1>1. /\ n \in Nat /\ n >= 1 /\ Head(cs) = cs[1] /\ t \in Seq(GoodCall) /\ Len(t) = n - 1
        /\ \A k \in 1..Len(t) : t[k] = cs[k + 1]
    BY CallsRest
  <1>2. /\ n \in 0..3 /\ (n = 3 => cs[2] = l /\ cs[3] = e) /\ (n = 2 => cs[2] = e)
    BY DEF ToTake
  <1> HIDE DEF n, t, l, e
  <1>3. CASE n = 3
    <2>1. Len(t) = 2 /\ 1 \in 1..Len(t) /\ 2 \in 1..Len(t) /\ 1 + 1 = 2 /\ 2 + 1 = 3
      BY <1>1, <1>3
    <2>2. t[1] = l /\ t[2] = e
      BY <1>1, <1>2, <1>3, <2>1
    <2>3. 2 \in 0..3 /\ 2 # 3 /\ 2 # 1
      OBVIOUS
    <2>4. ToTake(t)
      BY <2>1, <2>2, <2>3, Zenon DEF ToTake, l, e
    <2> QED
      BY <1>1, <1>3, <2>4 DEF n, t
  <1>4. CASE n = 2
    <2>1. Len(t) = 1 /\ 1 \in 1..Len(t) /\ 1 + 1 = 2
      BY <1>1, <1>4
    <2>2. t[1] = e
      BY <1>1, <1>2, <1>4, <2>1
    <2>3. 1 \in 0..3 /\ 1 # 3 /\ 1 # 2
      OBVIOUS
    <2>4. ToTake(t)
      BY <2>1, <2>2, <2>3, Zenon DEF ToTake, l, e
    <2> QED
      BY <1>1, <1>4, <2>4 DEF n, t
  <1>5. CASE n = 1
    <2>1. Len(t) = 0
      BY <1>1, <1>5
    <2>2. 0 \in 0..3 /\ 0 # 3 /\ 0 # 2 /\ 0 # 1
      OBVIOUS
    <2>3. ToTake(t)
      BY <2>1, <2>2, Zenon DEF ToTake
    <2> QED
      BY <1>1, <1>5, <2>3 DEF n, t
  <1> QED
    BY <1>1, <1>2, <1>3, <1>4, <1>5

\* An access of setpalette, while it sets a colour.
LEMMA TakingByte ==
  ASSUME NEW p, NEW q, Taking(p, q), calls'[p] = calls[p], calls'[q] = calls[q], pipe' = pipe,
         was'[p] = was[p], kpal' = kpal, mine'[p] = mine[p],
         \A i \in Text : card'.dac.col[i] = card.dac.col[i] \/ Len(calls[p]) > 0,
         Len(calls[p]) \in Nat
  PROVE  Taking(p, q)'
  <1>1. Copied(p, DacSize - Len(pipe)) => Copied(p, DacSize - Len(pipe))'
    BY DEF Copied
  <1>2. Copied(p, DacSize - Len(pipe) - 1) => Copied(p, DacSize - Len(pipe) - 1)'
    BY DEF Copied
  <1>3. Taken(p) => Taken(p)'
    BY <1>1, <1>2 DEF Taken
  <1> QED
    BY <1>3 DEF Taking

LEMMA TakingColour ==
  ASSUME TypeInv, NEW p \in Programs, NEW q \in Programs, p # q, Taking(p, q),
         Len(calls[p]) = 3, Access(p)
  PROVE  Taking(p, q)'
  <1> DEFINE cs == calls[p]
             c == Current(p)
  <1>1. cs \in Seq(GoodCall) /\ cs # <<>> /\ c \in GoodCall /\ c = cs[1] /\ ToTake(cs) /\ c.do = "rgb"
    <2>1. UsesPorts(p) /\ Running(p) /\ Fits(p)
      BY AccessSteps DEF UsesPorts, TypeInv
    <2>2. cs \in Seq(GoodCall) /\ cs # <<>> /\ c \in GoodCall /\ c = Head(cs) /\ ToTake(cs)
      BY <2>1, CurrentIsGood DEF TypeInv, Running, Current, Taking
    <2>3. c = cs[1]
      BY <2>2, CallsRest
    <2>4. cs[1].do = "rgb"
      BY <2>2 DEF ToTake
    <2> QED
      BY <2>2, <2>3, <2>4
  <1>2. UNCHANGED <<kpal, was>>
    BY AccessSteps
  <1>3. /\ mine' = IF Finishes(p) /\ c.index \in Text
                     THEN [mine EXCEPT ![p] = [mine[p] EXCEPT ![color_table[c.index + 1]] = KernelColour(c.rgb)]]
                     ELSE mine
        /\ pipe' = pipe
    <2>1. c.do # "dump"
      BY <1>1
    <2> QED
      BY <1>1, <2>1 DEF Access, Remembers
  <1>4. kpal = was[p]
    <2>1. Len(calls[p]) > 0
      OBVIOUS
    <2> QED
      BY <2>1 DEF Taking
  <1>5. CASE ~Finishes(p)
    <2>1. calls' = calls /\ mine' = mine
      BY <1>3, <1>5, AccessSteps
    <2>2. Len(calls[p]) > 0 /\ Len(calls[p]) \in Nat
      OBVIOUS
    <2> QED
      BY <1>2, <1>3, <2>1, <2>2, TakingByte
  <1>6. CASE Finishes(p)
    <2>1. calls'[p] = Tail(cs) /\ calls'[q] = calls[q]
      <3>1. GoOn(p, Tail(calls[p]), "done")
        BY <1>6, AccessSteps
      <3>2. \A rest : GoOn(p, rest, "done") => calls'[p] = rest /\ calls'[q] = calls[q]
        BY DEF GoOn, TypeInv
      <3> QED
        BY <3>1, <3>2
    <2>2. ToTake(calls'[p]) /\ Len(calls'[p]) = 2
      <3>1. ToTake(Tail(cs)) /\ Len(Tail(cs)) = Len(cs) - 1
        BY <1>1, ToTakeTail
      <3>2. Len(Tail(cs)) = 3 - 1
        BY <3>1
      <3>3. 3 - 1 = 2
        OBVIOUS
      <3> QED
        BY <2>1, <3>1, <3>2, <3>3
    <2>3. ASSUME calls[q] = <<>>
          PROVE  Taken(p)'
      <3> DEFINE n == DacSize - Len(pipe)
      <3>1. /\ Taken(p) /\ Len(pipe) \in Nat /\ n \in Int
        BY <2>3, DacIsLarge DEF Taking, TypeInv
      <3>2. /\ Len(pipe) <= DacSize /\ AllTell(pipe, n, was[p]) /\ n >= 1
            /\ Tells(<<c.index, c.rgb>>, n - 1, was[p]) /\ Copied(p, n - 1)
        BY <1>1, <3>1 DEF Taken
      <3> HIDE DEF n
      <3>3. c.index = n - 1 /\ (n - 1 \in Text => c.rgb = Shown(was[p], n - 1))
        BY <3>2 DEF Tells
      <3>4. ASSUME NEW i \in Text, i < n
            PROVE  mine'[p][AnsiOrder(i)] = KernelColour(Shown(was[p], i))
        <4>1. mine[p] \in Palette
          BY DEF TypeInv
        <4>2. CASE c.index \in Text
          <5>1. color_table[c.index + 1] = AnsiOrder(c.index)
            BY <4>2, AnsiTable
          <5>2. mine'[p] = [mine[p] EXCEPT ![AnsiOrder(c.index)] = KernelColour(c.rgb)]
            BY <1>3, <1>6, <4>2, <5>1 DEF TypeInv
          <5>3. AnsiOrder(c.index) \in Text /\ AnsiOrder(i) \in Text
            BY <4>2, AnsiIsText
          <5>4. AnsiOrder(c.index) = AnsiOrder(i) <=> c.index = i
            BY <4>2, AnsiInjective
          <5>5. mine'[p][AnsiOrder(i)] = IF c.index = i THEN KernelColour(c.rgb) ELSE mine[p][AnsiOrder(i)]
            BY <4>1, <5>2, <5>3, <5>4 DEF Palette
          <5>6. CASE i = n - 1
            BY <3>3, <5>5, <5>6
          <5>7. CASE i # n - 1
            <6>1. i < n - 1
              BY <3>1, <3>4, <5>7 DEF Text
            <6>2. mine[p][AnsiOrder(i)] = KernelColour(Shown(was[p], i))
              BY <3>2, <6>1 DEF Copied
            <6> QED
              BY <3>3, <5>5, <5>7, <6>2
          <5> QED
            BY <5>6, <5>7
        <4>3. CASE c.index \notin Text
          <5>1. i < n - 1
            BY <3>1, <3>3, <3>4, <4>3 DEF Text
          <5>2. mine[p][AnsiOrder(i)] = KernelColour(Shown(was[p], i))
            BY <3>2, <5>1 DEF Copied
          <5> QED
            BY <1>3, <4>3, <5>2
        <4> QED
          BY <4>2, <4>3
      <3>5. \A i \in Text : i < n => mine'[p][AnsiOrder(i)] = KernelColour(Shown(was'[p], i))
        BY <1>2, <3>4
      <3>6. DacSize - Len(pipe') = n /\ Len(pipe') <= DacSize /\ AllTell(pipe', n, was'[p])
        BY <1>2, <1>3, <3>2 DEF n
      <3> DEFINE m == Len(calls'[p])
      <3>7. m # 3 /\ ~(m <= 1) /\ m # 0
        <4>1. m = 2
          BY <2>2
        <4> HIDE DEF m
        <4> QED
          BY <4>1
      <3> HIDE DEF m
      <3> QED
        BY <3>5, <3>6, <3>7, Zenon DEF Taken, Copied, m
    <2>4. Len(calls'[p]) >= 2 /\ kpal' = was'[p]
      BY <1>2, <1>4, <2>2
    <2> QED
      BY <2>1, <2>2, <2>3, <2>4, Zenon DEF Taking
  <1> QED
    BY <1>5, <1>6

\* A line taken from the pipe asks for a colour.
LEMMA LineIsGood ==
  ASSUME NEW line \in Line
  PROVE  Colour(line[1], line[2]) \in GoodCall
  <1> DEFINE i == line[1]
             rgb == line[2]
             put == Colour(i, rgb)
  <1>1. i \in 0..DacSize - 1 /\ rgb \in [1..3 -> Byte]
    BY DEF Line
  <1> HIDE DEF i, rgb
  <1>2. rgb \in [1..3 -> Int]
    BY <1>1 DEF Byte
  <1>3. put = [do |-> "rgb", set |-> "DAC", index |-> i, rgb |-> rgb]
    BY DEF Colour
  <1> HIDE DEF put
  <1>4. put \in CallSet
    BY <1>1, <1>2, <1>3 DEF CallSet
  <1>5. put \in GoodCall
    BY <1>3, <1>4 DEF GoodCall
  <1> QED
    BY <1>5 DEF put, i, rgb

\* getpalette has nothing left to make when the pipe has no writer.
LEMMA NoWriter ==
  ASSUME TypeInv, StandInv, NEW p \in Programs, NEW q \in Programs, Pair(p, q),
         ended[q] \in {"run", "done"}, Writers = {}
  PROVE  calls[q] = <<>>
  <1> SUFFICES ASSUME Running(q) PROVE FALSE
    BY DEF Running
  <1>1. /\ Made(q) \in 0..DacSize
        /\ Made(q) < DacSize => Current(q) = Dump(Made(q))
        /\ Made(q) = DacSize => Current(q) = Call("exit")
    BY ReadingNext
  <1>2. Current(q).do \in {"dump", "exit"}
    BY <1>1, PairKinds, DacIsLarge
  <1>3. Current(q) \in ToSet(calls[q])
    <2>1. calls[q] \in Seq(GoodCall) /\ calls[q] # <<>>
      BY DEF TypeInv, Running
    <2>2. \A s \in Seq(GoodCall) : s # <<>> => Head(s) \in ToSet(s)
      BY DEF ToSet
    <2> QED
      BY <2>1, <2>2 DEF Current
  <1> QED
    BY <1>2, <1>3 DEF Writers

LEMMA TakingLine ==
  ASSUME TypeInv, StandInv, NEW p \in Programs, NEW q \in Programs, Pair(p, q), Taking(p, q),
         ended[q] \in {"run", "done"}, NextLine(p)
  PROVE  Taking(p, q)'
  <1> DEFINE cs == calls[p]
  <1>1. /\ Running(p) /\ Current(p).do = "lines"
        /\ pipe # <<>> => /\ GoOn(p, <<Colour(Head(pipe)[1], Head(pipe)[2])>> \o cs, "done")
                          /\ pipe' = Tail(pipe)
        /\ pipe = <<>> => Writers = {} /\ GoOn(p, Tail(cs), "done") /\ pipe' = pipe
        /\ UNCHANGED <<kpal, mine, was>>
    BY Zenon DEF NextLine, Does, Rest
  <1>2. cs \in Seq(GoodCall) /\ cs # <<>> /\ ToTake(cs) /\ Head(cs).do = "lines"
    BY <1>1 DEF Running, Current, TypeInv, Taking
  <1>3. Len(cs) = 2
    <2>1. Head(cs) = cs[1] /\ Len(cs) \in 1..3
      BY <1>2, ToTakeTail
    <2>2. Len(cs) = 3 => cs[1].do = "rgb"
      BY <1>2 DEF ToTake
    <2>3. Len(cs) = 1 => cs[1].do = "PIO_CMAP"
      BY <1>2, PairKinds DEF ToTake
    <2> QED
      BY <1>2, <2>1, <2>2, <2>3
  <1>4. cs[1] = Call("lines") /\ cs[2] = Call("PIO_CMAP")
    BY <1>2, <1>3 DEF ToTake
  <1>5. \A rest : GoOn(p, rest, "done") => calls'[p] = rest /\ calls'[q] = calls[q]
    BY DEF GoOn, TypeInv, Pair
  <1>6. kpal = was[p]
    BY <1>3 DEF Taking
  <1>7. calls[q] = <<>> => Taken(p)
    BY DEF Taking
  <1> DEFINE n == DacSize - Len(pipe)
  <1>8. calls[q] = <<>> =>
          n \in Nat /\ Len(pipe) <= DacSize /\ AllTell(pipe, n, was[p]) /\ Copied(p, n)
    <2>1. Len(pipe) \in Nat
      BY DEF TypeInv
    <2> QED
      BY <1>3, <1>7, <2>1, DacIsLarge DEF Taken
  <1>9. CASE pipe # <<>>
    <2> DEFINE l == Head(pipe)
               c == Colour(l[1], l[2])
               ds == <<c>> \o cs
    <2>1. /\ pipe \in Seq(Line) /\ l \in Line
          /\ Len(Tail(pipe)) = Len(pipe) - 1 /\ Len(pipe) \in Nat /\ Len(pipe) >= 1
      <3>1. \A s \in Seq(Line) : s # <<>> =>
              Head(s) \in Line /\ Len(Tail(s)) = Len(s) - 1 /\ Len(s) \in Nat /\ Len(s) >= 1
        OBVIOUS
      <3> QED
        BY <1>9, <3>1 DEF TypeInv
    <2>2. c \in GoodCall /\ c.do = "rgb" /\ c.index = l[1] /\ c.rgb = l[2]
      BY <2>1, LineIsGood, PairKinds
    <2>3. calls'[p] = ds /\ calls'[q] = calls[q] /\ pipe' = Tail(pipe)
      BY <1>1, <1>5, <1>9
    <2>4. Len(ds) = 3 /\ ds[1] = c /\ ds[2] = cs[1] /\ ds[3] = cs[2]
      <3> HIDE DEF cs, c
      <3>1. /\ Len(<<c>> \o cs) = Len(cs) + 1 /\ (<<c>> \o cs)[1] = c
            /\ \A k \in 1..Len(cs) : (<<c>> \o cs)[k + 1] = cs[k]
        BY <1>2, <2>2, InFront
      <3> HIDE DEF ds
      <3>2. Len(ds) = Len(cs) + 1 /\ ds[1] = c /\ \A k \in 1..Len(cs) : ds[k + 1] = cs[k]
        BY <3>1 DEF ds
      <3>3. ds[1 + 1] = cs[1] /\ ds[2 + 1] = cs[2]
        BY <1>3, <3>2
      <3> QED
        BY <1>3, <3>2, <3>3
    <2> HIDE DEF ds
    <2>5. ToTake(calls'[p]) /\ Len(calls'[p]) = 3 /\ calls'[p][1] = c
      <3>1. 3 \in 0..3 /\ 3 # 2 /\ 3 # 1
        OBVIOUS
      <3> QED
        BY <1>4, <2>2, <2>3, <2>4, <3>1, Zenon DEF ToTake
    <2>6. ASSUME calls[q] = <<>>
          PROVE  Taken(p)'
      <3>1. n \in Nat /\ Len(pipe) <= DacSize /\ AllTell(pipe, n, was[p]) /\ Copied(p, n)
        BY <1>8, <2>6
      <3> HIDE DEF n
      <3>2. Tells(l, n, was[p]) /\ AllTell(Tail(pipe), n + 1, was[p])
        BY <1>9, <2>1, <3>1, TellTail
      <3>3. Tells(<<c.index, c.rgb>>, n, was[p])
        BY <2>2, <3>2 DEF Tells
      <3> HIDE DEF c, l
      <3> DEFINE m == DacSize - Len(pipe')
      <3>4. m = n + 1 /\ m >= 1 /\ m - 1 = n /\ Len(pipe') <= DacSize
        BY <2>1, <2>3, <3>1, DacIsLarge DEF n
      <3>5. \A i \in Text : i < n => mine'[p][AnsiOrder(i)] = KernelColour(Shown(was'[p], i))
        BY <1>1, <3>1 DEF Copied
      <3>6. Len(pipe') <= DacSize /\ AllTell(pipe', m, was'[p])
        BY <1>1, <2>3, <3>2, <3>4
      <3>7. m >= 1 /\ Tells(<<calls'[p][1].index, calls'[p][1].rgb>>, m - 1, was'[p])
        BY <1>1, <2>5, <3>3, <3>4
      <3>8. \A i \in Text : i < m - 1 => mine'[p][AnsiOrder(i)] = KernelColour(Shown(was'[p], i))
        BY <3>4, <3>5
      <3> HIDE DEF m
      <3> DEFINE z == Len(calls'[p])
      <3>9. z \notin {1, 2} /\ ~(z <= 1) /\ z # 0
        <4>1. z = 3
          BY <2>5
        <4> HIDE DEF z
        <4> QED
          BY <4>1
      <3> HIDE DEF z
      <3> QED
        BY <3>6, <3>7, <3>8, <3>9, Zenon DEF Taken, Copied, m, z
    <2>7. Len(calls'[p]) >= 2 /\ kpal' = was'[p]
      BY <1>1, <1>6, <2>5
    <2> QED
      BY <2>3, <2>5, <2>6, <2>7, Zenon DEF Taking
  <1>10. CASE pipe = <<>>
    <2>1. calls'[p] = Tail(cs) /\ calls'[q] = calls[q] /\ pipe' = pipe /\ calls[q] = <<>>
      BY <1>1, <1>5, <1>10, NoWriter
    <2>2. ToTake(calls'[p]) /\ Len(calls'[p]) = 1
      <3>1. ToTake(Tail(cs)) /\ Len(Tail(cs)) = Len(cs) - 1
        BY <1>2, ToTakeTail
      <3>2. Len(Tail(cs)) = 2 - 1
        BY <1>3, <3>1
      <3>3. 2 - 1 = 1
        OBVIOUS
      <3> QED
        BY <2>1, <3>1, <3>2, <3>3
    <2>3. Len(pipe') = 0
      BY <1>10, <2>1
    <2>4. Len(pipe') <= DacSize /\ AllTell(pipe', DacSize - Len(pipe'), was'[p])
      BY <1>1, <1>8, <2>1
    <2>5. \A i \in Text : i < DacSize - Len(pipe') => mine'[p][AnsiOrder(i)] = KernelColour(Shown(was'[p], i))
      BY <1>1, <1>8, <2>1 DEF Copied
    <2> DEFINE z == Len(calls'[p])
    <2>6. z # 3 /\ z # 0 /\ z > 0
      <3>1. z = 1
        BY <2>2
      <3> HIDE DEF z
      <3> QED
        BY <3>1
    <2> HIDE DEF z
    <2>7. Taken(p)'
      BY <2>3, <2>4, <2>5, <2>6, Zenon DEF Taken, Copied, z
    <2> QED
      BY <1>1, <1>6, <2>1, <2>2, <2>7, Zenon DEF Taking
  <1> QED
    BY <1>9, <1>10

\* setpalette tells the kernel.
LEMMA TakingEnd ==
  ASSUME TypeInv, NEW p \in Programs, NEW q \in Programs, Pair(p, q), Taking(p, q),
         TellKernel(p), ~Abort(p)
  PROVE  Taking(p, q)'
  <1> DEFINE cs == calls[p]
  <1>1. /\ Running(p) /\ Current(p).do = "PIO_CMAP"
        /\ kpal' = mine[p] /\ card' = Switched(card, kpal') /\ UNCHANGED <<pipe, mine, was>>
        /\ GoOn(p, Tail(cs), "done")
    BY Zenon DEF TellKernel, Does, Rest
  <1>2. cs \in Seq(GoodCall) /\ cs # <<>> /\ ToTake(cs) /\ Head(cs).do = "PIO_CMAP"
    BY <1>1 DEF Running, Current, TypeInv, Taking
  <1>3. Len(cs) = 1
    <2>1. Head(cs) = cs[1] /\ Len(cs) \in 1..3
      BY <1>2, ToTakeTail
    <2>2. Len(cs) = 3 => cs[1].do = "rgb"
      BY <1>2 DEF ToTake
    <2>3. Len(cs) = 2 => cs[1].do = "lines"
      BY <1>2, PairKinds DEF ToTake
    <2> QED
      BY <1>2, <2>1, <2>2, <2>3
  <1>4. calls[q] = <<>> /\ Taken(p)
    <2>1. ~(Len(calls[p]) >= 2)
      BY <1>3
    <2> QED
      BY <2>1 DEF Taking
  <1>5. /\ Len(pipe) <= DacSize /\ AllTell(pipe, DacSize - Len(pipe), was[p])
        /\ Copied(p, DacSize - Len(pipe)) /\ Len(pipe) = 0
    BY <1>3, <1>4 DEF Taken
  <1>6. calls'[p] = Tail(cs) /\ calls'[q] = calls[q]
    <2>1. \A rest : GoOn(p, rest, "done") => calls'[p] = rest /\ calls'[q] = calls[q]
      BY DEF GoOn, TypeInv, Pair
    <2> QED
      BY <1>1, <2>1
  <1>7. ToTake(calls'[p]) /\ Len(calls'[p]) = 0
    <2>1. ToTake(Tail(cs)) /\ Len(Tail(cs)) = Len(cs) - 1
      BY <1>2, ToTakeTail
    <2>2. Len(Tail(cs)) = 1 - 1
      BY <1>3, <2>1
    <2>3. 1 - 1 = 0
      OBVIOUS
    <2> QED
      BY <1>6, <2>1, <2>2, <2>3
  <1>8. \A i \in Text : /\ kpal'[AnsiOrder(i)] = KernelColour(Shown(was'[p], i))
                        /\ card'.dac.col[i] = DacColour(kpal'[AnsiOrder(i)])
    <2> SUFFICES ASSUME NEW i \in Text
                 PROVE  /\ kpal'[AnsiOrder(i)] = KernelColour(Shown(was'[p], i))
                        /\ card'.dac.col[i] = DacColour(kpal'[AnsiOrder(i)])
      OBVIOUS
    <2>1. i < DacSize - Len(pipe)
      BY <1>5, DacIsLarge DEF Text
    <2>2. mine[p][AnsiOrder(i)] = KernelColour(Shown(was[p], i))
      BY <1>5, <2>1 DEF Copied
    <2>3. CardOK(card) /\ kpal' \in Palette
      BY <1>1 DEF TypeInv
    <2> QED
      BY <1>1, <2>2, <2>3, SwitchedColour
  <1>9. Len(pipe') <= DacSize /\ AllTell(pipe', DacSize - Len(pipe'), was'[p]) /\ Len(pipe') = 0
    BY <1>1, <1>5
  <1> DEFINE z == Len(calls'[p])
  <1>10. z # 3 /\ z \notin {1, 2} /\ ~(z > 0)
    <2>1. z = 0
      BY <1>7
    <2> HIDE DEF z
    <2> QED
      BY <2>1
  <1> HIDE DEF z
  <1>11. Taken(p)'
    BY <1>8, <1>9, <1>10, Zenon DEF Taken, z
  <1> QED
    BY <1>4, <1>6, <1>7, <1>10, <1>11, Zenon DEF Taking, z

\* What a program's step leaves to the others.
LEMMA CallsLocal ==
  ASSUME TypeInv, StandInv, NEW p \in Programs, Calls(p)
  PROVE  /\ Running(p) /\ UNCHANGED <<bursts, kills, job>>
         /\ \A q \in Programs : q # p => calls'[q] = calls[q] /\ ended'[q] = ended[q] /\ ~alone'[q]
  <1>1. \A rest, how : GoOn(p, rest, how) =>
          /\ job' = job
          /\ \A q \in Programs : q # p => calls'[q] = calls[q] /\ ended'[q] = ended[q] /\ ~alone'[q]
    BY DEF GoOn, Acts, TypeInv
  <1>2. CASE Access(p)
    <2>1. Running(p) /\ UNCHANGED <<bursts, kills>>
      BY <1>2, AccessSteps DEF UsesPorts
    <2>2. CASE Finishes(p)
      BY <1>1, <1>2, <2>1, <2>2, AccessSteps
    <2>3. CASE ~Finishes(p)
      BY <1>2, <2>1, <2>3, AccessSteps DEF Acts
    <2> QED
      BY <2>2, <2>3
  <1>3. CASE ~Access(p)
    <2>1. Running(p) /\ \E rest, how : GoOn(p, rest, how)
      BY <1>3, CallsGoOn DEF StandInv
    <2>2. UNCHANGED <<bursts, kills>>
      BY <1>3, Zenon DEF Calls, BadLine, ReadKernelPalette, TellKernel, FontProg, NextLine, Exit, Abort
    <2> QED
      BY <1>1, <2>1, <2>2
  <1> QED
    BY <1>2, <1>3

\* While setpalette runs as it should it has not been aborted before.
LEMMA RanBefore ==
  ASSUME TypeInv, StandInv, NEW p \in Programs, Calls(p), ended'[p] \in {"run", "done"}
  PROVE  ended[p] = "run" /\ ~Abort(p)
  <1>1. Running(p) /\ Stands(p)
    BY CallsLocal DEF StandInv
  <1>2. ended[p] \in {"run", "aborted"}
    BY <1>1 DEF Stands, Running, TypeInv
  <1>3. \A rest, how : GoOn(p, rest, how) /\ ended[p] = "aborted" => ended'[p] = "aborted"
    BY DEF GoOn, TypeInv
  <1>4. ended[p] = "run"
    <2>1. CASE Access(p)
      BY <1>2, <1>3, <2>1, AccessSteps
    <2>2. CASE ~Access(p)
      BY <1>1, <1>2, <1>3, <2>2, CallsGoOn
    <2> QED
      BY <2>1, <2>2
  <1>5. ~Abort(p)
    <2>1. \A rest : GoOn(p, rest, "aborted") => ended'[p] = "aborted"
      BY <1>4 DEF GoOn, TypeInv
    <2> QED
      BY <2>1, Zenon DEF Abort
  <1> QED
    BY <1>4, <1>5

\* setpalette never asks the kernel a second time.
LEMMA AsksOnce ==
  ASSUME TypeInv, TypeInv', StandInv, NEW p \in Programs, Calls(p),
         calls[p] = SetPalettePipe \/ NeverAsks(calls[p])
  PROVE  \/ NeverAsks(calls'[p])
         \/ calls'[p] = calls[p] /\ Access(p) /\ ~Finishes(p)
  <1>1. calls[p] \in Seq(GoodCall) /\ calls[p] # <<>> /\ Running(p)
    BY CallsLocal DEF TypeInv, Running
  <1>2. NeverAsks(Tail(calls[p]))
    BY <1>1, StillNeverAsks
  <1>3. NeverAsks(<<SCREEN_ON>>)
    BY PairKinds DEF NeverAsks
  <1>4. \A rest, how : GoOn(p, rest, how) => calls'[p] = rest
    BY DEF GoOn, TypeInv
  <1>5. CASE Access(p)
    BY <1>2, <1>4, <1>5, AccessSteps
  <1>6. CASE BadLine(p) \/ ReadKernelPalette(p) \/ TellKernel(p) \/ FontProg(p) \/ Exit(p)
    <2>1. GoOn(p, Tail(calls[p]), "done") \/ GoOn(p, <<SCREEN_ON>>, "aborted")
      BY <1>6, Zenon DEF BadLine, ReadKernelPalette, TellKernel, FontProg, Exit, Abort, Rest
    <2>2. calls'[p] = Tail(calls[p]) \/ calls'[p] = <<SCREEN_ON>>
      BY <1>4, <2>1
    <2> QED
      BY <1>2, <1>3, <2>2
  <1>7. CASE NextLine(p)
    <2> DEFINE c == Colour(Head(pipe)[1], Head(pipe)[2])
    <2>1. /\ Current(p).do = "lines"
          /\ \/ pipe # <<>> /\ GoOn(p, <<c>> \o calls[p], "done")
             \/ GoOn(p, Tail(calls[p]), "done")
      BY <1>7, Zenon DEF NextLine, Does, Rest
    <2>2. CASE GoOn(p, Tail(calls[p]), "done")
      BY <1>2, <1>4, <2>2
    <2>3. CASE pipe # <<>> /\ GoOn(p, <<c>> \o calls[p], "done")
      <3>1. c \in GoodCall /\ c.do = "rgb"
        <4>1. Head(pipe) \in Line
          <5>1. \A s \in Seq(Line) : s # <<>> => Head(s) \in Line
            OBVIOUS
          <5> QED
            BY <2>3, <5>1 DEF TypeInv
        <4> QED
          BY <4>1, LineIsGood, PairKinds
      <3>2. calls'[p] = <<c>> \o calls[p]
        BY <1>4, <2>3
      <3>3. NeverAsks(calls[p])
        <4>1. Head(calls[p]) = calls[p][1]
          BY <1>1, CallsRest
        <4>2. calls[p] # SetPalettePipe
          BY <2>1, <4>1, PipeCalls, PairKinds DEF Current
        <4> QED
          BY <4>2
      <3> HIDE DEF c
      <3> DEFINE ds == <<c>> \o calls[p]
      <3>4. /\ Len(ds) = Len(calls[p]) + 1 /\ ds[1] = c
            /\ \A k \in 1..Len(calls[p]) : ds[k + 1] = calls[p][k]
        BY <1>1, <3>1, InFront
      <3> HIDE DEF ds
      <3>5. ASSUME NEW k \in 1..Len(ds)
            PROVE  ds[k].do # "GIO_CMAP"
        <4>1. CASE k = 1
          BY <3>1, <3>4, <4>1
        <4>2. CASE k # 1
          <5>1. Len(calls[p]) \in Nat
            BY <1>1
          <5>2. k - 1 \in 1..Len(calls[p]) /\ (k - 1) + 1 = k
            BY <3>4, <4>2, <5>1
          <5> QED
            BY <3>3, <3>4, <5>2 DEF NeverAsks
        <4> QED
          BY <4>1, <4>2
      <3>6. NeverAsks(ds)
        BY <3>5 DEF NeverAsks
      <3> QED
        BY <3>2, <3>6 DEF ds
    <2> QED
      BY <2>1, <2>2, <2>3
  <1> QED
    BY <1>5, <1>6, <1>7 DEF Calls

\* A step of setpalette.
LEMMA TakerSteps ==
  ASSUME TypeInv, TypeInv', StandInv, NEW p \in Programs, NEW q \in Programs, Pair(p, q),
         PipeHolds(p, q), Calls(p)
  PROVE  PipeHolds(p, q)'
  <1>1. /\ Running(p) /\ UNCHANGED <<bursts, kills, job>>
        /\ \A r \in Programs : r # p => calls'[r] = calls[r] /\ ended'[r] = ended[r]
    BY CallsLocal
  <1>2. job[p] = SetPalettePipe /\ p # q
    BY DEF Pair
  <1>3. calls[p] = job[p] => Current(p) = Call("GIO_CMAP")
    <2>1. Current(p) = calls[p][1]
      BY <1>1, CallsRest DEF TypeInv, Running, Current
    <2> QED
      BY <1>2, <2>1, PipeCalls
  <1>4. Access(p) => Current(p).set # "none"
    BY AccessSteps DEF UsesPorts
  <1>5. NeverAsks(calls'[p]) \/ (calls'[p] = calls[p] /\ calls[p] # job[p] /\ NeverAsks(calls[p]))
    <2>1. calls[p] = SetPalettePipe \/ NeverAsks(calls[p])
      BY <1>2 DEF PipeHolds
    <2>2. \/ NeverAsks(calls'[p])
          \/ calls'[p] = calls[p] /\ Access(p)
      BY <2>1, AsksOnce
    <2> QED
      BY <1>2, <1>3, <1>4, <2>1, <2>2, PairKinds
  <1>6. NeverAsks(calls'[p]) /\ calls'[p] # job'[p]
    BY <1>1, <1>2, <1>5, AskedOnce
  <1>7. ASSUME alone'[p], ended'[p] \in {"run", "done"}
        PROVE  Taking(p, q)'
    <2>1. ended[p] = "run" /\ ~Abort(p)
      BY <1>7, RanBefore
    <2>2. CASE calls[p] = job[p]
      <3>1. ReadKernelPalette(p)
        <4>1. Current(p).do = "GIO_CMAP" /\ Current(p).set = "none"
          BY <1>3, <2>2, PairKinds
        <4>2. ~Access(p)
          BY <1>4, <4>1
        <4>3. BadLine(p) \/ TellKernel(p) \/ FontProg(p) \/ NextLine(p) \/ Exit(p) =>
                Current(p).do \in {"bad", "PIO_CMAP", "fontprog", "lines", "exit"}
          BY Zenon DEF BadLine, TellKernel, FontProg, NextLine, Exit, Does
        <4> QED
          BY <4>1, <4>2, <4>3 DEF Calls
      <3> QED
        BY <2>1, <2>2, <3>1, TakingFirst
    <2>3. CASE calls[p] # job[p]
      <3>1. alone[p]
        <4>1. \E ends : Acts(p, ends)
          <5>1. CASE Access(p)
            BY <5>1, AccessSteps, Zenon DEF GoOn
          <5>2. CASE ~Access(p)
            BY <5>2, CallsGoOn, Zenon DEF GoOn, StandInv
          <5> QED
            BY <5>1, <5>2
        <4>2. ~Starting(p)
          BY <2>3 DEF Starting
        <4> QED
          BY <1>7, <4>1, <4>2 DEF Acts
      <3>2. Taking(p, q)
        BY <2>1, <2>3, <3>1 DEF PipeHolds
      <3>3. /\ Len(calls[p]) \in 1..3 /\ Current(p) = calls[p][1] /\ ToTake(calls[p])
        BY <1>1, <3>2, ToTakeTail DEF Taking, TypeInv, Running, Current
      <3>4. /\ Len(calls[p]) = 3 => Current(p).do = "rgb"
            /\ Len(calls[p]) = 2 => Current(p) = Call("lines")
            /\ Len(calls[p]) = 1 => Current(p) = Call("PIO_CMAP")
        BY <3>3, Zenon DEF ToTake
      <3>5. Current(p).do \in {"rgb", "lines", "PIO_CMAP"}
            /\ (Current(p).set # "none" => Len(calls[p]) = 3)
        BY <3>3, <3>4, PairKinds
      <3>6. CASE Access(p)
        BY <1>2, <1>4, <3>2, <3>5, <3>6, TakingColour
      <3>7. CASE NextLine(p)
        <4>1. ended[q] \in {"run", "done"}
          BY DEF PipeHolds
        <4> QED
          BY <3>2, <3>7, <4>1, TakingLine
      <3>8. CASE TellKernel(p)
        BY <2>1, <3>2, <3>8, TakingEnd
      <3>9. BadLine(p) \/ ReadKernelPalette(p) \/ FontProg(p) \/ Exit(p) =>
              Current(p).do \in {"bad", "GIO_CMAP", "fontprog", "exit"}
        BY Zenon DEF BadLine, ReadKernelPalette, FontProg, Exit, Does
      <3> QED
        BY <3>5, <3>6, <3>7, <3>8, <3>9 DEF Calls
    <2> QED
      BY <2>2, <2>3
  <1>8. /\ NoSwitch' /\ kills' = 0 /\ ended'[q] \in {"run", "done"}
        /\ \A r \in Programs \ {p, q} : calls'[r] = <<>>
    <2>1. /\ NoSwitch /\ kills = 0 /\ ended[q] \in {"run", "done"}
          /\ \A r \in Programs \ {p, q} : calls[r] = <<>>
      BY DEF PipeHolds
    <2>2. NoSwitch'
      BY <1>1, <2>1 DEF NoSwitch
    <2> QED
      BY <1>1, <1>2, <2>1, <2>2
  <1> QED
    BY <1>6, <1>7, <1>8, Zenon DEF PipeHolds

\* A step of getpalette.
LEMMA WriterSteps ==
  ASSUME TypeInv, TypeInv', StandInv, NEW p \in Programs, NEW q \in Programs, Pair(p, q),
         PipeHolds(p, q), Calls(q)
  PROVE  PipeHolds(p, q)'
  <1>1. /\ UNCHANGED <<bursts, kills, job>> /\ Running(q)
        /\ \A r \in Programs : r # q => calls'[r] = calls[r] /\ ~alone'[r]
    BY CallsLocal
  <1>2. p # q
    BY DEF Pair
  <1>3. /\ NoSwitch /\ kills = 0 /\ ended[q] \in {"run", "done"}
        /\ \A r \in Programs \ {p, q} : calls[r] = <<>>
        /\ calls[p] = job[p] \/ NeverAsks(calls[p])
        /\ calls[p] = job[p] => Reading(q)
    BY DEF PipeHolds
  <1>4. /\ ended'[q] \in {"run", "done"}
        /\ \/ Access(q) /\ Current(q) = Dump(Made(q)) /\ Made(q) \in 0..DacSize - 1
           \/ Exit(q) /\ Made(q) = DacSize
    BY <1>3, ReaderSteps
  <1>5. Reading(q) => Reading(q)'
    BY <1>1, <1>3, <1>4, ReadingByte, ReadingEntry, ReadingEnd
  <1>6. /\ kills' = 0 /\ ~alone'[p]
        /\ \A r \in Programs \ {p, q} : calls'[r] = <<>>
        /\ calls'[p] = job'[p] \/ NeverAsks(calls'[p])
        /\ calls'[p] = job'[p] => Reading(q)'
    BY <1>1, <1>2, <1>3, <1>5
  <1>7. NoSwitch'
    BY <1>1, <1>3 DEF NoSwitch
  <1> QED
    BY <1>4, <1>6, <1>7, Zenon DEF PipeHolds

\* Nothing of the pair changes, and the kernel, if it comes in, leaves the DAC.
LEMMA PipeKept ==
  ASSUME TypeInv, NEW p, NEW q, p \in Programs, PipeHolds(p, q), NoSwitch',
         UNCHANGED <<kpal, local, buf, pipe, kills, was, alone>>, card'.dac = card.dac
  PROVE  PipeHolds(p, q)'
  <1>1. UNCHANGED <<job, calls, pc, got, mine, ended>>
    BY DEF local
  <1>2. Made(q)' = Made(q) /\ (UsesPorts(q)' <=> UsesPorts(q))
    BY <1>1 DEF Made, UsesPorts, Running, Current
  <1>3. Reading(q) => Reading(q)'
    BY <1>1, <1>2 DEF Reading
  <1>4. Taking(p, q) => Taking(p, q)'
    <2>1. Len(calls[p]) \in Nat
      BY DEF TypeInv
    <2> QED
      BY <1>1, <2>1, TakingByte
  <1> QED
    BY <1>1, <1>3, <1>4, Zenon DEF PipeHolds

LEMMA StepPipe == TypeInv /\ TypeInv' /\ StandInv /\ PipeInv /\ [Next]_vars => PipeInv'
  <1> SUFFICES ASSUME TypeInv, TypeInv', StandInv, PipeInv, [Next]_vars,
                      NEW p \in Programs, NEW q \in Programs, Pair(p, q)'
               PROVE  PipeHolds(p, q)'
    BY DEF PipeInv
  <1>1. Pair(p, q)
    BY JobsStay DEF Pair
  <1>2. PipeHolds(p, q)
    BY <1>1 DEF PipeInv
  <1>3. ASSUME NEW r \in Programs, Calls(r)
        PROVE  PipeHolds(p, q)'
    <2>1. r \in {p, q}
      <3>1. Running(r)
        BY <1>3, CallsLocal
      <3> QED
        BY <1>2, <3>1 DEF PipeHolds, Running
    <2> QED
      BY <1>1, <1>2, <1>3, <2>1, TakerSteps, WriterSteps
  <1>4. ASSUME NEW r \in Programs
        PROVE  ~Kill(r)
    BY <1>2 DEF PipeHolds, Kill
  <1>5. ASSUME KernelCursor \/ KernelAttributes \/ KernelFont \/ KernelSwitch
        PROVE  PipeHolds(p, q)'
    <2>1. PICK use, sets, c : Burst(use, sets, c)
      BY <1>5, Zenon DEF KernelCursor, KernelAttributes, KernelFont, KernelSwitch
    <2>2. bursts > 0 /\ UNCHANGED <<kpal, local, buf, pipe, kills, was, alone>>
      BY <2>1 DEF Burst
    <2>3. NoSwitch /\ NoSwitch'
      BY <1>2, <2>2 DEF PipeHolds, NoSwitch
    <2>4. ~KernelSwitch
      BY <2>2, <2>3 DEF KernelSwitch, Burst, NoSwitch
    <2> QED
      BY <1>2, <1>5, <2>2, <2>3, <2>4, KernelLeavesDac, PipeKept
  <1>6. ASSUME UNCHANGED vars
        PROVE  PipeHolds(p, q)'
    <2>1. UNCHANGED <<card, kpal, local, pipe, buf, bursts, kills, was, alone>>
      BY <1>6 DEF vars, history
    <2>2. NoSwitch'
      BY <1>2, <2>1 DEF PipeHolds, NoSwitch
    <2> QED
      BY <1>2, <2>1, <2>2, PipeKept
  <1> QED
    BY <1>3, <1>4, <1>5, <1>6 DEF Next

\* A nonempty set of line numbers has a last.
LEMMA Greatest ==
  ASSUME NEW n \in Nat, NEW S \in SUBSET (1..n), S # {}
  PROVE  Max(S) \in S /\ \A i \in S : i <= Max(S)
  <1> DEFINE R == OpToRel(<, Nat)
             Above == {k \in Nat : \A i \in S : i <= k}
  <1>1. \A x, y \in Nat : x < y => <<x, y>> \in R
    BY DEF OpToRel
  <1>2. IsWellFoundedOn(R, Nat)
    BY Zenon, NatLessThanWellFounded
  <1>3. n \in Above
    OBVIOUS
  <1> HIDE DEF R
  <1>4. PICK k \in Above : \A j \in Above : ~(<<j, k>> \in R)
    BY <1>2, <1>3, WFMin
  <1>5. \A j \in Above : ~(j < k)
    BY <1>1, <1>4
  <1>6. k \in S
    <2> SUFFICES ASSUME k \notin S PROVE FALSE
      OBVIOUS
    <2>1. k # 0
      <3>1. PICK i \in S : i <= k
        BY <1>4
      <3> QED
        BY <3>1
    <2>2. k - 1 \in Above
      BY <1>4, <2>1
    <2> QED
      BY <1>4, <1>5, <2>2
  <1>7. \A i \in S : k >= i
    BY <1>4
  <1> QED
    BY <1>6, <1>7 DEF Max

\* The pipe is empty and the DAC shows the kernel's palette when they start.
LEMMA InitPipe == TypeInv /\ Init => PipeInv
  <1> SUFFICES ASSUME TypeInv, Init, NEW p \in Programs, NEW q \in Programs, Pair(p, q)
               PROVE  PipeHolds(p, q)
    BY DEF PipeInv
  <1>1. PICK j \in Jobs : job = j.calls /\ bursts = j.bursts /\ kills = j.kills
    BY DEF Init
  <1>2. NoSwitch /\ kills = 0
    <2>1. Call("PIO_CMAP") \in ToSet(job[p]) /\ Call("lines") \in ToSet(job[p])
      <3>1. \A k \in 1..Len(SetPalettePipe) : SetPalettePipe[k] \in ToSet(SetPalettePipe)
        BY DEF ToSet
      <3>2. 2 \in 1..Len(SetPalettePipe) /\ 3 \in 1..Len(SetPalettePipe)
        BY PipeCalls
      <3> QED
        BY <3>1, <3>2, PipeCalls DEF Pair
    <2> QED
      BY <1>1, <2>1, PipesAssumption DEF NoSwitch
  <1>3. /\ calls = job /\ pc[q] = 1 /\ buf = <<>> /\ pipe = <<>> /\ card = Switched(FirstCard, kpal)
        /\ ended[q] \in {"run", "done"}
    BY DEF Init
  <1>4. \A i \in Text : card.dac.col[i] = Shown(kpal, i)
    <2>1. kpal \in Palette
      BY DEF TypeInv
    <2> QED
      BY <1>3, <2>1, FirstCardOK, SwitchedColour DEF Shown
  <1>5. Made(q) = 0
    BY <1>3 DEF Made, TypeInv
  <1>6. /\ AllTell(pipe, 0, kpal) /\ AllTell(buf, Len(pipe), kpal)
        /\ Len(pipe) + Len(buf) = 0 /\ ~(0 > DacSize)
    BY <1>3, DacIsLarge DEF AllTell
  <1>7. Reading(q)
    BY <1>3, <1>4, <1>5, <1>6 DEF Reading
  <1>8. \A r \in Programs \ {p, q} : calls[r] = <<>>
    BY <1>3 DEF Pair
  <1> QED
    BY <1>2, <1>3, <1>7, <1>8, Zenon DEF PipeHolds

\* What has been asked for is on the screen and in the kernel.
LEMMA LinesShown ==
  ASSUME TypeInv, StandInv, PaletteInv, NEW p \in Programs, last = p, Paints(p), NEW i \in Text
  PROVE  IF Lines(p, i) = {}
           THEN /\ kpal[AnsiOrder(i)] = Kept(p, was[p][AnsiOrder(i)])
                /\ card.dac.col[i] = DacColour(was[p][AnsiOrder(i)])
           ELSE LET rgb == job[p][Max(Lines(p, i))].rgb IN
                /\ kpal[AnsiOrder(i)] = KernelColour(rgb)
                /\ card.dac.col[i] = [k \in 1..3 |-> rgb[k] % 64]
  <1>1. alone[p] /\ calls[p] = <<>> /\ ended[p] = "done"
    BY DEF StandInv, Stands
  <1>2. job[p] \in Seq(GoodCall) /\ Len(job[p]) \in Nat
    BY DEF TypeInv
  <1>3. Made(p) = Len(job[p]) /\ Len(job[p]) >= 1
    <2>1. job[p] # <<>>
      BY DEF Paints, ToSet
    <2>2. \A s \in Seq(GoodCall) : s # <<>> => Len(s) >= 1
      OBVIOUS
    <2> QED
      BY <1>1, <1>2, <2>1, <2>2 DEF Made
  <1>4. /\ kpal[AnsiOrder(i)] = Wanted(p, i, Len(job[p]))
        /\ card.dac.col[i] = DacColour(kpal[AnsiOrder(i)])
    <2>1. PaletteHolds(p)
      BY DEF PaletteInv
    <2>2. Painted(p, i)
      BY <1>1, <1>3, <2>1 DEF PaletteHolds
    <2> QED
      BY <1>1, <1>3, <2>2 DEF Painted
  <1>5. LinesTo(p, i, Len(job[p])) = Lines(p, i)
    BY <1>2, LinesLast
  <1>6. CASE Lines(p, i) = {}
    BY <1>4, <1>5, <1>6 DEF Wanted, Kept, Paints
  <1>7. CASE Lines(p, i) # {}
    <2> DEFINE m == Max(Lines(p, i))
               rgb == job[p][m].rgb
    <2>1. m \in Lines(p, i)
      <3>1. Lines(p, i) \in SUBSET (1..Len(job[p]))
        BY DEF Lines
      <3> QED
        BY <1>2, <1>7, <3>1, Greatest
    <2> HIDE DEF m
    <2>2. job[p][m] \in GoodCall /\ job[p][m].do = "rgb"
      BY <1>2, <2>1 DEF Lines
    <2>3. rgb \in [1..3 -> Int]
      BY <2>2, GoodCallFacts, CallFacts
    <2>4. kpal[AnsiOrder(i)] = KernelColour(rgb)
      BY <1>4, <1>5, <1>7 DEF Wanted, m
    <2> HIDE DEF rgb
    <2>5. card.dac.col[i] = [k \in 1..3 |-> rgb[k] % 64]
      BY <1>4, <2>3, <2>4, ShownColour
    <2> QED
      BY <1>7, <2>4, <2>5 DEF rgb, m
  <1> QED
    BY <1>6, <1>7

\* Through the pipe every colour comes back, to six bits.
LEMMA PipeShown ==
  ASSUME TypeInv, StandInv, PipeInv, NEW p \in Programs, last = p,
         Call("PIO_CMAP") \in ToSet(job[p]), Call("lines") \in ToSet(job[p]), NEW i \in Text
  PROVE  /\ Lines(p, i) = {}
         /\ kpal[AnsiOrder(i)] = Kept(p, was[p][AnsiOrder(i)])
         /\ card.dac.col[i] = DacColour(was[p][AnsiOrder(i)])
  <1>1. alone[p] /\ calls[p] = <<>> /\ ended[p] = "done"
    BY DEF StandInv, Stands
  <1>2. PICK q \in Programs : Pair(p, q)
    BY PipesAssumption DEF StandInv, Pair
  <1>3. calls[p] # job[p]
    <2>1. Len(calls[p]) = 0 /\ Len(job[p]) = 3
      BY <1>1, <1>2, PipeCalls DEF Pair
    <2>2. \A s, t : s = t => Len(s) = Len(t)
      OBVIOUS
    <2>3. 0 # 3
      OBVIOUS
    <2> QED
      BY <2>1, <2>2, <2>3, Zenon
  <1>4. Taking(p, q)
    BY <1>1, <1>2, <1>3 DEF PipeInv, PipeHolds
  <1>5. Len(calls[p]) = 0
    BY <1>1
  <1>6. /\ kpal[AnsiOrder(i)] = KernelColour(Shown(was[p], i))
        /\ card.dac.col[i] = DacColour(kpal[AnsiOrder(i)])
    <2>1. ~(Len(calls[p]) >= 2)
      BY <1>5
    <2>2. Taken(p)
      BY <1>4, <2>1 DEF Taking
    <2> QED
      BY <1>5, <2>2 DEF Taken
  <1>7. Lines(p, i) = {}
    <2>1. \A k \in 1..Len(SetPalettePipe) : SetPalettePipe[k].do # "rgb"
      <3>1. \A k \in 1..3 : k = 1 \/ k = 2 \/ k = 3
        OBVIOUS
      <3> QED
        BY <3>1, PipeCalls, PairKinds
    <2> QED
      BY <1>2, <2>1 DEF Lines, Pair
  <1>8. DacColour(KernelColour(Shown(was[p], i))) = Shown(was[p], i)
    <2> DEFINE c == Shown(was[p], i)
    <2>1. c \in [1..3 -> 0..63]
      <3>1. was[p][AnsiOrder(i)] \in [1..3 -> Byte]
        BY AnsiIsText DEF TypeInv, Palette
      <3> QED
        BY <3>1, ColourOfByte DEF Shown, Colours
    <2> HIDE DEF c
    <2>2. c \in [1..3 -> Int]
      BY <2>1
    <2>3. DacColour(KernelColour(c)) = [k \in 1..3 |-> c[k] % 64]
      BY <2>2, ShownColour
    <2>4. \A k \in 1..3 : c[k] % 64 = c[k]
      BY <2>1
    <2>5. c = [k \in 1..3 |-> c[k]]
      BY <2>1
    <2>6. DacColour(KernelColour(c)) = c
      BY <2>3, <2>4, <2>5
    <2> QED
      BY <2>6 DEF c
  <1> QED
    BY <1>6, <1>7, <1>8 DEF Kept, Shown

LEMMA ColoursShown == TypeInv /\ StandInv /\ PaletteInv /\ PipeInv => ColoursAsAsked
  <1> SUFFICES ASSUME TypeInv, StandInv, PaletteInv, PipeInv, NEW p \in Programs, last = p,
                      Call("PIO_CMAP") \in ToSet(job[p]), NEW i \in Text
               PROVE  IF Lines(p, i) = {}
                        THEN /\ kpal[AnsiOrder(i)] = Kept(p, was[p][AnsiOrder(i)])
                             /\ card.dac.col[i] = DacColour(was[p][AnsiOrder(i)])
                        ELSE LET rgb == job[p][Max(Lines(p, i))].rgb IN
                             /\ kpal[AnsiOrder(i)] = KernelColour(rgb)
                             /\ card.dac.col[i] = [k \in 1..3 |-> rgb[k] % 64]
    BY DEF ColoursAsAsked
  <1>1. CASE Call("lines") \notin ToSet(job[p])
    <2>1. Paints(p)
      BY <1>1 DEF Paints
    <2> QED
      BY <2>1, LinesShown
  <1>2. CASE Call("lines") \in ToSet(job[p])
    BY <1>2, PipeShown
  <1> QED
    BY <1>1, <1>2

\* setpalette's copy holds what its lines so far asked for, getpalette's lines
\* tell what the kernel's palette shows, and setpalette takes them in the order
\* of the DAC's entries: as long as nobody else makes an access.
THEOREM ToolsPaint == Spec => [](TypeInv /\ StandInv /\ PaletteInv /\ PipeInv)
  <1> DEFINE Inv == TypeInv /\ CallInv /\ StandInv /\ FontInv
             More == PaletteInv /\ PipeInv
  <1>1. Init /\ Inv => More
    BY InitPaints, InitPipe
  <1>2. Inv /\ Inv' /\ More /\ [Next]_vars => More'
    BY StepPaints, StepPipe
  <1>3. Spec => []Inv
    BY ToolsStand
  <1>4. Inv /\ More => TypeInv /\ StandInv /\ PaletteInv /\ PipeInv
    OBVIOUS
  <1> QED
    BY <1>1, <1>2, <1>3, <1>4, PTL DEF Spec

\* When setpalette has told the kernel, and nobody else has used the card since
\* it began, each of the 16 text colours is the one its last line asked for, or
\* the kernel's own, on the screen and in the kernel's palette, whatever console
\* switches come in between; with getpalette's output as its input, the pair by
\* itself, all are the kernel's own to six bits.
THEOREM ToolsColoursAsAsked == Spec => []ColoursAsAsked
  BY ToolsPaint, ColoursShown, PTL
=============================================================================

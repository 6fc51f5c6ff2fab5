---------------------------- MODULE ClockDrivers ----------------------------
(***************************************************************************)
(* The searches of the clock chip drivers (src/XFREE): each looks for the  *)
(* dividers of a phase locked loop that come nearest to a frequency.  A    *)
(* search loop that keeps the first of the best is First over the set of   *)
(* candidates it compares; what it does when there is none is the default. *)
(* Frequencies are in kHz.  The drivers that compute in floating point     *)
(* with a crystal of 14.31818 MHz are modelled with the exact value of     *)
(* that crystal, 157500/11 kHz: they compare frequencies times 11 with     *)
(* multiples of Osc.                                                       *)
(***************************************************************************)
EXTENDS Integers, FiniteSets

Abs(x) == IF x < 0 THEN -x ELSE x
Clamp(x, lo, hi) == IF x < lo THEN lo ELSE IF x > hi THEN hi ELSE x
Osc   == 157500
Quarz == 14318

\* Errors are fractions <<numerator, denominator>>, compared without overflow.
Nearer(a, b) ==
  \/ a[1] \div a[2] < b[1] \div b[2]
  \/ /\ a[1] \div a[2] = b[1] \div b[2]
     /\ (a[1] % a[2]) * b[2] < (b[1] % b[2]) * a[2]
BestOf(c, C, err, at) ==
  \A d \in C : \/ Nearer(err[c], err[d])
               \/ ~Nearer(err[d], err[c]) /\ at[c] <= at[d]
First(C, err, at, default) ==
  IF \E c \in C : BestOf(c, C, err, at)
  THEN CHOOSE c \in C : BestOf(c, C, err, at)
  ELSE default

\* The nearest are among those nearer than d, if there are any: this only
\* shortens the search.
Narrow(C, off(_), d) == LET N == {c \in C : off(c) < d} IN IF N = {} THEN C ELSE N

\* "Double until it is in the range of the VCO, at most n times."
Doublings(f, low, n) ==
  CHOOSE p \in 0..n : /\ p = n \/ f * 2^p >= low
                      /\ \A q \in 0..(p - 1) : f * 2^q < low

(***************************************************************************)
(* S3gendac.c: GENDACs and the Trio.  f = m / (n1 * 2^n2) * crystal, with  *)
(* the VCO, m / n1, inside the limits of the chip.                         *)
(***************************************************************************)
S3Gendac    == [min |-> 0, max |-> 3, low |-> 100000, high |-> 250000]
Gendac      == [min |-> 0, max |-> 3, low |-> 100000, high |-> 270000]
ICS5342     == [min |-> 1, max |-> 3, low |-> 100000, high |-> 250000]
S3Trio      == [min |-> 0, max |-> 3, low |-> 135000, high |-> 270000]
ET6000MClk  == [min |-> 1, max |-> 1, low |-> 100000, high |-> 270000]

GendacM(f, n1, n2) == (22 * f * n1 * 2^n2 + Osc) \div (2 * Osc)
GendacVcoOk(l, m, n1) == 11 * n1 * l.low <= Osc * m /\ Osc * m <= 11 * n1 * l.high
GendacSet(f, l) ==
  {c \in {[m |-> GendacM(f, s[1], s[2]), n1 |-> s[1], n2 |-> s[2]] : s \in (3..33) \X (l.min..l.max)} :
     c.m \in 3..129 /\ GendacVcoOk(l, c.m, c.n1)}
GendacClamp(freq, l) == Clamp(freq, l.low \div 2^(l.max), l.high \div 2^(l.min))
CommonCalcClock(freq, l) ==
  LET f == GendacClamp(freq, l)
      C == GendacSet(f, l)
      b == First(C, [c \in C |-> <<Abs(11 * f * c.n1 * 2^c.n2 - Osc * c.m), c.n1 * 2^c.n2>>],
                 [c \in C |-> 64 * c.n2 + c.n1], [m |-> 127, n1 |-> 18, n2 |-> 2])
  IN [m |-> b.m - 2, n |-> b.n1 - 2 + 32 * b.n2]
GendacMNToClock(m, n) == ((Quarz * (m + 2)) \div ((n % 32) + 2)) \div 2^((n \div 32) % 4)

(***************************************************************************)
(* Ti3026clk.c and Ti3025clk.c.  The VCO at 110 to 220 MHz is divided by   *)
(* 2^p; it is 8 * M / K times the crystal.                                 *)
(***************************************************************************)
TiVco(f, p) == f * 2^p
TiM(F, K, lo, hi) == Clamp((22 * F * K + 8 * Osc) \div (16 * Osc), lo, hi)
TiBest(F, Ks, lo, hi, default) ==
  LET C == {[M |-> TiM(F, K, lo, hi), K |-> K] : K \in Ks}
  IN First(C, [c \in C |-> <<Abs(8 * Osc * c.M - 11 * F * c.K), c.K>>], [c \in C |-> c.K], default)
Ti3026Calc(freq) ==
  LET f == Clamp(freq, 13767, 220000)
      p == Doublings(f, 110000, 4)
      b == TiBest(TiVco(f, p), 3..25, 3, 64, [M |-> 33, K |-> 33])
  IN [n |-> 65 - b.K, m |-> 65 - b.M, p |-> p]
Ti3026Clock(n, m, p) == ((Osc * 8 * (65 - m)) \div (11 * (65 - n))) \div 2^p
\* The post divider of the loop clock, for a 64 bit bus of one byte pixels.
Ti3026LoopP(freq) == Doublings(200, 11000000 \div freq, 10)
Ti3025Calc(freq) ==
  LET f == Clamp(freq, 12000, 220000)
      p == Doublings(f, 110000, 3)
      b == TiBest(TiVco(f, p), 3..28, 3, 129, [M |-> 34, K |-> 34])
  IN [n |-> b.K - 2, m |-> b.M - 2, p |-> p]
Ti3025Clock(n, m, p) == ((Osc * 8 * (m + 2)) \div (11 * (n + 2))) \div 2^p

(***************************************************************************)
(* IBMRGB.c: f = (m + 65) / n / 2^(3 - df) * the reference of the card,    *)
(* which the configuration file has to give.                               *)
(***************************************************************************)
IBMMinDf(freq, dacspeed) ==
  IF freq <= dacspeed \div 4 THEN 0 ELSE IF freq <= dacspeed \div 2 THEN 1 ELSE 2
IBMMaxN(df, fref) == LET n == IF df < 3 THEN fref \div 2000 ELSE fref \div 1000
                     IN IF n > 31 THEN 31 ELSE n
IBMM(f, n, df, fref) == Clamp((2 * f * n * 2^(3 - df) + fref) \div (2 * fref) - 65, 0, 63)
IBMSet(freq, f, dacspeed, fref) ==
  {[m |-> IBMM(f, s[1], s[2], fref), n |-> s[1], df |-> s[2]] :
     s \in {s \in (2..31) \X (IBMMinDf(freq, dacspeed)..3) : s[1] <= IBMMaxN(s[2], fref)}}
IBMRGBCalc(freq, dacspeed, fref) ==
  LET f == IF freq < 16250 THEN 16250 ELSE IF freq > dacspeed THEN dacspeed ELSE freq
      C == IBMSet(freq, f, dacspeed, fref)
  IN First(C, [c \in C |-> <<Abs((c.m + 65) * fref - f * c.n * 2^(3 - c.df)), c.n * 2^(3 - c.df)>>],
           [c \in C |-> 32 * c.df + c.n], [m |-> 69, n |-> 17, df |-> 0])
IBMRGBClock(m, n, df, fref) == ((m + 65) * fref) \div (n * 2^(3 - df))

(***************************************************************************)
(* STG1703clk.c: of seven dividers the one that leaves the smallest        *)
(* remainder, the last of these.                                           *)
(***************************************************************************)
STGSet(F) ==
  {c \in {[q |-> (F * (a + 2) - 2 * Quarz) \div Quarz, rest |-> (F * (a + 2)) % Quarz, a |-> a] : a \in 6..12} :
     c.q <= 127}
STG1703CalcProgramWord(freq) ==
  LET f == Clamp(freq, 8500, 135000)
      d == Doublings(f, 68000, 3)
      C == STGSet(f * 2^d)
      b == First(C, [c \in C |-> <<c.rest, 1>>], [c \in C |-> -c.a], [q |-> 0, a |-> 0])
  IN [m |-> b.q, n |-> 32 * d + b.a]
STG1703Clock(m, n) == ((Quarz * (m + 2)) \div ((n % 32) + 2)) \div 2^((n \div 32) % 4)

(***************************************************************************)
(* Ch8391clk.c: f = (n + 8) / (m + 2) / 2^k * crystal; some n may not be   *)
(* used.                                                                   *)
(***************************************************************************)
Restricted == 10..15 \cup 19..23 \cup 28..31 \cup 37..39 \cup {46, 47, 51}
ChrontelMs(F, n) == LET m0 == (Osc * (n + 8)) \div (11 * F) - 2 IN (m0 - 1)..(m0 + 1)
ChrontelNs(F) == (LET a == (33 * F) \div Osc - 9 IN IF a < 8 THEN 8 ELSE a)..
                 (LET a == (374 * F) \div Osc - 7 IN IF a > 255 THEN 255 ELSE a)
ChrontelSet(F) ==
  {c \in UNION {[n : {n}, m : ChrontelMs(F, n)] : n \in ChrontelNs(F) \ Restricted} : c.m \in 1..31}
Chrontel8391Calc(freq) ==
  LET f == Clamp(freq, 8500, 135000)
      k == Doublings(f, 67501, 4)
      F == f * 2^k
      C == ChrontelSet(F)
      b == First(C, [c \in C |-> <<Abs(Osc * (c.n + 8) - 11 * F * (c.m + 2)), c.m + 2>>],
                 [c \in C |-> 32 * c.n + c.m], [n |-> 0, m |-> 0])
  IN [n |-> b.n, m |-> b.m, k |-> k]
ChrontelClock(n, m, k) == ((Osc * (n + 8)) \div (11 * (m + 2))) \div 2^k

(***************************************************************************)
(* TGUIclk.c: every divider, as long as it is nearer than 500 kHz.         *)
(***************************************************************************)
TGUIClock(n, m, k) == (Osc * (n + 8)) \div (11 * (m + 2) * k)
TGUISet(freq, cyber) ==
  {c \in [n : IF cyber THEN 64..254 ELSE 1..121, m : 1..(IF cyber THEN 63 ELSE 31),
          k : (IF freq < 16000 THEN 2 ELSE 1)..(IF freq > 75000 THEN 1 ELSE 2)] :
     Abs(TGUIClock(c.n, c.m, c.k) - freq) < 500}
TGUICalc(freq, cyber) ==
  LET off(c) == Abs(TGUIClock(c.n, c.m, c.k) - freq)
      C == Narrow(TGUISet(freq, cyber), off, 50)
  IN First(C, [c \in C |-> <<off(c), 1>>],
           [c \in C |-> (1024 * c.k + c.n) * 64 + c.m], [n |-> 0, m |-> 0, k |-> 0])

(***************************************************************************)
(* CirrusClk.c: a tested clock within 0.1%, or the nearest that keeps the  *)
(* VCO stable.                                                             *)
(***************************************************************************)
ClockFactor == 28636
CirrusTab == << <<44, 51>>, <<74, 43>>, <<91, 47>>, <<69, 48>>, <<126, 51>>, <<66, 31>>, <<81, 58>>,
                <<85, 54>>, <<101, 58>>, <<118, 52>>, <<126, 50>>, <<110, 42>>, <<95, 34>>, <<125, 42>>,
                <<88, 28>>, <<73, 22>>, <<70, 20>>, <<83, 22>>, <<92, 24>> >>
Vcoval(n, d) == (n * ClockFactor) \div (d - (d % 2))
Clockval(n, d) == Vcoval(n, d) \div 2^(d % 2)
Tested(freq) ==
  {i \in DOMAIN CirrusTab : Abs(Clockval(CirrusTab[i][1], CirrusTab[i][2]) - freq) < freq \div 1000}
CirrusSet == {c \in [n : 16..126, d : 20..62] : Vcoval(c.n, c.d) \in ClockFactor..111000}
CirrusFindClock(freq) ==
  IF Tested(freq) # {}
  THEN LET i == CHOOSE i \in Tested(freq) : \A j \in Tested(freq) : i <= j
       IN [n |-> CirrusTab[i][1], d |-> CirrusTab[i][2]]
  ELSE LET off(c) == Abs(Clockval(c.n, c.d) - freq)
           C == Narrow(CirrusSet, off, 50)
       IN First(C, [c \in C |-> <<off(c), 1>>], [c \in C |-> 64 * c.n + c.d], [n |-> 0, d |-> 0])

(***************************************************************************)
(* SC11412.c and ICS2595.c: chips programmed bit by bit, that refuse what  *)
(* their VCO cannot do.                                                    *)
(***************************************************************************)
Refused == [refused |-> TRUE]
SC11412Post(freq) ==
  CASE freq < 11250 -> 3 [] freq \in 11250..22499 -> 2 [] freq \in 22500..44999 -> 1 [] OTHER -> 0
SC11412T1(F, n) == (Quarz * 1000 * n) \div F
SC11412Set(F) ==
  {c \in {[n |-> n, m |-> (SC11412T1(F, n) + 500) \div 1000] : n \in 3..127} : c.m \in 2..127}
SC11412Calc(freq) ==
  LET d == SC11412Post(freq)
      F == freq * 2^d
      C == SC11412Set(F)
      b == First(C, [c \in C |-> <<(Abs(SC11412T1(F, c.n) - 1000 * c.m) * 127) \div c.n, 1>>],
                 [c \in C |-> c.n], [n |-> 3, m |-> 2])
  IN IF F \in 45000..100000 THEN [n |-> b.n, m |-> b.m, d |-> d] ELSE Refused
SC11412Clock(n, m, d) == ((n * Quarz) \div m) \div 2^d

ICS2595Post(freq) ==
  CASE freq < 19998 -> 0 [] freq \in 19998..39996 -> 1 [] freq \in 39997..79993 -> 2 [] OTHER -> 3
ICS2595Calc(freq) ==
  LET d == ICS2595Post(freq)
      F == freq * 2^(3 - d)
      n == (F * 46) \div Quarz
  IN IF freq <= 145000 /\ F >= 79994
     THEN [n |-> IF n < 257 THEN n ELSE IF n - 257 >= 256 THEN 255 ELSE n - 257, d |-> d]
     ELSE Refused
ICS2595Clock(n, d) == ((n + 257) * Quarz) \div (46 * 2^(3 - d))

(***************************************************************************)
(* I2061Aalt.c: f = p / q * 2 * crystal / 2^m with the VCO at 50 to 120    *)
(* MHz.  The word says in which of 14 ranges the VCO is; of two settings   *)
(* equally near the loop keeps the one nearer to the middle of its range.  *)
(***************************************************************************)
VcoRange == <<50000, 51000, 53200, 58500, 60700, 64400, 66800, 73500,
              75600, 80900, 83200, 91500, 100000, 120000, 120000>>
RangeOf(v) == CHOOSE i \in 1..14 : VcoRange[i] <= v /\ \A j \in (i + 1)..14 : v < VcoRange[j]
OffMiddle(v) == (Abs(2 * v - VcoRange[RangeOf(v)] - VcoRange[RangeOf(v) + 1]) * 500) \div v
ICDSet(f) ==
  {c \in UNION {{[p |-> (22 * f * 2^m * q + 2 * Osc) \div (4 * Osc), q |-> q, m |-> m] : q \in 14..71} :
                m \in {m \in 0..7 : f * 2^m \in 50000..120000}} : c.p \in 4..130}
AltICD2061CalcClock(freq) ==
  LET f == Clamp(freq, 7000, 120000)
      C == ICDSet(f)
      b == First(C, [c \in C |-> <<Abs(2 * Osc * c.p - 11 * f * 2^c.m * c.q), c.q>>],
                 [c \in C |-> (OffMiddle(f * 2^c.m) * 8 + c.m) * 128 + c.q], [p |-> 0, q |-> 0, m |-> 0])
  IN [i |-> RangeOf(f * 2^b.m) - 1, p |-> b.p - 3, m |-> b.m, q |-> b.q - 2]
ICD2061Clock(p, m, q) == ((2 * Osc * (p + 3)) \div (11 * (q + 2))) \div 2^m

(***************************************************************************)
(* mga_clock.c.  The Mystique's own loop is searched exhaustively; for the *)
(* TVP3026 of the Millennium M is cut off and the smallest rest wins.      *)
(***************************************************************************)
Unset == [unset |-> TRUE]
MidCalcFreq(reff, m, n, p) == ((reff * (n + 1)) \div (m + 1)) \div (p + 1)
MidReff(g2) == IF g2 THEN 27051 ELSE 14318
MidSet(freq, g2) ==
  [n : (IF g2 THEN 7 ELSE 100)..127, m : 1..(IF g2 THEN 6 ELSE 31),
   p : {pt - 1 : pt \in {pt \in {1, 2, 4, 8} : freq * pt \in 50001..219999}}]
MidCalcMNPS(freq, g2) ==
  LET off(c) == Abs(MidCalcFreq(MidReff(g2), c.m, c.n, c.p) - freq)
      C == Narrow(MidSet(freq, g2), off, 50)
      b == First(C, [c \in C |-> <<off(c), 1>>],
                 [c \in C |-> ((c.p * 128) + 127 - c.n) * 32 + c.m], Unset)
      v == freq * (b.p + 1)
  IN IF b = Unset THEN Unset
     ELSE [m |-> b.m, n |-> b.n, p |-> b.p,
           s |-> IF v > 180000 THEN 3 ELSE IF v > 140000 THEN 2 ELSE IF v > 100000 THEN 1 ELSE 0]

MGATi3026Set(F) ==
  {c \in {[M |-> (11 * F * K) \div (8 * Osc), K |-> K, rest |-> (11 * F * K) % (8 * Osc)] : K \in 3..25} :
     c.M >= 3 /\ (c.M < 64 \/ (c.M = 64 /\ c.rest = 0))}
MGATi3026CalcClock(freq, max) ==
  LET f == Clamp(freq, 13750, max)
      p == Doublings(f, 110000, 3)
      C == MGATi3026Set(f * 2^p)
      b == First(C, [c \in C |-> <<c.rest, 1>>], [c \in C |-> c.K], [M |-> 0, K |-> 0])
  IN [n |-> 65 - b.K, m |-> 65 - b.M, p |-> p]

(***************************************************************************)
(* riva128_clock.c: one loop, on the later chips with a second one fixed   *)
(* at times four.  If no divider fits, m, n and p stay unset.              *)
(***************************************************************************)
RivaClock(crystal, m, n, p) == ((crystal * n) \div m) \div 2^p
RivaSet(freq, crystal, Ms, Ps, vco, Ns) ==
  {c \in {[m |-> s[1], n |-> (freq * 2^(s[2]) * s[1]) \div crystal, p |-> s[2]] :
          s \in Ms \X {p \in Ps : freq * 2^p \in vco}} : c.n \in Ns}
RivaBest(freq, crystal, C) ==
  First(C, [c \in C |-> <<Abs(RivaClock(crystal, c.m, c.n, c.p) - freq), 1>>],
        [c \in C |-> 16 * c.p + c.m], Unset)
CalcVClock(freq, crystal, nv3, max) ==
  LET low == IF crystal = 14318 THEN 8 ELSE 7
  IN RivaBest(freq, crystal, RivaSet(freq, crystal, low..(low + 6 - nv3), 0..(4 - nv3), 128000..max, 0..255))
CalcVClock2Stage(freq, crystal) ==
  RivaBest(freq, 4 * crystal, RivaSet(freq, 4 * crystal, 1..13, 0..6, 400000..1000000, 5..255))

\* nvidia_pci_ids but for the RIVA128, which has the other vendor's: sixteen
\* device ids to a family.
Ids(family, low) == {16 * family + i : i \in low}
NvidiaIds ==
  Ids(2, {0} \cup 8..15) \cup Ids(9, {1, 2, 9, 13}) \cup Ids(10, {0}) \cup Ids(15, 0..3 \cup 8..15)
  \cup Ids(16, {0, 1, 3}) \cup Ids(17, 0..3) \cup Ids(20, 0..2 \cup 4..9 \cup 14..15) \cup Ids(21, 0..3)
  \cup Ids(22, {1, 2} \cup 4..8) \cup Ids(23, 0..10 \cup 12..13) \cup Ids(24, 1..3 \cup 6..11)
  \cup Ids(26, {0}) \cup Ids(31, {0}) \cup Ids(32, 0..3) \cup Ids(33, {1, 2, 5}) \cup Ids(34, {1})
  \cup Ids(37, 0..3 \cup {8, 9, 11}) \cup Ids(40, 0..2 \cup {6, 8, 9, 12})
  \cup Ids(48, {1, 2, 8, 9}) \cup Ids(49, 1..4 \cup {6, 7} \cup 10..15)
  \cup Ids(50, 1..5 \cup 8..13 \cup {15}) \cup Ids(51, 0..4 \cup {8})
  \cup Ids(52, 1..3 \cup 7..9 \cup {11, 12, 14, 15})

\* get_gpu_arch; family 15 are bridged cards of all sorts.
GpuArch(id) ==
  LET family == (id \div 16) % 256
  IN CASE family = 2                            -> "NV5"
       [] family \in {16, 17, 21, 26}           -> "NV10"
       [] family \in {23, 24, 31}               -> "NV17"
       [] family = 32                           -> "NV20"
       [] family \in {37, 40, 50}               -> "NV25"
       [] family = 48                           -> "NV30"
       [] family \in {49, 52}                   -> "NV31"
       [] family = 51                           -> "NV35"
       [] family \in {4, 18, 19, 29, 33, 35}    -> "NV40"
       [] family = 12                           -> "NV41"
       [] family = 20                           -> "NV43"
       [] family \in {22, 34}                   -> "NV44"
       [] family = 9                            -> "NV47"
       [] id \in {240, 249}                     -> "NV40"
       [] id \in 241..243                       -> "NV43"
       [] id = 250                              -> "NV31"
       [] id \in {248, 251, 254}                -> "NV35"
       [] id \in {252, 253, 255}                -> "NV25"
       [] OTHER                                 -> "UNKNOWN"

NV4X == {"NV40", "NV41", "NV43", "NV44", "NV47"}
TwoStage(id) == GpuArch(id) \in {"NV31", "NV35"} \cup NV4X
\* The chips that may have a third crystal.
HasStrap22(id) == GpuArch(id) \in {"NV17", "NV20", "NV25", "NV30", "NV31", "NV35"} \cup NV4X
RivaCrystal(card) ==
  IF ~card.nv3 /\ card.strap22 /\ HasStrap22(card.id) THEN 27000
  ELSE IF card.strap6 THEN 14318 ELSE 13500
\* (Strap 5 on a RIVA128.)
RivaCalc(freq, card) ==
  IF card.nv3 THEN CalcVClock(freq, RivaCrystal(card), 1, 230000)
  ELSE IF TwoStage(card.id) THEN CalcVClock2Stage(freq, RivaCrystal(card))
  ELSE CalcVClock(freq, RivaCrystal(card), 0, 350000)

(***************************************************************************)
(* mach64.c: f = 2 * R * N / (M * post divider), M, R and the limits from  *)
(* the BIOS, in units of 10 kHz.  q / 2R is the feedback divider before    *)
(* the post divider; one set of chips has the post dividers 3, 6 and 12.   *)
(***************************************************************************)
Mach64Posts(q, R, certain) ==
  IF certain THEN
    CASE q > 255 * R                          -> [P |-> 0, post |-> 1, ext |-> 0]
      [] q > 170 * R /\ q <= 255 * R          -> [P |-> 1, post |-> 2, ext |-> 0]
      [] 2 * q > 255 * R /\ q <= 170 * R      -> [P |-> 0, post |-> 3, ext |-> 1]
      [] q > 85 * R /\ 2 * q <= 255 * R       -> [P |-> 2, post |-> 4, ext |-> 0]
      [] 4 * q > 255 * R /\ q <= 85 * R       -> [P |-> 2, post |-> 6, ext |-> 1]
      [] 2 * q > 85 * R /\ 4 * q <= 255 * R   -> [P |-> 3, post |-> 8, ext |-> 0]
      [] 2 * q <= 85 * R                      -> [P |-> 3, post |-> 12, ext |-> 1]
  ELSE LET P == IF q > 255 * R THEN 0 ELSE IF 2 * q > 255 * R THEN 1 ELSE IF 4 * q > 255 * R THEN 2 ELSE 3
       IN [P |-> P, post |-> 2^P, ext |-> 0]
Mach64Q(freq, M, R, min, max, certain) ==
  LET q == Clamp(freq \div 10, min, max) * M
  IN IF q > 510 * R THEN 510 * R ELSE IF ~certain /\ q < 32 * R THEN 32 * R ELSE q
Mach64Calc(freq, M, R, min, max, certain) ==
  LET q == Mach64Q(freq, M, R, min, max, certain)
      d == Mach64Posts(q, R, certain)
  IN [N |-> (q * d.post + R) \div (2 * R), P |-> d.P, ext |-> d.ext]
Mach64Post(P, ext) == IF ext = 0 THEN 2^P ELSE IF P = 0 THEN 3 ELSE 3 * 2^(P - 1)
Mach64Clock(N, P, ext, M, R) == (20 * R * N) \div (M * Mach64Post(P, ext))

\* ATIDivide: (n / d) * 2^shift rounded up or down; right shifts first take
\* out of n what (n - 1) ^ n has in common with the power of two.
LowBit(n) == LET k == CHOOSE k \in 0..30 : n % 2^k = 0 /\ n % 2^(k + 1) # 0 IN 2^k
ATIDivide(n, d, shift, up) ==
  LET power == 2^(-shift)
      common == IF 2 * LowBit(n) - 1 > power THEN power ELSE 2 * LowBit(n) - 1
      a == IF shift < 0 THEN n \div common ELSE n
      b == IF shift < 0 THEN d * (power \div common) ELSE d
      times == IF shift < 0 THEN 1 ELSE 2^shift
  IN (a \div b) * times + ((a % b) * times + (IF up THEN b - 1 ELSE 0)) \div b

\* The display FIFO: mem is the memory's clock and timing, q its feedback
\* divider times the pixel clock's dividers, over d.
DspDepth(certain) == IF certain THEN 24 ELSE 32
DspPageFault(mem, certain) ==
  mem.trcd + mem.tcrd + mem.trp + 2 + (IF certain THEN 2 ELSE 0)
  + (CASE mem.type = "DRAM" -> 2 [] mem.type \in {"EDO", "SDRAM"} -> 1 [] OTHER -> 3)
DspRas(mem, certain) ==
  LET ras == mem.tras + mem.trp + 2 + (IF certain THEN 3 ELSE 0)
  IN IF ras <= DspPageFault(mem, certain) THEN DspPageFault(mem, certain) + 1 ELSE ras
DspLatency(mem) == CASE mem.type \in {"DRAM", "EDO", "SGRAM"} -> 8 [] mem.type = "SDRAM" -> 10 [] OTHER -> 11
XclkPost(mem) == (IF mem.source = 4 THEN 0 ELSE mem.source) - mem.times4
XclkReference(mem, M) == IF mem.source = 4 THEN 3 * M ELSE M

DspPrecision(t) == CHOOSE p \in 0..7 :
  /\ p > 0 => t >= 2^(p + 4)
  /\ p < 7 => t < 2^(p + 5)
DspOn(q, d, vshift, xshift, mem, certain) ==
  LET ras == ATIDivide(DspRas(mem, certain), 1, xshift, TRUE)
      on == ATIDivide(q, d, vshift, FALSE)
  IN IF xshift > 3 THEN ATIDivide(5 * q, d, vshift + 2, FALSE)
     ELSE (IF on < ras THEN ras ELSE on) + ras + ATIDivide(DspPageFault(mem, certain), 1, xshift, TRUE)
\* What the two registers get; the first threshold has eleven bits.
Mach64Dsp(N, post, M, width, mem, certain) ==
  LET q == M * mem.fb * post
      d == N * XclkReference(mem, M)
      v == 3 - XclkPost(mem)
      p == DspPrecision(ATIDivide(q * DspDepth(certain), d, v, TRUE))
      x == 6 - p
  IN [precision |-> p, latency |-> DspLatency(mem),
      on |-> (DspOn(q, d, v + x, x, mem, certain) * 2^p) % 2048,
      off |-> ATIDivide(q * (DspDepth(certain) - 1), d, v + x, TRUE) % 2048,
      xclks |-> ATIDivide((q * width) \div 8, d, v + x + 5, TRUE) % 16384]
=============================================================================

-------------------------- MODULE ClockChipsProofs --------------------------
(***************************************************************************)
(* What a run leaves of the gates it opened and of the memory's clock, for *)
(* every clock chip, frequency and MClk line.                              *)
(***************************************************************************)
EXTENDS ClockChips, TLAPS

-----------------------------------------------------------------------------
(* Scripts are put together of single writes and of shorter scripts.       *)

IsScript(s) == \E S : s \in Seq(S)

\* The writes of s are to registers of R.
Within(s, R) == IsScript(s) /\ \A i \in 1..Len(s) : DOMAIN s[i] \subseteq R

\* The last write to x is one of v to x alone.
Ends(s, x, v) ==
  /\ IsScript(s)
  /\ \E i \in 1..Len(s) : /\ s[i] = (x :> v)
                          /\ \A j \in 1..Len(s) : j > i => x \notin DOMAIN s[j]
Quiet(s, x) == IsScript(s) /\ \A i \in 1..Len(s) : x \notin DOMAIN s[i]
Settled(s, x, v) == Quiet(s, x) \/ Ends(s, x, v)

LEMMA OneWrite ==
  ASSUME NEW w
  PROVE  IsScript(<<w>>) /\ Len(<<w>>) = 1 /\ <<w>>[1] = w
  <1>1. <<w>> \in Seq({w})
    OBVIOUS
  <1> QED
    BY <1>1 DEF IsScript

LEMMA NoWrite ==
  IsScript(<<>>) /\ Len(<<>>) = 0
  <1>1. <<>> \in Seq({})
    OBVIOUS
  <1> QED
    BY <1>1 DEF IsScript

LEMMA Cat ==
  ASSUME NEW s, NEW t, IsScript(s), IsScript(t)
  PROVE  /\ IsScript(s \o t)
         /\ Len(s) \in Nat /\ Len(t) \in Nat
         /\ Len(s \o t) = Len(s) + Len(t)
         /\ \A i \in 1..Len(s \o t) : (s \o t)[i] = IF i <= Len(s) THEN s[i] ELSE t[i - Len(s)]
  <1>1. PICK S : s \in Seq(S)
    BY DEF IsScript
  <1>2. PICK T : t \in Seq(T)
    BY DEF IsScript
  <1> DEFINE U == S \cup T
  <1>3. s \in Seq(U) /\ t \in Seq(U)
    BY <1>1, <1>2
  <1> HIDE DEF U
  <1>4. s \o t \in Seq(U)
    BY <1>3
  <1> QED
    BY <1>3, <1>4 DEF IsScript

LEMMA HeadAndTail ==
  ASSUME NEW s, IsScript(s), s # <<>>
  PROVE  /\ IsScript(Tail(s)) /\ Len(s) \in Nat \ {0} /\ Len(Tail(s)) = Len(s) - 1
         /\ Head(s) = s[1]
         /\ \A i \in 1..Len(Tail(s)) : Tail(s)[i] = s[i + 1]
  <1>1. PICK S : s \in Seq(S)
    BY DEF IsScript
  <1>2. Tail(s) \in Seq(S) /\ Len(s) \in Nat \ {0}
    BY <1>1
  <1> QED
    BY <1>1, <1>2 DEF IsScript

LEMMA WithinWrite ==
  ASSUME NEW x, NEW v, NEW R, x \in R
  PROVE  Within(W(x, v), R)
  BY OneWrite DEF Within, W, :>

LEMMA WithinNone ==
  ASSUME NEW R
  PROVE  Within(<<>>, R)
  BY NoWrite DEF Within

LEMMA WithinCat ==
  ASSUME NEW s, NEW t, NEW R, Within(s, R), Within(t, R)
  PROVE  Within(s \o t, R)
  <1>1. /\ IsScript(s \o t)
        /\ Len(s) \in Nat /\ Len(t) \in Nat
        /\ Len(s \o t) = Len(s) + Len(t)
        /\ \A i \in 1..Len(s \o t) : (s \o t)[i] = IF i <= Len(s) THEN s[i] ELSE t[i - Len(s)]
    BY Cat DEF Within
  <1>2. ASSUME NEW i \in 1..Len(s \o t)
        PROVE  DOMAIN (s \o t)[i] \subseteq R
    <2>1. CASE i <= Len(s)
      BY <1>1, <2>1 DEF Within
    <2>2. CASE ~(i <= Len(s))
      <3>1. i - Len(s) \in 1..Len(t) /\ (s \o t)[i] = t[i - Len(s)]
        BY <1>1, <2>2
      <3> QED
        BY <3>1 DEF Within
    <2> QED
      BY <2>1, <2>2
  <1> QED
    BY <1>1, <1>2 DEF Within

LEMMA WithinQuiet ==
  ASSUME NEW s, NEW R, NEW x, Within(s, R), x \notin R
  PROVE  Quiet(s, x)
  BY DEF Within, Quiet

LEMMA QuietCat ==
  ASSUME NEW s, NEW t, NEW x, Quiet(s, x), Quiet(t, x)
  PROVE  Quiet(s \o t, x)
  <1>1. /\ IsScript(s \o t)
        /\ Len(s) \in Nat /\ Len(t) \in Nat
        /\ Len(s \o t) = Len(s) + Len(t)
        /\ \A i \in 1..Len(s \o t) : (s \o t)[i] = IF i <= Len(s) THEN s[i] ELSE t[i - Len(s)]
    BY Cat DEF Quiet
  <1>2. ASSUME NEW i \in 1..Len(s \o t)
        PROVE  x \notin DOMAIN (s \o t)[i]
    <2>1. CASE i <= Len(s)
      BY <1>1, <2>1 DEF Quiet
    <2>2. CASE ~(i <= Len(s))
      <3>1. i - Len(s) \in 1..Len(t) /\ (s \o t)[i] = t[i - Len(s)]
        BY <1>1, <2>2
      <3> QED
        BY <3>1 DEF Quiet
    <2> QED
      BY <2>1, <2>2
  <1> QED
    BY <1>1, <1>2 DEF Quiet

LEMMA EndsWrite ==
  ASSUME NEW x, NEW v
  PROVE  Ends(W(x, v), x, v)
  BY OneWrite DEF Ends, W

\* What comes before does not matter, nor what comes after and leaves x alone.
LEMMA EndsAfter ==
  ASSUME NEW s, NEW t, NEW x, NEW v, IsScript(s), Ends(t, x, v)
  PROVE  Ends(s \o t, x, v)
  <1>1. /\ IsScript(s \o t)
        /\ Len(s) \in Nat /\ Len(t) \in Nat
        /\ Len(s \o t) = Len(s) + Len(t)
        /\ \A i \in 1..Len(s \o t) : (s \o t)[i] = IF i <= Len(s) THEN s[i] ELSE t[i - Len(s)]
    BY Cat DEF Ends
  <1>2. PICK i \in 1..Len(t) : /\ t[i] = (x :> v)
                               /\ \A j \in 1..Len(t) : j > i => x \notin DOMAIN t[j]
    BY DEF Ends
  <1>3. i + Len(s) \in 1..Len(s \o t) /\ (s \o t)[i + Len(s)] = (x :> v)
    BY <1>1, <1>2
  <1>4. ASSUME NEW j \in 1..Len(s \o t), j > i + Len(s)
        PROVE  x \notin DOMAIN (s \o t)[j]
    <2>1. j - Len(s) \in 1..Len(t) /\ j - Len(s) > i /\ (s \o t)[j] = t[j - Len(s)]
      BY <1>1, <1>4
    <2> QED
      BY <1>2, <2>1
  <1> QED
    BY <1>1, <1>3, <1>4 DEF Ends

LEMMA EndsBefore ==
  ASSUME NEW s, NEW t, NEW x, NEW v, Ends(s, x, v), Quiet(t, x)
  PROVE  Ends(s \o t, x, v)
  <1>1. /\ IsScript(s \o t)
        /\ Len(s) \in Nat /\ Len(t) \in Nat
        /\ Len(s \o t) = Len(s) + Len(t)
        /\ \A i \in 1..Len(s \o t) : (s \o t)[i] = IF i <= Len(s) THEN s[i] ELSE t[i - Len(s)]
    BY Cat DEF Ends, Quiet
  <1>2. PICK i \in 1..Len(s) : /\ s[i] = (x :> v)
                               /\ \A j \in 1..Len(s) : j > i => x \notin DOMAIN s[j]
    BY DEF Ends
  <1>3. i \in 1..Len(s \o t) /\ (s \o t)[i] = (x :> v)
    BY <1>1, <1>2
  <1>4. ASSUME NEW j \in 1..Len(s \o t), j > i
        PROVE  x \notin DOMAIN (s \o t)[j]
    <2>1. CASE j <= Len(s)
      BY <1>1, <1>2, <1>4, <2>1
    <2>2. CASE ~(j <= Len(s))
      <3>1. j - Len(s) \in 1..Len(t) /\ (s \o t)[j] = t[j - Len(s)]
        BY <1>1, <2>2
      <3> QED
        BY <3>1 DEF Quiet
    <2> QED
      BY <2>1, <2>2
  <1> QED
    BY <1>1, <1>3, <1>4 DEF Ends

LEMMA SettledCat ==
  ASSUME NEW s, NEW t, NEW x, NEW v, Settled(s, x, v), Settled(t, x, v)
  PROVE  Settled(s \o t, x, v)
  <1>1. IsScript(s)
    BY DEF Settled, Quiet, Ends
  <1> QED
    BY <1>1, QuietCat, EndsAfter, EndsBefore DEF Settled

\* A step along a script.
LEMMA QuietStep ==
  ASSUME NEW s, NEW x, Quiet(s, x), s # <<>>
  PROVE  x \notin DOMAIN Head(s) /\ Quiet(Tail(s), x)
  BY HeadAndTail DEF Quiet

LEMMA EndsStep ==
  ASSUME NEW s, NEW x, NEW v, Ends(s, x, v), s # <<>>
  PROVE  \/ Ends(Tail(s), x, v)
         \/ Head(s) = (x :> v) /\ Quiet(Tail(s), x)
  <1>1. PICK i \in 1..Len(s) : /\ s[i] = (x :> v)
                               /\ \A j \in 1..Len(s) : j > i => x \notin DOMAIN s[j]
    BY DEF Ends
  <1>2. /\ IsScript(Tail(s)) /\ Len(s) \in Nat \ {0} /\ Len(Tail(s)) = Len(s) - 1
        /\ Head(s) = s[1]
        /\ \A k \in 1..Len(Tail(s)) : Tail(s)[k] = s[k + 1]
    BY HeadAndTail DEF Ends
  <1>3. CASE i = 1
    <2>1. ASSUME NEW k \in 1..Len(Tail(s))
          PROVE  x \notin DOMAIN Tail(s)[k]
      <3>1. k + 1 \in 1..Len(s) /\ k + 1 > i /\ Tail(s)[k] = s[k + 1]
        BY <1>2, <1>3
      <3> QED
        BY <1>1, <3>1
    <2> QED
      BY <1>1, <1>2, <1>3, <2>1 DEF Quiet
  <1>4. CASE i # 1
    <2>1. i - 1 \in 1..Len(Tail(s)) /\ Tail(s)[i - 1] = (x :> v)
      BY <1>1, <1>2, <1>4
    <2>2. ASSUME NEW k \in 1..Len(Tail(s)), k > i - 1
          PROVE  x \notin DOMAIN Tail(s)[k]
      <3>1. k + 1 \in 1..Len(s) /\ k + 1 > i /\ Tail(s)[k] = s[k + 1]
        BY <1>2, <2>2
      <3> QED
        BY <1>1, <3>1
    <2> QED
      BY <1>2, <2>1, <2>2 DEF Ends
  <1> QED
    BY <1>3, <1>4

LEMMA EndsNotEmpty ==
  ASSUME NEW x, NEW v
  PROVE  ~Ends(<<>>, x, v)
  BY NoWrite DEF Ends

-----------------------------------------------------------------------------
(* What one write does to the registers.                                   *)

Port == {"DATA", "LOOP", "MEM"}
CellName == {"m", "n", "p", "mm", "mn", "mp", "lp", ""}

LEMMA CellsOf ==
  ASSUME NEW port \in Port
  PROVE  /\ chip = "CH8391" /\ port = "DATA" => Cells(port) = <<"n", "m">>
         /\ chip \in {"TI3025", "TI3026", "MGATI3026"} /\ port = "DATA" => Cells(port) = <<"n", "m", "p">>
         /\ chip = "MGATI3026" /\ port = "MEM" => Cells(port) = <<"mn", "mm", "mp">>
         /\ port = "LOOP" => Cells(port) = <<"", "", "lp">>
         /\ \/ chip = "CH8391" /\ port = "DATA"
            \/ chip \in {"TI3025", "TI3026", "MGATI3026"} /\ port = "DATA"
            \/ chip = "MGATI3026" /\ port = "MEM"
            \/ port = "LOOP"
            \/ Cells(port) = <<"m", "n", "", "mm", "mn">>
  <1>1. chip = "CH8391" /\ port = "DATA" => Cells(port) = <<"n", "m">>
    BY DEF Cells
  <1>2. chip \in {"TI3025", "TI3026", "MGATI3026"} /\ port = "DATA" => Cells(port) = <<"n", "m", "p">>
    BY DEF Cells
  <1>3. chip = "MGATI3026" /\ port = "MEM" => Cells(port) = <<"mn", "mm", "mp">>
    BY DEF Cells
  <1>4. port = "LOOP" => Cells(port) = <<"", "", "lp">>
    BY DEF Cells
  <1>5. ASSUME ~(chip = "CH8391" /\ port = "DATA"),
               ~(chip \in {"TI3025", "TI3026", "MGATI3026"} /\ port = "DATA"),
               ~(chip = "MGATI3026" /\ port = "MEM"), port # "LOOP"
        PROVE  Cells(port) = <<"m", "n", "", "mm", "mn">>
    BY <1>5 DEF Cells
  <1> QED
    BY <1>1, <1>2, <1>3, <1>4, <1>5

LEMMA CellsNamed ==
  ASSUME NEW port \in Port, NEW i \in DOMAIN Cells(port)
  PROVE  /\ Cells(port)[i] \in CellName
         /\ chip # "MGATI3026" => Cells(port)[i] # "mp"
  <1>1. \A S : \A c \in Seq(S) : \A k \in DOMAIN c : c[k] \in S
    OBVIOUS
  <1>2. <<"n", "m">> \in Seq(CellName \ {"mp"})
    BY DEF CellName
  <1>3. <<"n", "m", "p">> \in Seq(CellName \ {"mp"})
    BY DEF CellName
  <1>4. <<"mn", "mm", "mp">> \in Seq(CellName)
    BY DEF CellName
  <1>5. <<"", "", "lp">> \in Seq(CellName \ {"mp"})
    BY DEF CellName
  <1>6. <<"m", "n", "", "mm", "mn">> \in Seq(CellName \ {"mp"})
    BY DEF CellName
  <1> DEFINE c == Cells(port)
  <1>7. c \in Seq(CellName) /\ (chip # "MGATI3026" => c \in Seq(CellName \ {"mp"}))
    <2>1. Seq(CellName \ {"mp"}) \subseteq Seq(CellName)
      OBVIOUS
    <2> QED
      BY <1>2, <1>3, <1>4, <1>5, <1>6, <2>1, CellsOf
  <1> HIDE DEF c
  <1>8. i \in DOMAIN c
    BY DEF c
  <1>9. c[i] \in CellName /\ (chip # "MGATI3026" => c[i] \in CellName \ {"mp"})
    BY <1>1, <1>7, <1>8
  <1> QED
    BY <1>9 DEF c

LEMMA Pointers ==
  /\ DOMAIN Pointer = Port
  /\ Pointer["DATA"] = "IX" /\ Pointer["LOOP"] = "LX" /\ Pointer["MEM"] = "MX"
  BY DEF Pointer, Port

\* A register that is written neither itself nor through a port.
LEMMA AfterKeeps ==
  ASSUME NEW r, Registers \subseteq DOMAIN r, NEW w, NEW x \in Registers,
         x \notin DOMAIN w, x \notin {"IX", "LX", "MX", "m", "n", "p", "mm", "mn", "lp"},
         x \in {"MSRC", "mp"} => chip # "MGATI3026"
  PROVE  After(r, w)[x] = r[x]
  <1>1. CASE \E port \in DOMAIN Pointer : port \in DOMAIN w
    <2> DEFINE port == CHOOSE port \in DOMAIN Pointer : port \in DOMAIN w
               at   == r[Pointer[port]]
               cell == IF at \in DOMAIN Cells(port) THEN Cells(port)[at] ELSE ""
    <2>1. port \in Port /\ Pointer[port] \in {"IX", "LX", "MX"}
      BY <1>1, Pointers DEF Port
    <2>2. After(r, w) = IF cell = "" THEN r ELSE [r EXCEPT ![cell] = w[port], ![Pointer[port]] = at + 1]
      BY <1>1 DEF After
    <2>3. cell \in CellName /\ (chip # "MGATI3026" => cell # "mp")
      BY <2>1, CellsNamed DEF CellName
    <2> HIDE DEF port, at, cell
    <2>4. x # cell \/ cell = ""
      <3>1. CASE x = "mp"
        BY <3>1, <2>3
      <3>2. CASE x # "mp"
        BY <3>2, <2>3 DEF CellName
      <3> QED
        BY <3>1, <3>2
    <2>5. x # Pointer[port]
      BY <2>1
    <2> QED
      BY <2>2, <2>4, <2>5
  <1>2. CASE ~(\E port \in DOMAIN Pointer : port \in DOMAIN w) /\ "PTR" \in DOMAIN w
    <2>1. After(r, w) = [r EXCEPT !["IX"] = w["PTR"], !["LX"] = w["PTR"], !["MX"] = w["PTR"]]
      BY <1>2 DEF After
    <2> QED
      BY <2>1
  <1>3. CASE /\ ~(\E port \in DOMAIN Pointer : port \in DOMAIN w) /\ "PTR" \notin DOMAIN w
             /\ "CTL" \in DOMAIN w /\ chip = "MGATI3026" /\ w["CTL"] % 2 = 1
    <2>1. After(r, w) = [w @@ r EXCEPT !["MSRC"] = w["CTL"] \div 2]
      BY <1>3 DEF After
    <2>2. x # "MSRC"
      BY <1>3
    <2> QED
      BY <2>1, <2>2 DEF @@
  <1>4. CASE /\ ~(\E port \in DOMAIN Pointer : port \in DOMAIN w) /\ "PTR" \notin DOMAIN w
             /\ ~("CTL" \in DOMAIN w /\ chip = "MGATI3026" /\ w["CTL"] % 2 = 1)
    <2>1. After(r, w) = w @@ r
      BY <1>4 DEF After
    <2> QED
      BY <2>1 DEF @@
  <1> QED
    BY <1>1, <1>2, <1>3, <1>4

LEMMA AfterSame ==
  ASSUME NEW r, Registers \subseteq DOMAIN r, NEW w
  PROVE  Registers \subseteq DOMAIN After(r, w)
  <1>1. CASE \E port \in DOMAIN Pointer : port \in DOMAIN w
    <2> DEFINE port == CHOOSE port \in DOMAIN Pointer : port \in DOMAIN w
               at   == r[Pointer[port]]
               cell == IF at \in DOMAIN Cells(port) THEN Cells(port)[at] ELSE ""
    <2>2. After(r, w) = IF cell = "" THEN r ELSE [r EXCEPT ![cell] = w[port], ![Pointer[port]] = at + 1]
      BY <1>1 DEF After
    <2> HIDE DEF port, at, cell
    <2> QED
      BY <2>2
  <1>2. CASE ~(\E port \in DOMAIN Pointer : port \in DOMAIN w)
    BY <1>2 DEF After, @@
  <1> QED
    BY <1>1, <1>2

\* A write to one register of no other effect.
LEMMA AfterSets ==
  ASSUME NEW r, NEW w, NEW x, DOMAIN w = {x}, x \notin Port \cup {"PTR", "CTL"}
  PROVE  /\ After(r, w)[x] = w[x]
         /\ \A y \in DOMAIN r : y # x => After(r, w)[y] = r[y]
  <1>1. After(r, w) = w @@ r
    BY Pointers DEF After
  <1> QED
    BY <1>1 DEF @@

-----------------------------------------------------------------------------
(* The registers each driver writes, and how it leaves the gates.          *)

LEMMA WithinMore ==
  ASSUME NEW s, NEW R, NEW T, Within(s, R), R \subseteq T
  PROVE  Within(s, T)
  BY DEF Within

LEMMA WithinOne ==
  ASSUME NEW w, NEW R, DOMAIN w \subseteq R
  PROVE  Within(<<w>>, R)
  BY OneWrite DEF Within

LEMMA WithinScript ==
  ASSUME NEW s, NEW R, Within(s, R)
  PROVE  IsScript(s)
  BY DEF Within

LEMMA QuietWrite ==
  ASSUME NEW x, NEW v, NEW y, x # y
  PROVE  Quiet(W(x, v), y)
  BY OneWrite DEF Quiet, W, :>

LEMMA SelectWrites ==
  ASSUME NEW k, NEW no
  PROVE  Within(Select(k, no), {"MISC", "CR42", "CS"})
  BY WithinWrite, WithinCat DEF Select

LEMMA GendacWrites ==
  ASSUME NEW k, NEW at, NEW d, NEW r
  PROVE  /\ k = "ET6000" => Within(GendacPll(k, at, d, r), {"IX", "DATA"})
         /\ k # "ET6000" => /\ Within(GendacPll(k, at, d, r), {"RS2", "IX", "DATA"})
                            /\ Ends(GendacPll(k, at, d, r), "RS2", 0)
  <1>1. CASE k = "ET6000"
    <2>1. GendacPll(k, at, d, r) = <<>> \o W("IX", at) \o W("DATA", d.m) \o W("DATA", d.n)
                                   \o W("IX", r["IX"]) \o <<>>
      BY <1>1 DEF GendacPll
    <2>2. Within(GendacPll(k, at, d, r), {"IX", "DATA"})
      <3> DEFINE R == {"IX", "DATA"}
      <3>1. Within(<<>>, R) /\ \A x \in R : \A v : Within(W(x, v), R)
        BY WithinWrite, WithinNone
      <3>2. "IX" \in R /\ "DATA" \in R
        OBVIOUS
      <3> HIDE DEF R
      <3>3. Within(<<>> \o W("IX", at) \o W("DATA", d.m) \o W("DATA", d.n) \o W("IX", r["IX"]) \o <<>>, R)
        BY <3>1, <3>2, WithinCat
      <3> QED
        BY <2>1, <3>3 DEF R
    <2> QED
      BY <1>1, <2>2
  <1>2. CASE k # "ET6000"
    <2> DEFINE a == W("RS2", 1) \o W("IX", at) \o W("DATA", d.m) \o W("DATA", d.n) \o W("IX", r["IX"])
    <2>1. GendacPll(k, at, d, r) = a \o W("RS2", 0)
      BY <1>2 DEF GendacPll
    <2>2. Within(a, {"RS2", "IX", "DATA"})
      BY WithinWrite, WithinCat
    <2> HIDE DEF a
    <2> QED
      BY <1>2, <2>1, <2>2, WithinWrite, WithinCat, WithinScript, EndsWrite, EndsAfter
  <1> QED
    BY <1>1, <1>2

LEMMA TrioWrites ==
  ASSUME NEW mclk \in BOOLEAN, NEW d
  PROVE  /\ Within(Trio(mclk, d), {"MISC", "SR8", "mn", "mm", "n", "m"})
         /\ Ends(Trio(mclk, d), "SR8", 0)
  <1> DEFINE R == {"MISC", "SR8", "mn", "mm", "n", "m"}
             b == IF mclk THEN W("mn", d.n) \o W("mm", d.m) ELSE W("n", d.n) \o W("m", d.m)
             a == W("MISC", 3) \o W("SR8", 6) \o b
  <1>1. Within(W("mn", d.n) \o W("mm", d.m), R) /\ Within(W("n", d.n) \o W("m", d.m), R)
    BY WithinWrite, WithinCat
  <1>2. Within(b, R)
    BY <1>1
  <1>3. Trio(mclk, d) = a \o W("SR8", 0)
    BY DEF Trio
  <1> HIDE DEF b
  <1>4. Within(a, R)
    BY <1>2, WithinWrite, WithinCat
  <1> HIDE DEF a
  <1> QED
    BY <1>3, <1>4, WithinWrite, WithinCat, WithinScript, EndsWrite, EndsAfter

LEMMA BehindWrites ==
  ASSUME NEW rs2, NEW x, NEW v
  PROVE  /\ Within(Behind(rs2, x, v), {"RS2", x})
         /\ Ends(Behind(rs2, x, v), "RS2", 0)
  <1> DEFINE a == W("RS2", rs2) \o W(x, v)
  <1>1. Within(a, {"RS2", x})
    BY WithinWrite, WithinCat
  <1>2. Behind(rs2, x, v) = a \o W("RS2", 0)
    BY DEF Behind
  <1> HIDE DEF a
  <1> QED
    BY <1>1, <1>2, WithinWrite, WithinCat, WithinScript, EndsWrite, EndsAfter

LEMMA BehindWithin ==
  ASSUME NEW rs2, NEW x, NEW v, NEW R, x \in R, "RS2" \in R
  PROVE  Within(Behind(rs2, x, v), R)
  <1>1. {"RS2", x} \subseteq R
    OBVIOUS
  <1> QED
    <2>1. Within(Behind(rs2, x, v), {"RS2", x})
      BY BehindWrites
    <2> QED
      BY <1>1, <2>1, WithinMore

LEMMA TiWrites ==
  ASSUME NEW d, NEW f
  PROVE  /\ Within(Ti3025(d), {"RS2", "PTR", "DATA", "LOOP", "ICLK"})
         /\ Ends(Ti3025(d), "RS2", 0)
         /\ Within(Ti3026(d, f), {"RS2", "PTR", "DATA", "LOOP", "ICLK"})
         /\ Ends(Ti3026(d, f), "RS2", 0)
  <1> DEFINE R == {"RS2", "PTR", "DATA", "LOOP", "ICLK"}
             a == Behind(1, "PTR", 1) \o Behind(1, "DATA", d.n) \o Behind(1, "DATA", d.m)
                  \o Behind(1, "DATA", d.p + On) \o Behind(1, "LOOP", 1) \o Behind(1, "LOOP", 1)
                  \o Behind(1, "LOOP", IF d.p > 0 THEN d.p ELSE 1)
             b == Behind(2, "PTR", 1) \o Behind(2, "DATA", d.n) \o Behind(2, "DATA", d.m)
                  \o Behind(2, "DATA", (d.p % 4) + On) \o Behind(2, "LOOP", 33) \o Behind(2, "LOOP", 61)
                  \o Behind(2, "LOOP", Ti3026LoopP(f) % 4)
  <1>1. Ti3025(d) = a \o Behind(1, "ICLK", 1) /\ Ti3026(d, f) = b \o Behind(2, "ICLK", 1)
    BY DEF Ti3025, Ti3026
  <1>2. Within(a, R) /\ Within(b, R)
    <2>1. \A g, x, v : x \in R => Within(Behind(g, x, v), R)
      BY BehindWithin
    <2> QED
      BY <2>1, WithinCat
  <1> HIDE DEF a, b
  <1>3. Within(Behind(1, "ICLK", 1), R) /\ Within(Behind(2, "ICLK", 1), R)
    BY BehindWithin
  <1>4. IsScript(a) /\ IsScript(b)
    BY <1>2, WithinScript
  <1>5. Ends(Behind(1, "ICLK", 1), "RS2", 0) /\ Ends(Behind(2, "ICLK", 1), "RS2", 0)
    BY BehindWrites
  <1>6. Within(Ti3025(d), R) /\ Within(Ti3026(d, f), R)
    BY <1>1, <1>2, <1>3, WithinCat
  <1>7. Ends(Ti3025(d), "RS2", 0) /\ Ends(Ti3026(d, f), "RS2", 0)
    BY <1>1, <1>4, <1>5, EndsAfter
  <1> QED
    BY <1>6, <1>7

LEMMA IBMWrites ==
  ASSUME NEW d
  PROVE  /\ Within(IBMRGB(d), {"RS2", "m", "n", "PLLSEL", "CTL"})
         /\ Ends(IBMRGB(d), "RS2", 0)
  <1> DEFINE R == {"RS2", "m", "n", "PLLSEL", "CTL"}
             a == W("RS2", 1) \o W("RS2", 0) \o Behind(1, "m", 64 * d.df + d.m) \o Behind(1, "n", d.n)
                  \o Behind(1, "PLLSEL", 2) \o Behind(1, "CTL", 3)
  <1>1. IBMRGB(d) = a \o Behind(1, "CTL", 1)
    BY DEF IBMRGB
  <1>2. Within(a, R)
    <2>1. \A g, x, v : x \in R => Within(Behind(g, x, v), R)
      BY BehindWithin
    <2> QED
      BY <2>1, WithinCat, WithinWrite
  <1> HIDE DEF a
  <1>3. Within(Behind(1, "CTL", 1), R)
    BY BehindWithin
  <1>4. IsScript(a)
    BY <1>2, WithinScript
  <1>5. Ends(Behind(1, "CTL", 1), "RS2", 0)
    BY BehindWrites
  <1>6. Within(IBMRGB(d), R)
    BY <1>1, <1>2, <1>3, WithinCat
  <1>7. Ends(IBMRGB(d), "RS2", 0)
    BY <1>1, <1>4, <1>5, EndsAfter
  <1> QED
    BY <1>6, <1>7

\* These two put back what they found.
LEMMA STGWrites ==
  ASSUME NEW d, NEW r
  PROVE  /\ Within(STG1703(d, r), {"RS2", "IX", "DATA", "MISC", "CR42"})
         /\ Ends(STG1703(d, r), "RS2", r["RS2"])
  <1> DEFINE R == {"RS2", "IX", "DATA", "MISC", "CR42"}
             a == W("RS2", 1) \o W("IX", 1) \o W("DATA", d.m) \o W("DATA", d.n)
                  \o W("MISC", 3) \o W("CR42", 2)
  <1>1. STG1703(d, r) = a \o W("RS2", r["RS2"])
    BY DEF STG1703
  <1>2. Within(a, R)
    BY WithinWrite, WithinCat
  <1>3. Within(W("RS2", r["RS2"]), R) /\ Ends(W("RS2", r["RS2"]), "RS2", r["RS2"])
    BY WithinWrite, EndsWrite
  <1> HIDE DEF a, R
  <1>4. Within(STG1703(d, r), R)
    BY <1>1, <1>2, <1>3, WithinCat
  <1>5. Ends(STG1703(d, r), "RS2", r["RS2"])
    BY <1>1, <1>2, <1>3, WithinScript, EndsAfter
  <1> QED
    BY <1>4, <1>5 DEF R

LEMMA ChrontelWrites ==
  ASSUME NEW d, NEW r
  PROVE  /\ Within(CH8391(d, r), {"RS2", "IX", "DATA", "CSR", "MISC", "CR42"})
         /\ Ends(CH8391(d, r), "RS2", r["RS2"])
  <1> DEFINE R == {"RS2", "IX", "DATA", "CSR", "MISC", "CR42"}
             b == IF r["CSR"] % 16 = 0 THEN <<>> ELSE W("CSR", (r["CSR"] % 128) + 128)
             a == W("RS2", 1) \o W("IX", 1) \o W("DATA", d.n) \o W("DATA", 64 * d.k + d.m)
                  \o b \o W("MISC", 3) \o W("CR42", 2) \o W("IX", r["IX"])
  <1>1. CH8391(d, r) = a \o W("RS2", r["RS2"])
    BY DEF CH8391
  <1>2. Within(b, R)
    BY WithinWrite, WithinNone
  <1> HIDE DEF b
  <1>3. Within(a, R)
    BY <1>2, WithinWrite, WithinCat
  <1>4. Within(W("RS2", r["RS2"]), R) /\ Ends(W("RS2", r["RS2"]), "RS2", r["RS2"])
    BY WithinWrite, EndsWrite
  <1> HIDE DEF a, R
  <1>5. Within(CH8391(d, r), R)
    BY <1>1, <1>3, <1>4, WithinCat
  <1>6. Ends(CH8391(d, r), "RS2", r["RS2"])
    BY <1>1, <1>3, <1>4, WithinScript, EndsAfter
  <1> QED
    BY <1>5, <1>6 DEF R

LEMMA SC11412Writes ==
  ASSUME NEW d
  PROVE  Within(SC11412(d), {"MISC", "CR42", "m", "n", "p", "mm", "mn"})
  <1> DEFINE R == {"MISC", "CR42", "m", "n", "p", "mm", "mn"}
  <1>1. ASSUME NEW w, DOMAIN w \subseteq R
        PROVE  Within(SetSC11412(w), R)
    <2>1. Within(<<w>>, R)
      BY <1>1, WithinOne
    <2>2. \A x, v : x \in R => Within(W(x, v), R)
      BY WithinWrite
    <2>3. "MISC" \in R /\ "CR42" \in R
      OBVIOUS
    <2> HIDE DEF R
    <2> QED
      BY <2>1, <2>2, <2>3, WithinCat DEF SetSC11412
  <1>2. ASSUME NEW n, NEW m
        PROVE  Within(SC11412Mem(n, m), R)
    <2>1. DOMAIN ("mn" :> n @@ "mm" :> m) \subseteq R
      BY DEF :>, @@
    <2> HIDE DEF R
    <2> QED
      BY <1>1, <2>1 DEF SC11412Mem
  <1>3. Within(SetSC11412("n" :> d.n @@ "m" :> d.m @@ "p" :> d.d), R)
    <2>1. DOMAIN ("n" :> d.n @@ "m" :> d.m @@ "p" :> d.d) \subseteq R
      BY DEF :>, @@
    <2> HIDE DEF R
    <2> QED
      BY <1>1, <2>1
  <1> DEFINE b == IF d.m = 31 THEN SC11412Mem(107, 32) ELSE <<>>
             e == SetSC11412("n" :> d.n @@ "m" :> d.m @@ "p" :> d.d)
             c == IF d = Refused THEN <<>> ELSE b \o e
  <1>4. SC11412(d) = SC11412Mem(106, 31) \o c
    BY DEF SC11412
  <1> HIDE DEF R
  <1>5. Within(b, R)
    BY <1>2, WithinNone
  <1> HIDE DEF b, e
  <1>6. Within(c, R)
    BY <1>3, <1>5, WithinNone, WithinCat DEF e
  <1> HIDE DEF c
  <1>7. Within(SC11412(d), R)
    BY <1>2, <1>4, <1>6, WithinCat
  <1> QED
    BY <1>7 DEF R

LEMMA ICDWrites ==
  ASSUME NEW d
  PROVE  Within(ICDWord(d), {"p", "m", "n"})
  <1>1. DOMAIN ("p" :> d.p @@ "m" :> d.m @@ "n" :> d.q) \subseteq {"p", "m", "n"}
    BY DEF :>, @@
  <1> QED
    BY <1>1, WithinOne DEF ICDWord

LEMMA S3InitWrites ==
  ASSUME NEW d, NEW r
  PROVE  /\ Within(S3InitClock(d, r), {"SR0", "SR1.5", "CR42", "MISC", "p", "m", "n"})
         /\ Ends(S3InitClock(d, r), "SR0", 3)
         /\ Ends(S3InitClock(d, r), "SR1.5", 0)
  <1> DEFINE R == {"SR0", "SR1.5", "CR42", "MISC", "p", "m", "n"}
             a == W("SR0", 1) \o W("SR1.5", 1) \o W("CR42", 3) \o W("SR0", 3) \o W("SR0", 1)
                  \o W("MISC", 3) \o ICDWord(d)
  <1>1. S3InitClock(d, r) = a \o W("SR1.5", 0) \o W("CR42", r["CR42"]) \o W("MISC", r["MISC"]) \o W("SR0", 3)
    BY DEF S3InitClock
  <1>2. Within(ICDWord(d), R)
    BY ICDWrites, WithinMore
  <1>3. Within(a, R)
    BY <1>2, WithinWrite, WithinCat
  <1> HIDE DEF a
  <1>4. /\ Within(W("SR1.5", 0), R) /\ Within(W("CR42", r["CR42"]), R)
        /\ Within(W("MISC", r["MISC"]), R) /\ Within(W("SR0", 3), R)
    BY WithinWrite
  <1>5. /\ Quiet(W("CR42", r["CR42"]), "SR1.5") /\ Quiet(W("MISC", r["MISC"]), "SR1.5")
        /\ Quiet(W("SR0", 3), "SR1.5")
    BY QuietWrite
  <1> HIDE DEF R
  <1>6. Within(a \o W("SR1.5", 0) \o W("CR42", r["CR42"]) \o W("MISC", r["MISC"]), R)
    BY <1>3, <1>4, WithinCat
  <1>7. Within(S3InitClock(d, r), R) /\ Ends(S3InitClock(d, r), "SR0", 3)
    BY <1>1, <1>4, <1>6, WithinCat, WithinScript, EndsWrite, EndsAfter
  <1>8. Ends(a \o W("SR1.5", 0), "SR1.5", 0)
    BY <1>3, WithinScript, EndsWrite, EndsAfter
  <1>9. Ends(S3InitClock(d, r), "SR1.5", 0)
    BY <1>1, <1>5, <1>8, EndsBefore
  <1> QED
    BY <1>7, <1>9 DEF R

\* The drivers that open nothing.
LEMMA PlainWrites ==
  ASSUME NEW k, NEW d, NEW r
  PROVE  /\ Within(CirrusSet01(d, r), {"SR0E", "SR1E"})
         /\ Within(Laguna(d, r), {"SR0E", "SR1E"})
         /\ Within(TGUI(k, d), {"MISC", "n", "m"})
         /\ Within(SetPCLK(d), {"IX", "DATA", "CTL"})
         /\ Within(Riva(d), {"PLLSEL", "m", "n", "p"})
  <1>1. Within(CirrusSet01(d, r), {"SR0E", "SR1E"}) /\ Within(Laguna(d, r), {"SR0E", "SR1E"})
    BY WithinWrite, WithinCat DEF CirrusSet01, Laguna
  <1>2. Within(TGUI(k, d), {"MISC", "n", "m"})
    <2> DEFINE R == {"MISC", "n", "m"}
               a == IF k = "TGUI9320" THEN <<>> ELSE W("MISC", 2)
               b == W("n", d.n) \o W("m", 64 * (d.k - 1) + 32 * (d.m \div 32) + (d.m % 16))
               c == W("n", 128 * (d.m % 2) + d.n) \o W("m", 16 * (d.k - 1) + d.m \div 2)
    <2>1. TGUI(k, d) = a \o (IF k = "CYBER938x" THEN b ELSE c)
      BY DEF TGUI
    <2>2. Within(a, R) /\ Within(b, R) /\ Within(c, R)
      BY WithinWrite, WithinCat, WithinNone
    <2> HIDE DEF a, b, c, R
    <2>3. Within(TGUI(k, d), R)
      BY <2>1, <2>2, WithinCat
    <2> QED
      BY <2>3 DEF R
  <1>3. Within(SetPCLK(d), {"IX", "DATA", "CTL"})
    BY WithinWrite, WithinCat DEF SetPCLK, TiData
  <1>4. Within(Riva(d), {"PLLSEL", "m", "n", "p"})
    <2>1. DOMAIN ("m" :> d.m @@ "n" :> d.n @@ "p" :> d.p) \subseteq {"PLLSEL", "m", "n", "p"}
      BY DEF :>, @@
    <2>2. Within(<< "m" :> d.m @@ "n" :> d.n @@ "p" :> d.p >>, {"PLLSEL", "m", "n", "p"})
      BY <2>1, WithinOne
    <2>3. Within(W("PLLSEL", 7), {"PLLSEL", "m", "n", "p"})
      BY WithinWrite
    <2> QED
      BY <2>2, <2>3, WithinCat DEF Riva
  <1> QED
    BY <1>1, <1>2, <1>3, <1>4

LEMMA SetPixWrites ==
  ASSUME NEW d
  PROVE  /\ Within(SetPixClock(d), {"PIXCLKDIS", "m", "n", "p", "MISC", "LOCK"})
         /\ Ends(SetPixClock(d), "PIXCLKDIS", 0)
  <1> DEFINE R == {"PIXCLKDIS", "m", "n", "p", "MISC", "LOCK"}
             a == W("PIXCLKDIS", 1) \o W("m", d.m) \o W("n", d.n) \o W("p", 8 * d.s + d.p + On)
                  \o W("MISC", 2) \o Lock("p")
  <1>1. SetPixClock(d) = a \o W("PIXCLKDIS", 0)
    BY DEF SetPixClock
  <1>2. Within(Lock("p"), R)
    BY WithinWrite DEF Lock, W
  <1>3. Within(a, R) /\ Within(W("PIXCLKDIS", 0), R)
    BY <1>2, WithinWrite, WithinCat
  <1> HIDE DEF a, R
  <1>4. Within(SetPixClock(d), R) /\ Ends(SetPixClock(d), "PIXCLKDIS", 0)
    BY <1>1, <1>3, WithinCat, WithinScript, EndsWrite, EndsAfter
  <1> QED
    BY <1>4 DEF R

Mach64Writes == {"EXT_DISP", "VRESET", "m", "p", "n", "precision", "latency", "xclks", "on", "off"}
LEMMA Mach64Gates ==
  ASSUME NEW k, NEW d, NEW r
  PROVE  /\ Within(SetMach64(k, d, r), Mach64Writes)
         /\ Ends(SetMach64(k, d, r), "VRESET", 0)
         /\ Ends(SetMach64(k, d, r), "EXT_DISP", r["EXT_DISP"])
  <1> DEFINE R == Mach64Writes
             a == W("EXT_DISP", 1) \o W("VRESET", 1) \o W("VRESET", 0) \o W("VRESET", 1)
                  \o W("m", d.N) \o W("p", d.P)
             b == IF k = "MACH64GT" THEN W("n", d.ext) ELSE <<>>
             z == W("EXT_DISP", r["EXT_DISP"])
             Q == {"n", "precision", "latency", "xclks", "on", "off"}
  <1>1. SetMach64(k, d, r) = a \o W("VRESET", 0) \o b \o SetDsp(k, d) \o z
    BY DEF SetMach64
  <1>2. Within(SetDsp(k, d), Q)
    <2> DEFINE f == Mach64Dsp(d.N, Mach64Post(d.P, d.ext), BusClock.M, CharWidth, Memory, k = "MACH64GT")
               u == "precision" :> f.precision @@ "latency" :> f.latency @@ "xclks" :> f.xclks
               v == "on" :> f.on @@ "off" :> f.off
    <2>1. SetDsp(k, d) = <<u>> \o <<v>>
      BY DEF SetDsp
    <2> HIDE DEF f
    <2>2. DOMAIN u \subseteq Q /\ DOMAIN v \subseteq Q
      BY DEF :>, @@
    <2> HIDE DEF u, v, Q
    <2> QED
      BY <2>1, <2>2, WithinOne, WithinCat
  <1>3. Within(b, Q)
    BY WithinWrite, WithinNone
  <1>4. Q \subseteq R /\ "VRESET" \notin Q
    BY DEF Mach64Writes
  <1>5. Within(a, R) /\ Within(W("VRESET", 0), R) /\ Within(z, R)
    BY WithinWrite, WithinCat DEF Mach64Writes
  <1>6. Quiet(z, "VRESET")
    BY QuietWrite
  <1>7. Ends(z, "EXT_DISP", r["EXT_DISP"])
    BY EndsWrite
  <1> HIDE DEF a, b, z, Q, R
  <1>8. Within(b, R) /\ Within(SetDsp(k, d), R) /\ Quiet(b, "VRESET") /\ Quiet(SetDsp(k, d), "VRESET")
    BY <1>2, <1>3, <1>4, WithinMore, WithinQuiet
  <1>9. Within(a \o W("VRESET", 0) \o b \o SetDsp(k, d), R)
    BY <1>5, <1>8, WithinCat
  <1>10. Within(SetMach64(k, d, r), R) /\ Ends(SetMach64(k, d, r), "EXT_DISP", r["EXT_DISP"])
    BY <1>1, <1>5, <1>7, <1>9, WithinCat, WithinScript, EndsAfter
  <1>11. Ends(a \o W("VRESET", 0), "VRESET", 0)
    BY <1>5, WithinScript, EndsWrite, EndsAfter
  <1>12. Ends(SetMach64(k, d, r), "VRESET", 0)
    BY <1>1, <1>6, <1>8, <1>11, EndsBefore
  <1> QED
    BY <1>10, <1>12 DEF R

LEMMA SetMemWrites ==
  ASSUME NEW d, NEW r
  PROVE  Within(SetMCLK(d, r), {"IX", "DATA", "LOCK", "CTL", "MX", "MEM"})
  <1> DEFINE R == {"IX", "DATA", "LOCK", "CTL", "MX", "MEM"}
  <1>1. \A v : /\ Within(W("IX", v), R) /\ Within(W("DATA", v), R) /\ Within(W("CTL", v), R)
               /\ Within(W("MX", v), R) /\ Within(W("MEM", v), R) /\ Within(Lock(v), R)
    BY WithinWrite DEF Lock, W
  <1> HIDE DEF R
  <1>2. Within(TiData("DATA", d), R) /\ Within(TiData("MEM", d), R)
    BY <1>1, WithinCat DEF TiData
  <1>3. Within(Borrow(d), R)
    BY <1>1, <1>2, WithinCat DEF Borrow
  <1>4. Within(SetMem(d), R)
    BY <1>1, <1>2, WithinCat DEF SetMem
  <1>5. Within(GiveBack(r), R)
    BY <1>1, WithinCat DEF GiveBack
  <1>6. Within(SetMCLK(d, r), R)
    BY <1>1, <1>3, <1>4, <1>5, WithinCat DEF SetMCLK
  <1> QED
    BY <1>6 DEF R

-----------------------------------------------------------------------------
(* The gates, and which of them a chip's driver goes through.              *)

Gate == {"RS2", "SR8", "SR1.5", "PIXCLKDIS", "VRESET", "EXT_DISP", "SR0"}
Closed(x) == IF x = "SR0" THEN 3 ELSE 0

ByRS2 == {"S3GENDAC", "ICS5342", "ICS5341", "ARK5342", "TI3025", "TI3026", "IBMRGB5XX", "STG1703",
          "CH8391"}
Serial == {"ICD2061A", "ICD2061AX"}
Mids == {"MGA1064", "MGAG200"}
Opened(k) == (IF k \in ByRS2 THEN {"RS2"} ELSE {})
             \cup (IF k = "S3TRIO" THEN {"SR8"} ELSE {})
             \cup (IF k \in Serial THEN {"SR0", "SR1.5"} ELSE {})
             \cup (IF k \in Mids THEN {"PIXCLKDIS"} ELSE {})
             \cup (IF k \in Mach64s THEN {"EXT_DISP", "VRESET"} ELSE {})

\* No driver writes these: the other gates, and what the memory hangs on.
Kept(k) == (Gate \ Opened(k)) \cup {"MSRC", "mp"}
\* All that appears in a write.
Name == Registers \cup Port \cup {"PTR", "LOCK"}
Free(k) == Name \ Kept(k)

\* How script s, made with registers r before it, leaves the gates.
Tidy(k, s, r) ==
  /\ Within(s, Free(k))
  /\ (\A x \in Opened(k) : r[x] = Closed(x)) => \A x \in Opened(k) : Settled(s, x, Closed(x))
Leaves(k, s, r) ==
  /\ Tidy(k, s, r)
  /\ \A x \in Opened(k) : k \notin PutsBack => Ends(s, x, Closed(x))

LEMMA LeavesAll ==
  ASSUME NEW k, NEW s, NEW r, Within(s, Free(k)),
         \A x \in Opened(k) : Ends(s, x, Closed(x))
  PROVE  Leaves(k, s, r)
  BY DEF Leaves, Tidy, Settled

LEMMA LeavesNothing ==
  ASSUME NEW k, NEW s, NEW r, NEW R, Within(s, R), R \subseteq Free(k), Opened(k) = {}
  PROVE  Leaves(k, s, r)
  BY WithinMore DEF Leaves, Tidy

\* One more register select after it.
LEMMA LeavesSelect ==
  ASSUME NEW k, NEW s, NEW r, NEW no, Leaves(k, s, r)
  PROVE  Leaves(k, s \o Select(k, no), r)
  <1> DEFINE t == Select(k, no)
             R == {"MISC", "CR42", "CS"}
  <1>1. Within(t, R)
    BY SelectWrites
  <1>2. R \subseteq Free(k) /\ \A x \in Opened(k) : x \notin R
    BY DEF Free, Kept, Name, Registers, Gate, Opened
  <1> HIDE DEF t, R
  <1>3. Within(t, Free(k)) /\ \A x \in Opened(k) : Quiet(t, x)
    BY <1>1, <1>2, WithinMore, WithinQuiet
  <1>4. Within(s \o t, Free(k))
    BY <1>3, WithinCat DEF Leaves, Tidy
  <1>5. ASSUME NEW x \in Opened(k), NEW v
        PROVE  /\ Ends(s, x, v) => Ends(s \o t, x, v)
               /\ Settled(s, x, v) => Settled(s \o t, x, v)
    BY <1>3, EndsBefore, SettledCat DEF Settled
  <1>6. Leaves(k, s \o t, r)
    BY <1>4, <1>5 DEF Leaves, Tidy
  <1> QED
    BY <1>6 DEF t

LEMMA GendacLeaves ==
  ASSUME NEW k \in Gendacs, NEW at, NEW d, NEW r
  PROVE  Leaves(k, GendacPll(k, at, d, r), r)
  <1> DEFINE R == Free(k)
             s == GendacPll(k, at, d, r)
  <1>1. CASE k = "ET6000"
    <2>1. Within(s, {"IX", "DATA"})
      BY <1>1, GendacWrites
    <2>2. {"IX", "DATA"} \subseteq R /\ Opened(k) = {}
      BY <1>1 DEF Free, Kept, Opened, Gate, Name, Registers, Port, ByRS2, Serial, Mids, Mach64s
    <2> HIDE DEF s
    <2> QED
      BY <2>1, <2>2, LeavesNothing DEF s
  <1>2. CASE k # "ET6000"
    <2>1. Within(s, {"RS2", "IX", "DATA"}) /\ Ends(s, "RS2", 0)
      BY <1>2, GendacWrites
    <2>2. {"RS2", "IX", "DATA"} \subseteq R /\ Opened(k) = {"RS2"} /\ Closed("RS2") = 0
      BY <1>2 DEF Free, Kept, Opened, Gate, Name, Registers, Port, ByRS2, Serial, Mids, Mach64s, Closed, Gendacs
    <2> HIDE DEF s, R
    <2>3. Within(s, R) /\ \A x \in Opened(k) : Ends(s, x, Closed(x))
      BY <2>1, <2>2, WithinMore
    <2> QED
      BY <2>3, LeavesAll DEF R, s
  <1> QED
    BY <1>1, <1>2

LEMMA TrioLeaves ==
  ASSUME NEW mclk \in BOOLEAN, NEW d, NEW r
  PROVE  Leaves("S3TRIO", Trio(mclk, d), r)
  <1> DEFINE s == Trio(mclk, d)
             R == Free("S3TRIO")
             T == {"MISC", "SR8", "mn", "mm", "n", "m"}
  <1>1. Within(s, T) /\ Ends(s, "SR8", 0)
    BY TrioWrites
  <1>2. T \subseteq R /\ Opened("S3TRIO") = {"SR8"} /\ Closed("SR8") = 0
    BY DEF Free, Kept, Opened, Gate, Name, Registers, Port, ByRS2, Serial, Mids, Mach64s, Closed
  <1> HIDE DEF s, R, T
  <1>3. Within(s, R) /\ \A x \in Opened("S3TRIO") : Ends(s, x, Closed(x))
    BY <1>1, <1>2, WithinMore
  <1> QED
    BY <1>3, LeavesAll DEF R, s

LEMMA DriverLeaves ==
  ASSUME NEW k \in AllChips, NEW f, NEW d, NEW r
  PROVE  Leaves(k, Driver(k, f, d, r), r)
  <1> DEFINE R == Free(k)
  <1>1. CASE k \in Gendacs
    <2>1. Driver(k, f, d, r) = GendacPll(k, 1, d, r) \o Select(k, 2)
      BY <1>1 DEF Driver, CommonSetClock, Gendacs, Mach64s, Rivas
    <2> QED
      BY <1>1, <2>1, GendacLeaves, LeavesSelect
  <1>2. CASE k = "S3TRIO"
    <2>1. Driver(k, f, d, r) = Trio(FALSE, d)
      BY <1>2 DEF Driver, CommonSetClock, Gendacs, Mach64s, Rivas
    <2> QED
      BY <1>2, <2>1, TrioLeaves
  <1>3. CASE k \in {"TI3025", "TI3026", "IBMRGB5XX"}
    <2> DEFINE s == IF k = "TI3025" THEN Ti3025(d) ELSE IF k = "TI3026" THEN Ti3026(d, f) ELSE IBMRGB(d)
               T == {"RS2", "PTR", "DATA", "LOOP", "ICLK", "m", "n", "PLLSEL", "CTL"}
    <2>1. Driver(k, f, d, r) = s \o Select(k, 2)
      <3>1. CASE k = "TI3025"
        BY <3>1 DEF Driver, Gendacs, Mach64s, Rivas
      <3>2. CASE k = "TI3026"
        BY <3>2 DEF Driver, Gendacs, Mach64s, Rivas
      <3>3. CASE k = "IBMRGB5XX"
        BY <3>3 DEF Driver, Gendacs, Mach64s, Rivas
      <3> QED
        BY <1>3, <3>1, <3>2, <3>3
    <2>2. {"RS2", "PTR", "DATA", "LOOP", "ICLK"} \subseteq T /\ {"RS2", "m", "n", "PLLSEL", "CTL"} \subseteq T
      OBVIOUS
    <2>3. T \subseteq R /\ Opened(k) = {"RS2"} /\ Closed("RS2") = 0
      BY <1>3 DEF Free, Kept, Opened, Gate, Name, Registers, Port, ByRS2, Serial, Mids, Mach64s, Closed
    <2> HIDE DEF R, T
    <2>4. Within(s, T) /\ Ends(s, "RS2", 0)
      BY <2>2, TiWrites, IBMWrites, WithinMore
    <2> HIDE DEF s
    <2>5. Within(s, R) /\ \A x \in Opened(k) : Ends(s, x, Closed(x))
      BY <2>3, <2>4, WithinMore
    <2> QED
      BY <2>1, <2>5, LeavesAll, LeavesSelect DEF R
  <1>4. CASE k \in {"STG1703", "CH8391"}
    <2> DEFINE s == IF k = "STG1703" THEN STG1703(d, r) ELSE CH8391(d, r)
               T == {"RS2", "IX", "DATA", "CSR", "MISC", "CR42"}
    <2>1. Driver(k, f, d, r) = s \o Select(k, 2)
      <3>1. CASE k = "STG1703"
        BY <3>1 DEF Driver, Gendacs, Mach64s, Rivas
      <3>2. CASE k = "CH8391"
        BY <3>2 DEF Driver, Gendacs, Mach64s, Rivas
      <3> QED
        BY <1>4, <3>1, <3>2
    <2>2. {"RS2", "IX", "DATA", "MISC", "CR42"} \subseteq T
      OBVIOUS
    <2>3. T \subseteq R /\ Opened(k) = {"RS2"} /\ k \in PutsBack
      BY <1>4 DEF Free, Kept, Opened, Gate, Name, Registers, Port, ByRS2, Serial, Mids, Mach64s, PutsBack
    <2>4. Within(s, T) /\ Ends(s, "RS2", r["RS2"])
      BY <2>2, STGWrites, ChrontelWrites, WithinMore
    <2> HIDE DEF R, T, s
    <2>5. Within(s, R)
      BY <2>3, <2>4, WithinMore
    <2>6. Leaves(k, s, r)
      BY <2>3, <2>4, <2>5 DEF R, Leaves, Tidy, Settled
    <2> QED
      BY <2>1, <2>6, LeavesSelect
  <1>5. CASE k \in Serial
    <2> DEFINE t == S3InitClock(d, r)
               s == t \o t \o t
               T == {"SR0", "SR1.5", "CR42", "MISC", "p", "m", "n"}
    <2>1. Driver(k, f, d, r) = s \o Select(k, Output(k))
      BY <1>5 DEF Driver, Gendacs, Serial, Mach64s, Rivas
    <2>2. T \subseteq R /\ Opened(k) = {"SR0", "SR1.5"} /\ Closed("SR0") = 3 /\ Closed("SR1.5") = 0
      BY <1>5 DEF Free, Kept, Opened, Gate, Name, Registers, Port, ByRS2, Serial, Mids, Mach64s, Closed
    <2>3. Within(t, T) /\ Ends(t, "SR0", 3) /\ Ends(t, "SR1.5", 0)
      BY S3InitWrites
    <2> HIDE DEF t, R, T
    <2>4. Within(s, T) /\ Ends(s, "SR0", 3) /\ Ends(s, "SR1.5", 0)
      BY <2>3, WithinCat, WithinScript, EndsAfter
    <2> HIDE DEF s
    <2>5. Within(s, R) /\ \A x \in Opened(k) : Ends(s, x, Closed(x))
      BY <2>2, <2>4, WithinMore
    <2> QED
      BY <2>1, <2>5, LeavesAll, LeavesSelect DEF R
  <1>6. CASE k \in Mids
    <2> DEFINE s == W("MISC", 2) \o SetPixClock(d)
               T == {"PIXCLKDIS", "m", "n", "p", "MISC", "LOCK"}
    <2>1. Driver(k, f, d, r) = s
      BY <1>6 DEF Driver, Gendacs, Mids, Mach64s, Rivas
    <2>2. T \subseteq R /\ Opened(k) = {"PIXCLKDIS"} /\ Closed("PIXCLKDIS") = 0
      BY <1>6 DEF Free, Kept, Opened, Gate, Name, Registers, Port, ByRS2, Serial, Mids, Mach64s, Closed
    <2>3. Within(W("MISC", 2), T)
      BY WithinWrite
    <2> HIDE DEF T, R
    <2>4. Within(s, T) /\ Ends(s, "PIXCLKDIS", 0)
      BY <2>3, SetPixWrites, WithinCat, WithinScript, EndsAfter DEF T
    <2> HIDE DEF s
    <2>5. Within(s, R) /\ \A x \in Opened(k) : Ends(s, x, Closed(x))
      BY <2>2, <2>4, WithinMore
    <2> QED
      BY <2>1, <2>5, LeavesAll DEF R
  <1>7. CASE k \in Mach64s
    <2> DEFINE s == SetMach64(k, d, r)
    <2>1. Driver(k, f, d, r) = s
      BY <1>7 DEF Driver, Gendacs, Mach64s, Rivas
    <2>2. Mach64Writes \subseteq R /\ Opened(k) = {"EXT_DISP", "VRESET"} /\ k \in PutsBack
          /\ Closed("VRESET") = 0
      BY <1>7 DEF Free, Kept, Opened, Gate, Name, Registers, Port, ByRS2, Serial, Mids, Mach64s, PutsBack,
                  Mach64Writes, Closed
    <2>3. Within(s, Mach64Writes) /\ Ends(s, "VRESET", 0) /\ Ends(s, "EXT_DISP", r["EXT_DISP"])
      BY Mach64Gates
    <2> HIDE DEF s, R
    <2>4. Within(s, R)
      BY <2>2, <2>3, WithinMore
    <2>5. Leaves(k, s, r)
      BY <2>2, <2>3, <2>4 DEF R, Leaves, Tidy, Settled
    <2> QED
      BY <2>1, <2>5
  <1>8. CASE k \in {"SC11412", "ET4000ICD", "TGUI9320", "TGUI9440", "CYBER938x"}
    <2> DEFINE s == IF k = "SC11412" THEN SC11412(d)
                    ELSE IF k = "ET4000ICD" THEN W("MISC", 3) \o ICDWord(d) \o W("MISC", 2) ELSE TGUI(k, d)
               T == {"MISC", "CR42", "m", "n", "p", "mm", "mn"}
    <2>1. Driver(k, f, d, r) = s \o Select(k, 2)
      <3>1. CASE k = "SC11412"
        BY <3>1 DEF Driver, Gendacs, Mach64s, Rivas
      <3>2. CASE k = "ET4000ICD"
        BY <3>2 DEF Driver, Gendacs, Mach64s, Rivas
      <3>3. CASE k \in {"TGUI9320", "TGUI9440", "CYBER938x"}
        BY <3>3 DEF Driver, Gendacs, Mach64s, Rivas
      <3> QED
        BY <1>8, <3>1, <3>2, <3>3
    <2>2. T \subseteq R /\ Opened(k) = {}
      BY <1>8 DEF Free, Kept, Opened, Gate, Name, Registers, Port, ByRS2, Serial, Mids, Mach64s
    <2>3. {"p", "m", "n"} \subseteq T /\ {"MISC", "n", "m"} \subseteq T
      OBVIOUS
    <2>4. Within(W("MISC", 3), T) /\ Within(W("MISC", 2), T)
      BY WithinWrite
    <2>5. Within(SC11412(d), T)
      BY SC11412Writes
    <2> HIDE DEF T, R
    <2>6. Within(ICDWord(d), T) /\ Within(TGUI(k, d), T)
      BY <2>3, ICDWrites, PlainWrites, WithinMore
    <2>7. Within(s, T)
      BY <2>4, <2>5, <2>6, WithinCat
    <2> HIDE DEF s
    <2> QED
      BY <2>1, <2>2, <2>7, LeavesNothing, LeavesSelect DEF R
  <1>9. CASE k \in {"CIRRUS", "LAGUNA", "MGATI3026"} \cup Rivas
    <2> DEFINE s == IF k = "CIRRUS" THEN W("MISC", 3) \o CirrusSet01(d, r)
                    ELSE IF k = "LAGUNA" THEN W("MISC", 3) \o Laguna(d, r)
                    ELSE IF k = "MGATI3026" THEN W("MISC", 3) \o SetPCLK(d) ELSE Riva(d)
               T == {"MISC", "SR0E", "SR1E", "IX", "DATA", "CTL", "PLLSEL", "m", "n", "p"}
    <2>1. Driver(k, f, d, r) = s
      <3>1. CASE k = "CIRRUS"
        BY <3>1 DEF Driver, Gendacs, Mach64s, Rivas
      <3>2. CASE k = "LAGUNA"
        BY <3>2 DEF Driver, Gendacs, Mach64s, Rivas
      <3>3. CASE k = "MGATI3026"
        BY <3>3 DEF Driver, Gendacs, Mach64s, Rivas
      <3>4. CASE k \in Rivas
        BY <3>4 DEF Driver, Gendacs, Rivas, Mach64s
      <3> QED
        BY <1>9, <3>1, <3>2, <3>3, <3>4
    <2>2. T \subseteq R /\ Opened(k) = {}
      BY <1>9 DEF Free, Kept, Opened, Gate, Name, Registers, Port, ByRS2, Serial, Mids, Mach64s, Rivas
    <2>3. /\ {"SR0E", "SR1E"} \subseteq T /\ {"IX", "DATA", "CTL"} \subseteq T
          /\ {"PLLSEL", "m", "n", "p"} \subseteq T
      OBVIOUS
    <2>4. Within(W("MISC", 3), T)
      BY WithinWrite
    <2> HIDE DEF T, R
    <2>5. /\ Within(CirrusSet01(d, r), T) /\ Within(Laguna(d, r), T) /\ Within(SetPCLK(d), T)
          /\ Within(Riva(d), T)
      BY <2>3, PlainWrites, WithinMore
    <2>6. Within(s, T)
      BY <2>4, <2>5, WithinCat
    <2> HIDE DEF s
    <2> QED
      BY <2>1, <2>2, <2>6, LeavesNothing DEF R
  <1> QED
    BY <1>1, <1>2, <1>3, <1>4, <1>5, <1>6, <1>7, <1>8, <1>9
    DEF AllChips, Gendacs, OnS3, Mach64s, Serial, Mids

\* The kludge and prefer_vgaclocks.
LEMMA ClockTidy ==
  ASSUME NEW k \in AllChips, NEW f, NEW r
  PROVE  /\ Tidy(k, SetClockchipClock(k, f, r), r)
         /\ VgaIndex(k, f) = {} => Leaves(k, SetClockchipClock(k, f, r), r)
  <1> DEFINE a == IBMRGBKludge(k)
             v == Select(k, CHOOSE i \in VgaIndex(k, f) : TRUE)
             s == Driver(k, f, Setting[k][f], r)
             R == Free(k)
  <1>1. SetClockchipClock(k, f, r) = a \o (IF VgaIndex(k, f) # {} THEN v ELSE s)
    BY DEF SetClockchipClock
  <1>2. Within(a, R) /\ \A x \in Opened(k) : Settled(a, x, Closed(x))
    <2>1. CASE k = "IBMRGB5XX"
      <3>1. a = Behind(1, "CTL", 0)
        BY <2>1 DEF IBMRGBKludge
      <3>2. Within(a, {"RS2", "CTL"}) /\ Ends(a, "RS2", 0)
        BY <3>1, BehindWrites
      <3>3. {"RS2", "CTL"} \subseteq R /\ Opened(k) = {"RS2"} /\ Closed("RS2") = 0
        BY <2>1 DEF Free, Kept, Opened, Gate, Name, Registers, Port, ByRS2, Serial, Mids, Mach64s, Closed
      <3> HIDE DEF a, R
      <3> QED
        BY <3>2, <3>3, WithinMore DEF Settled
    <2>2. CASE k # "IBMRGB5XX"
      <3>1. a = <<>>
        BY <2>2 DEF IBMRGBKludge
      <3> HIDE DEF a, R
      <3>2. Within(a, R) /\ \A x \in Opened(k) : Quiet(a, x)
        BY <3>1, WithinNone, NoWrite DEF Quiet
      <3> QED
        BY <3>2 DEF Settled
    <2> QED
      BY <2>1, <2>2
  <1>3. Leaves(k, s, r)
    BY DriverLeaves
  <1>4. Tidy(k, v, r)
    <2>1. Within(v, {"MISC", "CR42", "CS"})
      BY SelectWrites
    <2>2. {"MISC", "CR42", "CS"} \subseteq R /\ \A x \in Opened(k) : x \notin {"MISC", "CR42", "CS"}
      BY DEF Free, Kept, Name, Registers, Gate, Opened
    <2> HIDE DEF v, R
    <2>3. Within(v, R) /\ \A x \in Opened(k) : Quiet(v, x)
      BY <2>1, <2>2, WithinMore, WithinQuiet
    <2> QED
      BY <2>3 DEF Tidy, Settled, R
  <1> HIDE DEF a, v, s
  <1>5. ASSUME NEW t, Tidy(k, t, r)
        PROVE  Tidy(k, a \o t, r)
    BY <1>2, <1>5, WithinCat, SettledCat DEF Tidy
  <1>6. Leaves(k, a \o s, r)
    <2>1. Tidy(k, a \o s, r)
      BY <1>3, <1>5 DEF Leaves
    <2>2. IsScript(a)
      BY <1>2, WithinScript
    <2> QED
      BY <1>3, <2>1, <2>2, EndsAfter DEF Leaves
  <1> QED
    BY <1>1, <1>4, <1>5, <1>6 DEF Leaves

LEMMA MclockTidy ==
  ASSUME NEW k \in WithMClk, NEW f, NEW r
  PROVE  Tidy(k, SetClockchipMclock(k, f, r), r)
  <1>1. CASE k \in Gendacs
    <2>1. SetClockchipMclock(k, f, r) = GendacPll(k, 4, MSetting[k][f], r)
      BY <1>1 DEF SetClockchipMclock, Gendacs, CommonSetClock
    <2> QED
      BY <1>1, <2>1, GendacLeaves DEF Leaves
  <1>2. CASE k = "S3TRIO"
    <2>1. SetClockchipMclock(k, f, r) = Trio(TRUE, MSetting[k][f])
      BY <1>2 DEF SetClockchipMclock, Gendacs, CommonSetClock
    <2> QED
      BY <1>2, <2>1, TrioLeaves DEF Leaves
  <1>3. CASE k = "MGATI3026"
    <2> DEFINE s == SetMCLK(MSetting[k][f], r)
               T == {"IX", "DATA", "LOCK", "CTL", "MX", "MEM"}
    <2>1. SetClockchipMclock(k, f, r) = s
      BY <1>3 DEF SetClockchipMclock, Gendacs, CommonSetClock
    <2>2. T \subseteq Free(k) /\ Opened(k) = {}
      BY <1>3 DEF Free, Kept, Opened, Gate, Name, Registers, Port, ByRS2, Serial, Mids, Mach64s
    <2>3. Within(s, T)
      BY SetMemWrites
    <2> HIDE DEF s, T
    <2> QED
      BY <2>1, <2>2, <2>3, LeavesNothing DEF Leaves
  <1> QED
    BY <1>1, <1>2, <1>3 DEF WithMClk

-----------------------------------------------------------------------------
(* The invariant of the gates.  One that the chip's driver goes through is *)
(* closed or will be, by a write still to come, in the runs of a program   *)
(* that was never killed; after a kill in those that program the chip, if  *)
(* the driver does not put back what it found.                             *)

Comes(x) == (Quiet(script, x) /\ regs[x] = Closed(x)) \/ Ends(script, x, Closed(x))
Clean == \/ kills = 0
         \/ /\ run # NoRun /\ phase # "mclk"
            /\ chip \notin PutsBack /\ VgaIndex(chip, run.freq) = {}

RunInv ==
  /\ chip \in Chips /\ kills \in Nat
  /\ Registers \subseteq DOMAIN regs
  /\ phase \in {"idle", "mclk", "pixel"}
  /\ phase = "idle" => script = <<>>
  /\ phase # "idle" => run # NoRun
  /\ phase = "mclk" => run.mclk \in MClks[chip]
GateInv ==
  /\ Within(script, Free(chip))
  /\ \A x \in Gate \ Opened(chip) : regs[x] = Closed(x)
  /\ Clean => \A x \in Opened(chip) : Comes(x)

LEMMA OpenedGates ==
  ASSUME NEW k
  PROVE  Opened(k) \subseteq Gate
  BY DEF Opened, Gate

LEMMA GateNames ==
  /\ Gate \subseteq Registers
  /\ \A x \in Gate : /\ x \notin {"IX", "LX", "MX", "m", "n", "p", "mm", "mn", "lp", "MSRC", "mp", "LOCK"}
                     /\ x \notin Port \cup {"PTR", "CTL"}
  BY DEF Gate, Registers, Port

LEMMA WithinStep ==
  ASSUME NEW s, NEW R, Within(s, R), s # <<>>
  PROVE  DOMAIN Head(s) \subseteq R /\ Within(Tail(s), R)
  BY HeadAndTail DEF Within

LEMMA FoundGates ==
  ASSUME NEW csr
  PROVE  /\ DOMAIN Found(csr) = Registers
         /\ \A x \in Gate : Found(csr)[x] = Closed(x)
  <1>1. DOMAIN Found(csr) = Registers
    BY DEF Found
  <1>2. ASSUME NEW x \in Gate
        PROVE  Found(csr)[x] = Closed(x)
    <2>1. CASE x = "SR0"
      BY <2>1 DEF Found, Registers, Closed
    <2>2. CASE x # "SR0"
      <3>1. /\ x \in Registers
            /\ x \notin {"p", "mp", "m", "n", "mm", "mn", "CTL", "MSRC", "CSR", "SR0E", "SR1E"}
        BY DEF Gate, Registers
      <3>2. Found(csr)[x] = 0
        BY <2>2, <3>1 DEF Found
      <3> QED
        BY <2>2, <3>2 DEF Closed
    <2> QED
      BY <2>1, <2>2
  <1> QED
    BY <1>1, <1>2

LEMMA RunInvInit == Init => RunInv
  BY FoundGates DEF Init, RunInv, NoRun

LEMMA RunInvNext == RunInv /\ [Next]_vars => RunInv'
  <1> SUFFICES ASSUME RunInv, [Next]_vars PROVE RunInv'
    OBVIOUS
  <1> USE DEF RunInv
  <1>1. CASE Start
    <2>1. PICK f \in Wanted[chip], q \in MClks[chip] \cup {0} :
            /\ run' = [freq |-> f, mclk |-> q]
            /\ IF q = 0 THEN phase' = "pixel" /\ script' = SetClockchipClock(chip, f, regs)
               ELSE phase' = "mclk" /\ script' = SetClockchipMclock(chip, q, regs)
      BY <1>1 DEF Start
    <2>2. f # 0
      BY WantedAssumption
    <2>3. run' # NoRun /\ run'.mclk = q
      BY <2>1, <2>2 DEF NoRun
    <2>4. UNCHANGED <<chip, regs, held, kills>>
      BY <1>1 DEF Start
    <2> QED
      BY <2>1, <2>3, <2>4
  <1>2. CASE Write
    BY <1>2, AfterSame DEF Write
  <1>3. CASE Locked
    BY <1>3 DEF Locked
  <1>4. CASE MClkDone
    BY <1>4 DEF MClkDone
  <1>5. CASE Done
    BY <1>5 DEF Done
  <1>6. CASE Kill
    BY <1>6, MaxKillsAssumption DEF Kill
  <1>7. CASE UNCHANGED vars
    BY <1>7 DEF vars
  <1> QED
    BY <1>1, <1>2, <1>3, <1>4, <1>5, <1>6, <1>7 DEF Next

\* What a new script does for the invariant.
LEMMA TidyComes ==
  ASSUME NEW k, NEW s, NEW r, Tidy(k, s, r), \A x \in Opened(k) : r[x] = Closed(x)
  PROVE  \A x \in Opened(k) : (Quiet(s, x) /\ r[x] = Closed(x)) \/ Ends(s, x, Closed(x))
  BY DEF Tidy, Settled

LEMMA NoneComes ==
  ASSUME script = <<>>, NEW x, Comes(x)
  PROVE  regs[x] = Closed(x)
  BY EndsNotEmpty DEF Comes

LEMMA EmptyWithin ==
  ASSUME NEW R
  PROVE  Within(<<>>, R) /\ \A x : Quiet(<<>>, x)
  BY NoWrite DEF Within, Quiet

LEMMA GateInvInit == Init => GateInv
  BY FoundGates, EmptyWithin, OpenedGates DEF Init, GateInv, Comes, Gate

LEMMA GateInvNext == RunInv /\ GateInv /\ [Next]_vars => GateInv'
  <1> SUFFICES ASSUME RunInv, GateInv, [Next]_vars PROVE GateInv'
    OBVIOUS
  <1>0. chip \in AllChips /\ (phase = "mclk" => chip \in WithMClk)
    BY ChipsAssumption, WantedAssumption DEF RunInv
  <1>1. CASE Start
    <2>1. PICK f \in Wanted[chip], q \in MClks[chip] \cup {0} :
            /\ run' = [freq |-> f, mclk |-> q]
            /\ IF q = 0 THEN phase' = "pixel" /\ script' = SetClockchipClock(chip, f, regs)
               ELSE phase' = "mclk" /\ script' = SetClockchipMclock(chip, q, regs)
      BY <1>1 DEF Start
    <2>2. phase = "idle" /\ script = <<>> /\ UNCHANGED <<chip, regs, held, kills>>
      BY <1>1 DEF Start, RunInv
    <2>3. q # 0 => chip \in WithMClk
      BY <2>1, WantedAssumption DEF RunInv
    <2>4. Tidy(chip, script', regs)
      BY <1>0, <2>1, <2>3, ClockTidy, MclockTidy
    <2>5. Within(script', Free(chip))
      BY <2>4 DEF Tidy
    <2>6. ASSUME kills = 0, NEW x \in Opened(chip)
          PROVE  Comes(x)'
      <3>1. \A y \in Opened(chip) : regs[y] = Closed(y)
        BY <2>2, <2>6, NoneComes DEF GateInv, Clean
      <3>2. (Quiet(script', x) /\ regs[x] = Closed(x)) \/ Ends(script', x, Closed(x))
        BY <2>4, <3>1, TidyComes
      <3> QED
        BY <2>2, <3>2 DEF Comes
    <2>7. ASSUME kills # 0, Clean', NEW x \in Opened(chip)
          PROVE  Comes(x)'
      <3>1. /\ phase' # "mclk" /\ chip \notin PutsBack /\ VgaIndex(chip, run'.freq) = {}
        BY <2>2, <2>7 DEF Clean
      <3>2. q = 0 /\ run'.freq = f /\ script' = SetClockchipClock(chip, f, regs)
        BY <2>1, <3>1
      <3>3. Leaves(chip, script', regs)
        BY <1>0, <3>1, <3>2, ClockTidy
      <3>4. Ends(script', x, Closed(x))
        BY <2>7, <3>1, <3>3 DEF Leaves
      <3> QED
        BY <3>4 DEF Comes
    <2> QED
      BY <2>2, <2>5, <2>6, <2>7 DEF GateInv
  <1>2. CASE Write
    <2> DEFINE w == Head(script)
    <2>1. /\ script # <<>> /\ script' = Tail(script) /\ regs' = After(regs, w)
          /\ UNCHANGED <<chip, phase, run, held, kills>>
      BY <1>2 DEF Write
    <2>2. Within(script', Free(chip)) /\ DOMAIN w \subseteq Free(chip)
      BY <2>1, WithinStep DEF GateInv
    <2>3. ASSUME NEW x \in Gate, x \notin DOMAIN w
          PROVE  regs'[x] = regs[x]
      BY <2>1, <2>3, AfterKeeps, GateNames DEF RunInv
    <2>4. \A x \in Gate \ Opened(chip) : regs'[x] = Closed(x)
      <3>1. \A x \in Gate \ Opened(chip) : x \notin DOMAIN w
        BY <2>2 DEF Free, Kept
      <3> QED
        BY <2>3, <3>1 DEF GateInv
    <2>5. ASSUME NEW x \in Opened(chip), Comes(x)
          PROVE  Comes(x)'
      <3>1. x \in Gate
        BY OpenedGates
      <3>2. CASE Quiet(script, x) /\ regs[x] = Closed(x)
        BY <2>1, <2>3, <3>1, <3>2, QuietStep DEF Comes
      <3>3. CASE Ends(script, x, Closed(x))
        <4>1. CASE Ends(script', x, Closed(x))
          BY <4>1 DEF Comes
        <4>2. CASE w = (x :> Closed(x)) /\ Quiet(script', x)
          <5>1. regs'[x] = Closed(x)
            <6>1. DOMAIN w = {x} /\ w[x] = Closed(x)
              BY <4>2 DEF :>
            <6>2. x \notin Port \cup {"PTR", "CTL"}
              BY <3>1, GateNames
            <6> HIDE DEF w
            <6>3. After(regs, w)[x] = w[x]
              BY <6>1, <6>2, AfterSets
            <6> QED
              BY <2>1, <6>1, <6>3
          <5> QED
            BY <4>2, <5>1 DEF Comes
        <4> QED
          BY <2>1, <3>3, <4>1, <4>2, EndsStep
      <3> QED
        BY <2>5, <3>2, <3>3 DEF Comes
    <2>6. Clean' => Clean
      BY <2>1 DEF Clean
    <2> QED
      BY <2>1, <2>2, <2>4, <2>5, <2>6 DEF GateInv
  <1>3. CASE Locked
    <2> DEFINE w == Head(script)
    <2>1. /\ script # <<>> /\ script' = Tail(script) /\ "LOCK" \in DOMAIN w
          /\ UNCHANGED <<chip, regs, phase, run, held, kills>>
      BY <1>3 DEF Locked
    <2>2. Within(script', Free(chip))
      BY <2>1, WithinStep DEF GateInv
    <2>3. ASSUME NEW x \in Opened(chip), Comes(x)
          PROVE  Comes(x)'
      <3>1. x \in Gate /\ x # "LOCK"
        BY OpenedGates, GateNames
      <3>2. CASE Quiet(script, x) /\ regs[x] = Closed(x)
        BY <2>1, <3>2, QuietStep DEF Comes
      <3>3. CASE Ends(script, x, Closed(x))
        <4>1. w # (x :> Closed(x))
          BY <2>1, <3>1 DEF :>
        <4> QED
          BY <2>1, <3>3, <4>1, EndsStep DEF Comes
      <3> QED
        BY <2>3, <3>2, <3>3 DEF Comes
    <2>4. Clean' => Clean
      BY <2>1 DEF Clean
    <2> QED
      BY <2>1, <2>2, <2>3, <2>4 DEF GateInv
  <1>4. CASE MClkDone
    <2>1. /\ phase = "mclk" /\ script = <<>> /\ phase' = "pixel"
          /\ script' = SetClockchipClock(chip, run.freq, regs)
          /\ UNCHANGED <<chip, regs, run, kills>>
      BY <1>4 DEF MClkDone
    <2>2. Tidy(chip, script', regs)
      BY <1>0, <2>1, ClockTidy
    <2>3. Within(script', Free(chip))
      BY <2>2 DEF Tidy
    <2>4. ASSUME kills = 0, NEW x \in Opened(chip)
          PROVE  Comes(x)'
      <3>1. \A y \in Opened(chip) : regs[y] = Closed(y)
        BY <2>1, <2>4, NoneComes DEF GateInv, Clean
      <3>2. (Quiet(script', x) /\ regs[x] = Closed(x)) \/ Ends(script', x, Closed(x))
        BY <2>2, <3>1, TidyComes
      <3> QED
        BY <2>1, <3>2 DEF Comes
    <2>5. ASSUME kills # 0, Clean', NEW x \in Opened(chip)
          PROVE  Comes(x)'
      <3>1. chip \notin PutsBack /\ VgaIndex(chip, run.freq) = {}
        BY <2>1, <2>5 DEF Clean
      <3>2. Leaves(chip, script', regs)
        BY <1>0, <2>1, <3>1, ClockTidy
      <3>3. Ends(script', x, Closed(x))
        BY <2>5, <3>1, <3>2 DEF Leaves
      <3> QED
        BY <3>3 DEF Comes
    <2> QED
      BY <2>1, <2>3, <2>4, <2>5 DEF GateInv
  <1>5. CASE Done
    <2>1. UNCHANGED <<chip, regs, script, run, held, kills>> /\ phase = "pixel"
      BY <1>5 DEF Done
    <2>2. (Clean' => Clean) /\ \A x : Comes(x)' <=> Comes(x)
      BY <2>1 DEF Clean, Comes
    <2> QED
      BY <2>1, <2>2 DEF GateInv
  <1>6. CASE Kill
    <2>1. script' = <<>> /\ run' = NoRun /\ kills' = kills + 1 /\ UNCHANGED <<chip, regs, held>>
      BY <1>6 DEF Kill
    <2>2. ~Clean'
      BY <2>1 DEF Clean, RunInv
    <2> QED
      BY <2>1, <2>2, EmptyWithin DEF GateInv
  <1>7. CASE UNCHANGED vars
    <2>1. (Clean' <=> Clean) /\ \A x : Comes(x)' <=> Comes(x)
      BY <1>7 DEF vars, Clean, Comes
    <2> QED
      BY <1>7, <2>1 DEF GateInv, vars
  <1> QED
    BY <1>1, <1>2, <1>3, <1>4, <1>5, <1>6, <1>7 DEF Next

LEMMA GatesClosed == RunInv /\ GateInv => NothingLeftOpen
  <1> SUFFICES ASSUME RunInv, GateInv, Over,
                      kills = 0 \/ (chip \notin PutsBack /\ VgaIndex(chip, run.freq) = {})
               PROVE  /\ \A x \in {"RS2", "SR8", "SR1.5", "PIXCLKDIS", "VRESET", "EXT_DISP"} : regs[x] = 0
                      /\ regs["SR0"] = 3
    BY DEF NothingLeftOpen
  <1>1. Clean /\ script = <<>>
    BY DEF Clean, Over, RunInv
  <1>2. \A x \in Gate : regs[x] = Closed(x)
    BY <1>1, NoneComes DEF GateInv
  <1> QED
    BY <1>2 DEF Gate, Closed

\* When a run is over the way to the clock registers, the locks, the resets
\* and the screen are as they were before it, whatever the frequencies, and
\* after a killed run as soon as another one programs the chip.
THEOREM GatesAreLeftClosed == Spec => []NothingLeftOpen
  <1>1. RunInv /\ GateInv /\ [Next]_vars => RunInv' /\ GateInv'
    BY RunInvNext, GateInvNext
  <1> QED
    BY <1>1, RunInvInit, GateInvInit, GatesClosed, PTL DEF Spec

-----------------------------------------------------------------------------
(* The writes of a script one by one.                                      *)

Wr(x, v) == x :> v

\* s has n writes, those of the list F after its first a.
Lists(s, F, a, n) ==
  /\ IsScript(s) /\ Len(s) = n
  /\ \A i \in 1..n : s[i] = F[a + i]

LEMMA ListsOne ==
  ASSUME NEW w, NEW F, NEW a \in Nat, NEW b, b = a + 1, F[b] = w
  PROVE  Lists(<<w>>, F, a, 1)
  BY OneWrite DEF Lists

LEMMA ListsWrite ==
  ASSUME NEW x, NEW v, NEW F, NEW a \in Nat, NEW b, b = a + 1, F[b] = Wr(x, v)
  PROVE  Lists(W(x, v), F, a, 1)
  <1>1. W(x, v) = <<Wr(x, v)>>
    BY DEF Wr, W
  <1>2. Lists(<<Wr(x, v)>>, F, a, 1)
    BY ListsOne
  <1> QED
    BY <1>1, <1>2

LEMMA ListsLock ==
  ASSUME NEW pll, NEW F, NEW a \in Nat, NEW b, b = a + 1, F[b] = Wr("LOCK", pll)
  PROVE  Lists(Lock(pll), F, a, 1)
  <1>1. Lock(pll) = <<Wr("LOCK", pll)>>
    BY DEF Wr, Lock
  <1>2. Lists(<<Wr("LOCK", pll)>>, F, a, 1)
    BY ListsOne
  <1> QED
    BY <1>1, <1>2

LEMMA ListsCat ==
  ASSUME NEW s, NEW u, NEW F, NEW a \in Nat, NEW m \in Nat, NEW n \in Nat,
         NEW b, b = a + m, NEW l, l = m + n, Lists(s, F, a, m), Lists(u, F, b, n)
  PROVE  Lists(s \o u, F, a, l)
  <1> DEFINE t == s \o u
  <1>0. IsScript(s) /\ IsScript(u) /\ Len(s) = m /\ Len(u) = n
    BY DEF Lists
  <1>1. /\ IsScript(t) /\ Len(t) = m + n
        /\ \A i \in 1..(m + n) : t[i] = IF i <= m THEN s[i] ELSE u[i - m]
    BY <1>0, Cat
  <1> HIDE DEF t
  <1>2. ASSUME NEW i \in 1..(m + n)
        PROVE  t[i] = F[a + i]
    <2>1. CASE i <= m
      <3>1. i \in 1..m /\ t[i] = s[i]
        BY <1>1, <2>1
      <3> QED
        BY <3>1 DEF Lists
    <2>2. CASE ~(i <= m)
      <3>1. i - m \in 1..n /\ t[i] = u[i - m] /\ b + (i - m) = a + i
        BY <1>1, <2>2
      <3>2. u[i - m] = F[b + (i - m)]
        BY <3>1 DEF Lists
      <3> QED
        BY <3>1, <3>2
    <2> QED
      BY <2>1, <2>2
  <1>3. Lists(t, F, a, l)
    BY <1>1, <1>2 DEF Lists
  <1> QED
    BY <1>3 DEF t

\* The next write is made.
LEMMA ListsStep ==
  ASSUME NEW s, NEW F, NEW a \in Nat, NEW n \in Nat, Lists(s, F, a, n), s # <<>>
  PROVE  /\ n > 0 /\ Head(s) = F[a + 1]
         /\ Lists(Tail(s), F, a + 1, n - 1)
  <1>1. /\ IsScript(Tail(s)) /\ Len(s) \in Nat \ {0} /\ Len(Tail(s)) = Len(s) - 1
        /\ Head(s) = s[1]
        /\ \A i \in 1..Len(Tail(s)) : Tail(s)[i] = s[i + 1]
    BY HeadAndTail DEF Lists
  <1>2. Len(s) = n
    BY DEF Lists
  <1>3. ASSUME NEW i \in 1..(n - 1)
        PROVE  Tail(s)[i] = F[(a + 1) + i]
    <2>1. i + 1 \in 1..n /\ a + (i + 1) = (a + 1) + i
      OBVIOUS
    <2> QED
      BY <1>1, <1>2, <2>1 DEF Lists
  <1>4. s[1] = F[a + 1]
    BY <1>1, <1>2 DEF Lists
  <1> QED
    BY <1>1, <1>2, <1>3, <1>4 DEF Lists

LEMMA ListsEnd ==
  ASSUME NEW F, NEW a, NEW n, Lists(<<>>, F, a, n)
  PROVE  n = 0
  BY NoWrite DEF Lists

\* set_clockchip_Mclock's script on a Matrox.
MemWrites(d, r) ==
  << Wr("IX", 3), Wr("DATA", 0),
     Wr("IX", 1), Wr("DATA", d.n), Wr("DATA", d.m), Wr("DATA", d.p + On), Wr("LOCK", "p"),
     Wr("CTL", 0), Wr("CTL", 1),
     Wr("MX", 3), Wr("MEM", 0),
     Wr("MX", 1), Wr("MEM", d.n), Wr("MEM", d.m), Wr("MEM", d.p + On), Wr("LOCK", "mp"),
     Wr("CTL", 2), Wr("CTL", 3),
     Wr("IX", 3), Wr("DATA", 0),
     Wr("IX", 1), Wr("DATA", r["n"]), Wr("DATA", r["m"]), Wr("DATA", r["p"]), Wr("LOCK", "p") >>

LEMMA TiDataLists ==
  ASSUME NEW port, NEW d, NEW F, NEW a \in Nat, NEW b, b = a + 1, NEW c, c = a + 2, NEW e, e = a + 3,
         F[b] = Wr(port, d.n), F[c] = Wr(port, d.m), F[e] = Wr(port, d.p + On)
  PROVE  Lists(TiData(port, d), F, a, 3)
  <1>1. Lists(W(port, d.n), F, a, 1) /\ Lists(W(port, d.m), F, b, 1) /\ Lists(W(port, d.p + On), F, c, 1)
    BY ListsWrite
  <1>2. Lists(W(port, d.n) \o W(port, d.m), F, a, 2)
    BY <1>1, ListsCat
  <1>3. Lists(W(port, d.n) \o W(port, d.m) \o W(port, d.p + On), F, a, 3)
    BY <1>1, <1>2, ListsCat
  <1> QED
    BY <1>3 DEF TiData

LEMMA SetMCLKLists ==
  ASSUME NEW d, NEW r
  PROVE  Lists(SetMCLK(d, r), MemWrites(d, r), 0, 25)
  <1> DEFINE F == MemWrites(d, r)
  <1>1. /\ F[1] = Wr("IX", 3) /\ F[2] = Wr("DATA", 0)
        /\ F[3] = Wr("IX", 1) /\ F[4] = Wr("DATA", d.n) /\ F[5] = Wr("DATA", d.m)
        /\ F[6] = Wr("DATA", d.p + On) /\ F[7] = Wr("LOCK", "p")
        /\ F[8] = Wr("CTL", 0) /\ F[9] = Wr("CTL", 1)
    BY DEF MemWrites
  <1>2. /\ F[10] = Wr("MX", 3) /\ F[11] = Wr("MEM", 0)
        /\ F[12] = Wr("MX", 1) /\ F[13] = Wr("MEM", d.n) /\ F[14] = Wr("MEM", d.m)
        /\ F[15] = Wr("MEM", d.p + On) /\ F[16] = Wr("LOCK", "mp")
    BY DEF MemWrites
  <1>3. /\ F[17] = Wr("CTL", 2) /\ F[18] = Wr("CTL", 3)
        /\ F[19] = Wr("IX", 3) /\ F[20] = Wr("DATA", 0)
        /\ F[21] = Wr("IX", 1) /\ F[22] = Wr("DATA", r["n"]) /\ F[23] = Wr("DATA", r["m"])
        /\ F[24] = Wr("DATA", r["p"]) /\ F[25] = Wr("LOCK", "p")
    BY DEF MemWrites
  <1> HIDE DEF F
  <1>4. Lists(Borrow(d), F, 2, 7)
    <2>1. /\ Lists(W("IX", 1), F, 2, 1) /\ Lists(Lock("p"), F, 6, 1)
          /\ Lists(W("CTL", 0), F, 7, 1) /\ Lists(W("CTL", 1), F, 8, 1)
      BY <1>1, ListsWrite, ListsLock
    <2>2. Lists(TiData("DATA", d), F, 3, 3)
      BY <1>1, TiDataLists
    <2>3. Lists(W("IX", 1) \o TiData("DATA", d), F, 2, 4)
      BY <2>1, <2>2, ListsCat
    <2>4. Lists(W("IX", 1) \o TiData("DATA", d) \o Lock("p"), F, 2, 5)
      BY <2>1, <2>3, ListsCat
    <2>5. Lists(W("IX", 1) \o TiData("DATA", d) \o Lock("p") \o W("CTL", 0), F, 2, 6)
      BY <2>1, <2>4, ListsCat
    <2>6. Lists(W("IX", 1) \o TiData("DATA", d) \o Lock("p") \o W("CTL", 0) \o W("CTL", 1), F, 2, 7)
      BY <2>1, <2>5, ListsCat
    <2> QED
      BY <2>6 DEF Borrow
  <1>5. Lists(SetMem(d), F, 9, 7)
    <2>1. /\ Lists(W("MX", 3), F, 9, 1) /\ Lists(W("MEM", 0), F, 10, 1) /\ Lists(W("MX", 1), F, 11, 1)
          /\ Lists(Lock("mp"), F, 15, 1)
      BY <1>2, ListsWrite, ListsLock
    <2>2. Lists(TiData("MEM", d), F, 12, 3)
      BY <1>2, TiDataLists
    <2>3. Lists(W("MX", 3) \o W("MEM", 0), F, 9, 2)
      BY <2>1, ListsCat
    <2>4. Lists(W("MX", 3) \o W("MEM", 0) \o W("MX", 1), F, 9, 3)
      BY <2>1, <2>3, ListsCat
    <2>5. Lists(W("MX", 3) \o W("MEM", 0) \o W("MX", 1) \o TiData("MEM", d), F, 9, 6)
      BY <2>2, <2>4, ListsCat
    <2>6. Lists(W("MX", 3) \o W("MEM", 0) \o W("MX", 1) \o TiData("MEM", d) \o Lock("mp"), F, 9, 7)
      BY <2>1, <2>5, ListsCat
    <2> QED
      BY <2>6 DEF SetMem
  <1>6. Lists(GiveBack(r), F, 16, 9)
    <2>1. Lists(W("CTL", 2), F, 16, 1) /\ Lists(W("CTL", 3), F, 17, 1)
      BY <1>3, ListsWrite
    <2>2. Lists(W("CTL", 2) \o W("CTL", 3), F, 16, 2)
      BY <2>1, ListsCat
    <2>3. Lists(W("IX", 3), F, 18, 1)
      BY <1>3, ListsWrite
    <2>4. Lists(W("CTL", 2) \o W("CTL", 3) \o W("IX", 3), F, 16, 3)
      BY <2>2, <2>3, ListsCat
    <2>5. Lists(W("DATA", 0), F, 19, 1)
      BY <1>3, ListsWrite
    <2>6. Lists(W("CTL", 2) \o W("CTL", 3) \o W("IX", 3) \o W("DATA", 0), F, 16, 4)
      BY <2>4, <2>5, ListsCat
    <2> DEFINE t == W("CTL", 2) \o W("CTL", 3) \o W("IX", 3) \o W("DATA", 0)
    <2>7. Lists(W("IX", 1), F, 20, 1)
      BY <1>3, ListsWrite
    <2>8. Lists(t \o W("IX", 1), F, 16, 5)
      BY <2>6, <2>7, ListsCat
    <2>9. Lists(W("DATA", r["n"]), F, 21, 1)
      BY <1>3, ListsWrite
    <2>10. Lists(t \o W("IX", 1) \o W("DATA", r["n"]), F, 16, 6)
      BY <2>8, <2>9, ListsCat
    <2>11. Lists(W("DATA", r["m"]), F, 22, 1)
      BY <1>3, ListsWrite
    <2>12. Lists(t \o W("IX", 1) \o W("DATA", r["n"]) \o W("DATA", r["m"]), F, 16, 7)
      BY <2>10, <2>11, ListsCat
    <2>13. Lists(W("DATA", r["p"]), F, 23, 1)
      BY <1>3, ListsWrite
    <2>14. Lists(t \o W("IX", 1) \o W("DATA", r["n"]) \o W("DATA", r["m"]) \o W("DATA", r["p"]),
                 F, 16, 8)
      BY <2>12, <2>13, ListsCat
    <2>15. Lists(Lock("p"), F, 24, 1)
      BY <1>3, ListsLock
    <2>16. Lists(t \o W("IX", 1) \o W("DATA", r["n"]) \o W("DATA", r["m"]) \o W("DATA", r["p"]) \o Lock("p"),
                 F, 16, 9)
      BY <2>14, <2>15, ListsCat
    <2> QED
      BY <2>16 DEF GiveBack
  <1>7. Lists(SetMCLK(d, r), F, 0, 25)
    <2>1. Lists(W("IX", 3), F, 0, 1) /\ Lists(W("DATA", 0), F, 1, 1)
      BY <1>1, ListsWrite
    <2>2. Lists(W("IX", 3) \o W("DATA", 0), F, 0, 2)
      BY <2>1, ListsCat
    <2>3. Lists(W("IX", 3) \o W("DATA", 0) \o Borrow(d), F, 0, 9)
      BY <1>4, <2>2, ListsCat
    <2>4. Lists(W("IX", 3) \o W("DATA", 0) \o Borrow(d) \o SetMem(d), F, 0, 16)
      BY <1>5, <2>3, ListsCat
    <2>5. Lists(W("IX", 3) \o W("DATA", 0) \o Borrow(d) \o SetMem(d) \o GiveBack(r), F, 0, 25)
      BY <1>6, <2>4, ListsCat
    <2> QED
      BY <2>5 DEF SetMCLK
  <1> QED
    BY <1>7 DEF F

-----------------------------------------------------------------------------
(* What a write does to a Matrox's registers.                              *)

\* The i-th register behind a port is a; there is none.
Cell(port, i, a) == i \in DOMAIN Cells(port) /\ Cells(port)[i] = a
NoCell(port, i)  == i \notin DOMAIN Cells(port) \/ Cells(port)[i] = ""

LEMMA ThreeCells ==
  ASSUME NEW cells, NEW a, NEW b, NEW c, cells = <<a, b, c>>
  PROVE  DOMAIN cells = 1..3 /\ cells[1] = a /\ cells[2] = b /\ cells[3] = c
  OBVIOUS

LEMMA MgaCells ==
  ASSUME chip = "MGATI3026"
  PROVE  /\ Cell("DATA", 1, "n") /\ Cell("DATA", 2, "m") /\ Cell("DATA", 3, "p")
         /\ Cell("MEM", 1, "mn") /\ Cell("MEM", 2, "mm") /\ Cell("MEM", 3, "mp")
         /\ \A i : i \notin 1..3 => NoCell("DATA", i) /\ NoCell("MEM", i)
  <1> DEFINE c == Cells("DATA")
             e == Cells("MEM")
  <1>1. c = <<"n", "m", "p">> /\ e = <<"mn", "mm", "mp">>
    BY CellsOf DEF Port
  <1> HIDE DEF c, e
  <1>2. DOMAIN c = 1..3 /\ c[1] = "n" /\ c[2] = "m" /\ c[3] = "p"
    BY <1>1, ThreeCells
  <1>3. DOMAIN e = 1..3 /\ e[1] = "mn" /\ e[2] = "mm" /\ e[3] = "mp"
    BY <1>1, ThreeCells
  <1>4. /\ 1 \in DOMAIN c /\ 2 \in DOMAIN c /\ 3 \in DOMAIN c
        /\ 1 \in DOMAIN e /\ 2 \in DOMAIN e /\ 3 \in DOMAIN e
    BY <1>2, <1>3
  <1> QED
    BY <1>2, <1>3, <1>4, Zenon DEF Cell, NoCell, c, e

\* The register a port leads to.
To(r, port) == IF r[Pointer[port]] \in DOMAIN Cells(port) THEN Cells(port)[r[Pointer[port]]] ELSE ""

LEMMA AfterPort ==
  ASSUME NEW r, NEW v, NEW port \in Port
  PROVE  After(r, Wr(port, v)) =
           IF To(r, port) = "" THEN r
           ELSE [r EXCEPT ![To(r, port)] = v, ![Pointer[port]] = r[Pointer[port]] + 1]
  <1> DEFINE w == Wr(port, v)
  <1>1. DOMAIN w = {port} /\ w[port] = v
    BY DEF Wr, :>
  <1> HIDE DEF w
  <1>2. /\ \E q \in DOMAIN Pointer : q \in DOMAIN w
        /\ (CHOOSE q \in DOMAIN Pointer : q \in DOMAIN w) = port
    BY <1>1, Pointers
  <1>3. After(r, w) = IF To(r, port) = "" THEN r
                      ELSE [r EXCEPT ![To(r, port)] = w[port], ![Pointer[port]] = r[Pointer[port]] + 1]
    BY <1>2 DEF After, To
  <1> QED
    BY <1>1, <1>3 DEF w

LEMMA AfterNoCell ==
  ASSUME NEW r, NEW v, NEW port \in Port, To(r, port) = ""
  PROVE  After(r, Wr(port, v)) = r
  BY AfterPort

LEMMA AfterCell ==
  ASSUME NEW r, Registers \subseteq DOMAIN r, NEW v, NEW port \in Port, NEW a, To(r, port) = a,
         a \in Registers, NEW p, p = Pointer[port], p \in Registers, a # p,
         NEW t, t = After(r, Wr(port, v))
  PROVE  t[p] = r[p] + 1 /\ t[a] = v /\ \A y \in Registers : y # a /\ y # p => t[y] = r[y]
  <1>1. t = IF To(r, port) = "" THEN r
            ELSE [r EXCEPT ![To(r, port)] = v, ![Pointer[port]] = r[Pointer[port]] + 1]
    BY AfterPort, Zenon
  <1>2. a # ""
    BY DEF Registers
  <1>3. t = [r EXCEPT ![a] = v, ![p] = r[p] + 1]
    BY <1>1, <1>2, Zenon
  <1> QED
    BY <1>3

LEMMA MgaData ==
  ASSUME chip = "MGATI3026", NEW r, Registers \subseteq DOMAIN r, NEW v, NEW t, t = After(r, Wr("DATA", v))
  PROVE  /\ r["IX"] = 1 => t["IX"] = 2 /\ t["n"] = v
         /\ r["IX"] = 2 => t["IX"] = 3 /\ t["m"] = v
         /\ r["IX"] = 3 => t["p"] = v
         /\ r["IX"] # 1 => t["n"] = r["n"]
         /\ r["IX"] # 2 => t["m"] = r["m"]
         /\ r["IX"] # 3 => t["p"] = r["p"]
         /\ \A y \in {"MSRC", "mp", "mn", "mm", "MX", "CTL"} : t[y] = r[y]
  <1>1. "DATA" \in Port /\ Pointer["DATA"] = "IX"
    BY Pointers DEF Port
  <1>2. "IX" \in Registers /\ {"n", "m", "p"} \subseteq Registers /\ {"MSRC", "mp", "mn", "mm", "MX", "CTL"} \subseteq Registers
    BY DEF Registers
  <1>3. CASE r["IX"] = 1
    <2>1. To(r, "DATA") = "n"
      BY <1>1, <1>3, MgaCells, Zenon DEF To, Cell
    <2>2. "n" \in Registers /\ "IX" \in Registers /\ "n" # "IX"
      BY <1>2
    <2>3. t["IX"] = r["IX"] + 1 /\ t["n"] = v /\ \A y \in Registers : y # "n" /\ y # "IX" => t[y] = r[y]
      BY <1>1, <2>1, <2>2, AfterCell
    <2> QED
      BY <1>2, <1>3, <2>3
  <1>4. CASE r["IX"] = 2
    <2>1. To(r, "DATA") = "m"
      BY <1>1, <1>4, MgaCells, Zenon DEF To, Cell
    <2>2. "m" \in Registers /\ "IX" \in Registers /\ "m" # "IX"
      BY <1>2
    <2>3. t["IX"] = r["IX"] + 1 /\ t["m"] = v /\ \A y \in Registers : y # "m" /\ y # "IX" => t[y] = r[y]
      BY <1>1, <2>1, <2>2, AfterCell
    <2> QED
      BY <1>2, <1>4, <2>3
  <1>5. CASE r["IX"] = 3
    <2>1. To(r, "DATA") = "p"
      BY <1>1, <1>5, MgaCells, Zenon DEF To, Cell
    <2>2. "p" \in Registers /\ "IX" \in Registers /\ "p" # "IX"
      BY <1>2
    <2>3. t["IX"] = r["IX"] + 1 /\ t["p"] = v /\ \A y \in Registers : y # "p" /\ y # "IX" => t[y] = r[y]
      BY <1>1, <2>1, <2>2, AfterCell
    <2> QED
      BY <1>2, <1>5, <2>3
  <1>6. CASE r["IX"] \notin 1..3
    <2>1. To(r, "DATA") = ""
      BY <1>1, <1>6, MgaCells, Zenon DEF To, NoCell
    <2>2. t = r
      BY <1>1, <2>1, AfterNoCell
    <2> QED
      BY <1>6, <2>2
  <1> QED
    BY <1>3, <1>4, <1>5, <1>6

LEMMA MgaMem ==
  ASSUME chip = "MGATI3026", NEW r, Registers \subseteq DOMAIN r, NEW v, NEW t, t = After(r, Wr("MEM", v))
  PROVE  /\ r["MX"] = 1 => t["MX"] = 2 /\ t["mn"] = v
         /\ r["MX"] = 2 => t["MX"] = 3 /\ t["mm"] = v
         /\ r["MX"] = 3 => t["mp"] = v
         /\ r["MX"] # 1 => t["mn"] = r["mn"]
         /\ r["MX"] # 2 => t["mm"] = r["mm"]
         /\ r["MX"] # 3 => t["mp"] = r["mp"]
         /\ \A y \in {"MSRC", "p", "IX", "CTL"} : t[y] = r[y]
  <1>1. "MEM" \in Port /\ Pointer["MEM"] = "MX"
    BY Pointers DEF Port
  <1>2. "MX" \in Registers /\ {"mn", "mm", "mp"} \subseteq Registers /\ {"MSRC", "p", "IX", "CTL"} \subseteq Registers
    BY DEF Registers
  <1>3. CASE r["MX"] = 1
    <2>1. To(r, "MEM") = "mn"
      BY <1>1, <1>3, MgaCells, Zenon DEF To, Cell
    <2>2. "mn" \in Registers /\ "MX" \in Registers /\ "mn" # "MX"
      BY <1>2
    <2>3. t["MX"] = r["MX"] + 1 /\ t["mn"] = v /\ \A y \in Registers : y # "mn" /\ y # "MX" => t[y] = r[y]
      BY <1>1, <2>1, <2>2, AfterCell
    <2> QED
      BY <1>2, <1>3, <2>3
  <1>4. CASE r["MX"] = 2
    <2>1. To(r, "MEM") = "mm"
      BY <1>1, <1>4, MgaCells, Zenon DEF To, Cell
    <2>2. "mm" \in Registers /\ "MX" \in Registers /\ "mm" # "MX"
      BY <1>2
    <2>3. t["MX"] = r["MX"] + 1 /\ t["mm"] = v /\ \A y \in Registers : y # "mm" /\ y # "MX" => t[y] = r[y]
      BY <1>1, <2>1, <2>2, AfterCell
    <2> QED
      BY <1>2, <1>4, <2>3
  <1>5. CASE r["MX"] = 3
    <2>1. To(r, "MEM") = "mp"
      BY <1>1, <1>5, MgaCells, Zenon DEF To, Cell
    <2>2. "mp" \in Registers /\ "MX" \in Registers /\ "mp" # "MX"
      BY <1>2
    <2>3. t["MX"] = r["MX"] + 1 /\ t["mp"] = v /\ \A y \in Registers : y # "mp" /\ y # "MX" => t[y] = r[y]
      BY <1>1, <2>1, <2>2, AfterCell
    <2> QED
      BY <1>2, <1>5, <2>3
  <1>6. CASE r["MX"] \notin 1..3
    <2>1. To(r, "MEM") = ""
      BY <1>1, <1>6, MgaCells, Zenon DEF To, NoCell
    <2>2. t = r
      BY <1>1, <2>1, AfterNoCell
    <2> QED
      BY <1>6, <2>2
  <1> QED
    BY <1>3, <1>4, <1>5, <1>6

\* Only a rising CTL.0 lets the memory change hands.
LEMMA MgaCtl ==
  ASSUME chip = "MGATI3026", NEW r, Registers \subseteq DOMAIN r, NEW c \in 0..3,
         NEW t, t = After(r, Wr("CTL", c))
  PROVE  /\ t["MSRC"] = IF c = 1 THEN 0 ELSE IF c = 3 THEN 1 ELSE r["MSRC"]
         /\ \A y \in {"p", "mp", "mn", "mm", "MX", "IX"} : t[y] = r[y]
  <1> DEFINE w == Wr("CTL", c)
  <1>1. DOMAIN w = {"CTL"} /\ w["CTL"] = c
    BY DEF Wr, :>
  <1> HIDE DEF w
  <1>2. /\ ~\E port \in DOMAIN Pointer : port \in DOMAIN w
        /\ "PTR" \notin DOMAIN w /\ "CTL" \in DOMAIN w
    BY <1>1, Pointers DEF Port
  <1>3. {"p", "mp", "mn", "mm", "MX", "IX", "MSRC", "CTL"} \subseteq Registers
    BY DEF Registers
  <1> DEFINE z == w @@ r
             E == {"p", "mp", "mn", "mm", "MX", "IX", "MSRC"}
  <1>4. E \subseteq DOMAIN z /\ \A y \in E : z[y] = r[y]
    BY <1>1, <1>3 DEF @@
  <1>5. CASE c \in {1, 3}
    <2>1. c % 2 = 1 /\ c \div 2 = IF c = 1 THEN 0 ELSE 1
      BY <1>5
    <2>2. t = [z EXCEPT !["MSRC"] = IF c = 1 THEN 0 ELSE 1]
      BY <1>1, <1>2, <2>1 DEF After, w
    <2> HIDE DEF z
    <2> QED
      BY <1>4, <1>5, <2>2
  <1>6. CASE c \in {0, 2}
    <2>1. t = z
      BY <1>1, <1>2, <1>6 DEF After, w
    <2> HIDE DEF z
    <2> QED
      BY <1>4, <1>6, <2>1
  <1> QED
    BY <1>5, <1>6

\* IX, MX and MISC are set and nothing else.
LEMMA MgaSet ==
  ASSUME NEW r, Registers \subseteq DOMAIN r, NEW x \in {"IX", "MX", "MISC"}, NEW v,
         NEW t, t = After(r, Wr(x, v))
  PROVE  t[x] = v /\ \A y \in Registers : y # x => t[y] = r[y]
  <1> DEFINE w == Wr(x, v)
  <1>1. DOMAIN w = {x} /\ w[x] = v
    BY DEF Wr, :>
  <1>2. t = After(r, w)
    OBVIOUS
  <1> HIDE DEF w
  <1>3. x \notin Port \cup {"PTR", "CTL"}
    BY DEF Port
  <1> QED
    BY <1>1, <1>2, <1>3, AfterSets

-----------------------------------------------------------------------------
(* The memory's clock while a Matrox's is being programmed.                *)

\* Where the registers are after j of the writes of MemWrites(d, ...).
At(j, r, d) ==
  /\ r["MSRC"] = IF j \in 9..17 THEN 0 ELSE 1
  /\ j \notin 11..14 => r["mp"] >= On
  /\ j \in 6..19 => r["p"] >= On
  /\ j \in 3..5 => r["IX"] = j - 2
  /\ j = 10 => r["MX"] = 3
  /\ j \in 12..14 => r["MX"] = j - 11
  /\ j >= 13 => r["mn"] = d.n
  /\ j >= 14 => r["mm"] = d.m

LEMMA MemStep ==
  ASSUME chip = "MGATI3026", NEW r, Registers \subseteq DOMAIN r, NEW d, d.p \in Nat, NEW s,
         NEW j \in 0..24, At(j, r, d), NEW w, w = MemWrites(d, s)[j + 1], NEW t,
         t = IF j \in {6, 15, 24} THEN r ELSE After(r, w)
  PROVE  At(j + 1, t, d)
  <1> DEFINE X == {"MSRC", "mp", "p", "IX", "MX", "mn", "mm"}
  <1>0. X \subseteq Registers
    BY DEF Registers
  <1>1. CASE j \in {0, 2, 18, 20}
    <2>1. w = Wr("IX", IF j \in {0, 18} THEN 3 ELSE 1)
      BY <1>1 DEF MemWrites
    <2>2. t["IX"] = (IF j \in {0, 18} THEN 3 ELSE 1) /\ \A y \in X \ {"IX"} : t[y] = r[y]
      BY <1>0, <1>1, <2>1, MgaSet
    <2> QED
      BY <1>1, <2>2 DEF At
  <1>2. CASE j \in {9, 11}
    <2>1. w = Wr("MX", IF j = 9 THEN 3 ELSE 1)
      BY <1>2 DEF MemWrites
    <2>2. t["MX"] = (IF j = 9 THEN 3 ELSE 1) /\ \A y \in X \ {"MX"} : t[y] = r[y]
      BY <1>0, <1>2, <2>1, MgaSet
    <2> QED
      BY <1>2, <2>2 DEF At
  <1>3. CASE j \in {1, 3, 4, 5, 19, 21, 22, 23}
    <2>1. PICK v : w = Wr("DATA", v) /\ (j = 5 => v = d.p + On)
      BY <1>3 DEF MemWrites
    <2>2. t = After(r, Wr("DATA", v))
      BY <1>3, <2>1
    <2>3. /\ r["IX"] = 1 => t["IX"] = 2
          /\ r["IX"] = 2 => t["IX"] = 3
          /\ r["IX"] = 3 => t["p"] = v
          /\ r["IX"] # 3 => t["p"] = r["p"]
          /\ t["MSRC"] = r["MSRC"] /\ t["mp"] = r["mp"] /\ t["mn"] = r["mn"] /\ t["mm"] = r["mm"]
      BY <2>2, MgaData
    <2>4. v >= On \/ j # 5
      BY <2>1 DEF On
    <2> QED
      BY <1>3, <2>3, <2>4 DEF At
  <1>4. CASE j \in {10, 12, 13, 14}
    <2>1. PICK v : w = Wr("MEM", v) /\ (j = 12 => v = d.n) /\ (j = 13 => v = d.m) /\ (j = 14 => v = d.p + On)
      BY <1>4 DEF MemWrites
    <2>2. t = After(r, Wr("MEM", v))
      BY <1>4, <2>1
    <2>3. /\ r["MX"] = 1 => t["MX"] = 2 /\ t["mn"] = v
          /\ r["MX"] = 2 => t["MX"] = 3 /\ t["mm"] = v
          /\ r["MX"] = 3 => t["mp"] = v
          /\ r["MX"] # 1 => t["mn"] = r["mn"]
          /\ r["MX"] # 2 => t["mm"] = r["mm"]
          /\ t["MSRC"] = r["MSRC"] /\ t["p"] = r["p"]
      BY <2>2, MgaMem
    <2>4. v >= On \/ j # 14
      BY <2>1 DEF On
    <2> QED
      BY <1>4, <2>1, <2>3, <2>4 DEF At
  <1>5. CASE j \in {7, 8, 16, 17}
    <2> DEFINE c == IF j = 7 THEN 0 ELSE IF j = 8 THEN 1 ELSE IF j = 16 THEN 2 ELSE 3
    <2>1. w = Wr("CTL", c)
      BY <1>5 DEF MemWrites
    <2>2. t = After(r, Wr("CTL", c)) /\ c \in 0..3
      BY <1>5, <2>1
    <2> HIDE DEF c
    <2>3. /\ t["MSRC"] = IF c = 1 THEN 0 ELSE IF c = 3 THEN 1 ELSE r["MSRC"]
          /\ t["p"] = r["p"] /\ t["mp"] = r["mp"] /\ t["mn"] = r["mn"] /\ t["mm"] = r["mm"]
      BY <2>2, MgaCtl
    <2> QED
      BY <1>5, <2>3 DEF At, c
  <1>6. CASE j \in {6, 15, 24}
    BY <1>6 DEF At
  <1> QED
    BY <1>1, <1>2, <1>3, <1>4, <1>5, <1>6

LEMMA MemLocks ==
  ASSUME NEW d, NEW s, NEW j \in 0..24
  PROVE  "LOCK" \in DOMAIN MemWrites(d, s)[j + 1] <=> j \in {6, 15, 24}
  <1> DEFINE w == MemWrites(d, s)[j + 1]
  <1>1. CASE j \in {6, 15, 24}
    <2>1. PICK v : w = Wr("LOCK", v)
      BY <1>1 DEF MemWrites
    <2> HIDE DEF w
    <2>2. DOMAIN w = {"LOCK"}
      BY <2>1 DEF Wr, :>
    <2> QED
      BY <1>1, <2>2 DEF w
  <1>2. CASE j \notin {6, 15, 24}
    <2>1. PICK x, v : x \in {"IX", "MX", "DATA", "MEM", "CTL"} /\ w = Wr(x, v)
      BY <1>2 DEF MemWrites
    <2> HIDE DEF w
    <2>2. DOMAIN w = {x}
      BY <2>1 DEF Wr, :>
    <2> QED
      BY <1>2, <2>1, <2>2 DEF w
  <1> QED
    BY <1>1, <1>2

\* The bit that lets the PLL run is added to a post divider.
LEMMA DoublingsBound ==
  ASSUME NEW f \in Nat, NEW low \in Nat
  PROVE  Doublings(f, low, 3) \in 0..3
  <1> DEFINE Ok(p) == (p = 3 \/ f * 2^p >= low) /\ \A q \in 0..(p - 1) : f * 2^q < low
  <1>1. 2^0 = 1 /\ 2^1 = 2 /\ 2^2 = 4 /\ 2^3 = 8
    OBVIOUS
  <1>2. \E p \in 0..3 : Ok(p)
    <2>1. CASE f >= low
      <3>1. Ok(0)
        BY <1>1, <2>1
      <3> QED
        BY <3>1
    <2>2. CASE f < low /\ f * 2 >= low
      <3>1. 0..(1 - 1) = {0}
        OBVIOUS
      <3>2. Ok(1)
        BY <1>1, <2>2, <3>1
      <3> QED
        BY <3>2
    <2>3. CASE f < low /\ f * 2 < low /\ f * 4 >= low
      <3>1. 0..(2 - 1) = {0, 1}
        OBVIOUS
      <3>2. Ok(2)
        BY <1>1, <2>3, <3>1
      <3> QED
        BY <3>2
    <2>4. CASE f < low /\ f * 2 < low /\ f * 4 < low
      <3>1. 0..(3 - 1) = {0, 1, 2}
        OBVIOUS
      <3>2. Ok(3)
        BY <1>1, <2>4, <3>1
      <3> QED
        BY <3>2
    <2> QED
      BY <2>1, <2>2, <2>3, <2>4
  <1>3. Doublings(f, low, 3) = CHOOSE p \in 0..3 : Ok(p)
    BY DEF Doublings
  <1> HIDE DEF Ok
  <1> QED
    BY <1>2, <1>3

LEMMA MemDivider ==
  ASSUME "MGATI3026" \in Chips, NEW q \in MClks["MGATI3026"]
  PROVE  MSetting["MGATI3026"][q].p \in Nat
  <1> DEFINE f == Clamp(q, 13750, 100000)
             p == Doublings(f, 110000, 3)
  <1>1. q \in Nat
    BY WantedAssumption
  <1>2. f \in Nat
    BY <1>1 DEF Clamp
  <1>3. MSetting["MGATI3026"][q] = MDividers("MGATI3026", q)
    BY DEF MSetting
  <1>4. MDividers("MGATI3026", q) = MGATi3026CalcClock(q, 100000)
    BY DEF MDividers
  <1>5. MGATi3026CalcClock(q, 100000).p = p
    BY DEF MGATi3026CalcClock
  <1> HIDE DEF f
  <1>6. p \in 0..3
    BY <1>2, DoublingsBound
  <1> QED
    BY <1>3, <1>4, <1>5, <1>6

\* A pixel clock's script stops no PLL of the memory and hands nothing over.
PixelWrite(w) == w = Wr("CTL", 3) \/ \E x \in {"MISC", "IX", "DATA"} : \E v : w = Wr(x, v)
PixelOnly(s)  == IsScript(s) /\ \A i \in 1..Len(s) : PixelWrite(s[i])

LEMMA PixelOne ==
  ASSUME NEW x, NEW v, x \in {"MISC", "IX", "DATA"} \/ (x = "CTL" /\ v = 3)
  PROVE  PixelOnly(W(x, v))
  <1>1. W(x, v) = <<Wr(x, v)>>
    BY DEF W, Wr
  <1>2. PixelWrite(Wr(x, v))
    BY DEF PixelWrite
  <1> DEFINE w == Wr(x, v)
  <1> HIDE DEF w
  <1>3. PixelOnly(<<w>>)
    BY <1>2, OneWrite DEF PixelOnly, w
  <1> QED
    BY <1>1, <1>3 DEF w

LEMMA PixelCat ==
  ASSUME NEW s, NEW t, PixelOnly(s), PixelOnly(t)
  PROVE  PixelOnly(s \o t)
  <1> DEFINE u == s \o t
  <1>1. /\ IsScript(u) /\ Len(s) \in Nat /\ Len(t) \in Nat /\ Len(u) = Len(s) + Len(t)
        /\ \A i \in 1..Len(u) : u[i] = IF i <= Len(s) THEN s[i] ELSE t[i - Len(s)]
    BY Cat DEF PixelOnly
  <1> HIDE DEF u
  <1>2. ASSUME NEW i \in 1..Len(u)
        PROVE  PixelWrite(u[i])
    <2>1. CASE i <= Len(s)
      BY <1>1, <2>1 DEF PixelOnly
    <2>2. CASE ~(i <= Len(s))
      <3>1. i - Len(s) \in 1..Len(t) /\ u[i] = t[i - Len(s)]
        BY <1>1, <2>2
      <3> QED
        BY <3>1 DEF PixelOnly
    <2> QED
      BY <2>1, <2>2
  <1>3. PixelOnly(u)
    BY <1>1, <1>2 DEF PixelOnly
  <1> QED
    BY <1>3 DEF u

LEMMA PixelNone ==
  PixelOnly(<<>>)
  BY NoWrite DEF PixelOnly

LEMMA PixelStep ==
  ASSUME NEW s, PixelOnly(s), s # <<>>
  PROVE  PixelWrite(Head(s)) /\ PixelOnly(Tail(s))
  BY HeadAndTail DEF PixelOnly

LEMMA PixelScript ==
  ASSUME NEW f, NEW r
  PROVE  PixelOnly(SetClockchipClock("MGATI3026", f, r))
  <1> DEFINE d == Setting["MGATI3026"][f]
             t == W("MISC", 3) \o SetPCLK(d)
  <1>1. \A v : PixelOnly(W("MISC", v)) /\ PixelOnly(W("IX", v)) /\ PixelOnly(W("DATA", v))
    BY PixelOne
  <1>2. PixelOnly(W("CTL", 3))
    BY PixelOne
  <1>3. PixelOnly(TiData("DATA", d))
    BY <1>1, PixelCat DEF TiData
  <1>4. PixelOnly(SetPCLK(d))
    BY <1>1, <1>2, <1>3, PixelCat DEF SetPCLK
  <1>5. PixelOnly(t)
    BY <1>1, <1>4, PixelCat
  <1>6. PixelOnly(<<>> \o t)
    BY <1>5, PixelNone, PixelCat
  <1>7. Driver("MGATI3026", f, d, r) = t
    BY DEF Driver, CommonSetClock, Gendacs, Mach64s, Rivas
  <1>8. IBMRGBKludge("MGATI3026") = <<>>
    BY DEF IBMRGBKludge
  <1>9. VgaIndex("MGATI3026", f) = {}
    BY DEF VgaIndex, PrefersVga, Gendacs, OnS3
  <1> HIDE DEF t
  <1> QED
    BY <1>6, <1>7, <1>8, <1>9 DEF SetClockchipClock

LEMMA PixelAfter ==
  ASSUME chip = "MGATI3026", NEW r, Registers \subseteq DOMAIN r, NEW w, PixelWrite(w), r["MSRC"] = 1,
         NEW t, t = After(r, w)
  PROVE  t["MSRC"] = 1 /\ t["mp"] = r["mp"] /\ t["mm"] = r["mm"] /\ t["mn"] = r["mn"]
  <1>1. CASE w = Wr("CTL", 3)
    BY <1>1, MgaCtl
  <1>2. CASE \E v : w = Wr("DATA", v)
    BY <1>2, MgaData
  <1>3. CASE \E x \in {"MISC", "IX"} : \E v : w = Wr(x, v)
    <2>1. {"MSRC", "mp", "mm", "mn"} \subseteq Registers
      BY DEF Registers
    <2> QED
      BY <1>3, <2>1, MgaSet
  <1> QED
    BY <1>1, <1>2, <1>3 DEF PixelWrite

LEMMA PixelUnlocked ==
  ASSUME NEW w, PixelWrite(w)
  PROVE  "LOCK" \notin DOMAIN w
  <1>1. PICK x, v : x \in {"MISC", "IX", "DATA", "CTL"} /\ w = Wr(x, v)
    BY DEF PixelWrite
  <1>2. DOMAIN w = {x}
    BY <1>1 DEF Wr, :>
  <1> QED
    BY <1>1, <1>2

-----------------------------------------------------------------------------
(* The invariant of the memory's clock.  On a Matrox it runs on its own    *)
(* PLL, except in the middle of the 25 writes that set that one; on the    *)
(* others nobody touches what it hangs on.                                 *)

OnOwn == regs["MSRC"] = 1 /\ regs["mp"] >= On
Holds == held # 0 => /\ held \in MClks[chip]
                     /\ regs["mm"] = MSetting[chip][held].m /\ regs["mn"] = MSetting[chip][held].n

MgaInv ==
  chip = "MGATI3026" /\ kills = 0 =>
    /\ phase # "mclk" => OnOwn /\ Holds
    /\ phase = "pixel" => PixelOnly(script)
    /\ phase = "mclk" =>
         LET d == MSetting[chip][run.mclk]
         IN \E j \in 0..25 : \E s : Lists(script, MemWrites(d, s), j, 25 - j) /\ At(j, regs, d)
OwnInv == chip # "MGATI3026" => OnOwn

LEMMA FoundMemory ==
  ASSUME NEW csr
  PROVE  Found(csr)["MSRC"] = 1 /\ Found(csr)["mp"] = On + 1
  <1>1. "MSRC" \in Registers /\ "mp" \in Registers
    BY DEF Registers
  <1>2. Found(csr)["mp"] = On + 1
    BY <1>1 DEF Found
  <1>3. Found(csr)["MSRC"] = 1
    BY <1>1 DEF Found
  <1> QED
    BY <1>2, <1>3

LEMMA OwnInvInit == Init => OwnInv /\ MgaInv
  <1> SUFFICES ASSUME Init PROVE OwnInv /\ MgaInv
    OBVIOUS
  <1>1. (\E csr : regs = Found(csr)) /\ phase = "idle" /\ held = 0
    BY DEF Init
  <1>2. OnOwn
    BY <1>1, FoundMemory DEF OnOwn, On
  <1> QED
    BY <1>1, <1>2 DEF OwnInv, MgaInv, Holds

LEMMA OwnInvNext == RunInv /\ GateInv /\ OwnInv /\ [Next]_vars => OwnInv'
  <1> SUFFICES ASSUME RunInv, GateInv, OwnInv, [Next]_vars, chip # "MGATI3026", chip' = chip PROVE OnOwn'
    BY DEF OwnInv, Next, Start, Write, Locked, MClkDone, Done, Kill, vars
  <1>1. CASE Write
    <2> DEFINE w == Head(script)
    <2>1. script # <<>> /\ regs' = After(regs, w)
      BY <1>1 DEF Write
    <2>2. DOMAIN w \subseteq Free(chip)
      BY <2>1, WithinStep DEF GateInv
    <2>3. "MSRC" \notin DOMAIN w /\ "mp" \notin DOMAIN w
      BY <2>2 DEF Free, Kept
    <2> HIDE DEF w
    <2>4. "MSRC" \in Registers /\ "mp" \in Registers
      BY DEF Registers
    <2>5. regs'["MSRC"] = regs["MSRC"] /\ regs'["mp"] = regs["mp"]
      BY <2>1, <2>3, <2>4, AfterKeeps DEF RunInv
    <2> QED
      BY <2>5 DEF OwnInv, OnOwn
  <1>2. CASE UNCHANGED regs
    BY <1>2 DEF OwnInv, OnOwn
  <1> QED
    BY <1>1, <1>2 DEF Next, Start, Locked, MClkDone, Done, Kill, vars

LEMMA MgaInvNext == RunInv /\ MgaInv /\ [Next]_vars => MgaInv'
  <1> SUFFICES ASSUME RunInv, MgaInv, [Next]_vars, chip' = "MGATI3026", kills' = 0 PROVE MgaInv'
    BY DEF MgaInv
  <1>0. chip = "MGATI3026" /\ kills = 0 /\ Registers \subseteq DOMAIN regs /\ "MGATI3026" \in Chips
    BY MaxKillsAssumption DEF RunInv, Next, Start, Write, Locked, MClkDone, Done, Kill, vars
  <1>1. CASE Start
    <2>1. PICK f \in Wanted[chip], q \in MClks[chip] \cup {0} :
            /\ run' = [freq |-> f, mclk |-> q]
            /\ IF q = 0 THEN phase' = "pixel" /\ script' = SetClockchipClock(chip, f, regs)
               ELSE phase' = "mclk" /\ script' = SetClockchipMclock(chip, q, regs)
      BY <1>1 DEF Start
    <2>2. phase = "idle" /\ UNCHANGED <<chip, regs, held, kills>>
      BY <1>1 DEF Start
    <2>3. OnOwn /\ Holds
      BY <1>0, <2>2 DEF MgaInv
    <2>4. CASE q = 0
      <3>1. PixelOnly(script')
        BY <1>0, <2>1, <2>4, PixelScript
      <3>2. OnOwn' /\ Holds' /\ phase' = "pixel"
        BY <2>1, <2>2, <2>3, <2>4 DEF OnOwn, Holds
      <3> QED
        BY <3>1, <3>2 DEF MgaInv
    <2>5. CASE q # 0
      <3> DEFINE d == MSetting[chip][q]
      <3>1. phase' = "mclk" /\ run'.mclk = q /\ script' = SetMCLK(d, regs)
        BY <1>0, <2>1, <2>5 DEF SetClockchipMclock, Gendacs, CommonSetClock
      <3>2. Lists(script', MemWrites(d, regs), 0, 25 - 0)
        BY <3>1, SetMCLKLists
      <3>3. At(0, regs', d)
        BY <2>2, <2>3 DEF At, OnOwn
      <3>4. d = MSetting[chip'][run'.mclk]
        BY <2>2, <3>1
      <3> HIDE DEF d
      <3>5. 0 \in 0..25
        OBVIOUS
      <3> QED
        BY <3>1, <3>2, <3>3, <3>4, <3>5 DEF MgaInv
    <2> QED
      BY <2>4, <2>5
  <1>2. CASE Write
    <2> DEFINE w == Head(script)
    <2>1. /\ script # <<>> /\ script' = Tail(script) /\ regs' = After(regs, w) /\ "LOCK" \notin DOMAIN w
          /\ UNCHANGED <<chip, phase, run, held, kills>>
      BY <1>2 DEF Write
    <2> HIDE DEF w
    <2>2. CASE phase = "pixel"
      <3>1. OnOwn /\ Holds /\ PixelWrite(w) /\ PixelOnly(script')
        BY <1>0, <2>1, <2>2, PixelStep DEF MgaInv, w
      <3>2. /\ regs'["MSRC"] = 1 /\ regs'["mp"] = regs["mp"]
            /\ regs'["mm"] = regs["mm"] /\ regs'["mn"] = regs["mn"]
        BY <1>0, <2>1, <3>1, PixelAfter DEF OnOwn
      <3>3. OnOwn' /\ Holds'
        BY <2>1, <3>1, <3>2 DEF OnOwn, Holds
      <3> QED
        BY <2>1, <2>2, <3>1, <3>3 DEF MgaInv
    <2>3. CASE phase = "mclk"
      <3> DEFINE d == MSetting[chip][run.mclk]
      <3>1. PICK j, s : j \in 0..25 /\ Lists(script, MemWrites(d, s), j, 25 - j) /\ At(j, regs, d)
        BY <1>0, <2>3 DEF MgaInv
      <3>2. d.p \in Nat
        BY <1>0, <2>3, MemDivider DEF RunInv
      <3>3. d = MSetting[chip'][run'.mclk]
        BY <2>1
      <3> HIDE DEF d
      <3> DEFINE F == MemWrites(d, s)
      <3>4. Lists(script, F, j, 25 - j) /\ 25 - j \in Nat /\ j \in Nat
        BY <3>1
      <3> HIDE DEF F
      <3>5. 25 - j > 0 /\ w = F[j + 1] /\ Lists(script', F, j + 1, (25 - j) - 1)
        BY <2>1, <3>4, ListsStep DEF w
      <3>6. j \in 0..24 /\ j + 1 \in 0..25 /\ (25 - j) - 1 = 25 - (j + 1)
        BY <3>1, <3>5
      <3>7. j \notin {6, 15, 24}
        BY <2>1, <3>5, <3>6, MemLocks DEF F
      <3>8. At(j + 1, regs', d)
        BY <1>0, <2>1, <3>1, <3>2, <3>5, <3>6, <3>7, MemStep DEF F
      <3>9. Lists(script', F, j + 1, 25 - (j + 1))
        BY <3>5, <3>6
      <3> QED
        BY <2>1, <2>3, <3>3, <3>6, <3>8, <3>9 DEF MgaInv, F
    <2> QED
      BY <2>1, <2>2, <2>3 DEF RunInv
  <1>3. CASE Locked
    <2> DEFINE w == Head(script)
    <2>1. /\ script # <<>> /\ script' = Tail(script) /\ "LOCK" \in DOMAIN w
          /\ UNCHANGED <<chip, regs, phase, run, held, kills>>
      BY <1>3 DEF Locked
    <2> HIDE DEF w
    <2>2. CASE phase = "pixel"
      BY <1>0, <2>1, <2>2, PixelStep, PixelUnlocked DEF MgaInv, w
    <2>3. CASE phase = "mclk"
      <3> DEFINE d == MSetting[chip][run.mclk]
      <3>1. PICK j, s : j \in 0..25 /\ Lists(script, MemWrites(d, s), j, 25 - j) /\ At(j, regs, d)
        BY <1>0, <2>3 DEF MgaInv
      <3>2. d.p \in Nat
        BY <1>0, <2>3, MemDivider DEF RunInv
      <3>3. d = MSetting[chip'][run'.mclk]
        BY <2>1
      <3> HIDE DEF d
      <3> DEFINE F == MemWrites(d, s)
      <3>4. Lists(script, F, j, 25 - j) /\ 25 - j \in Nat /\ j \in Nat
        BY <3>1
      <3> HIDE DEF F
      <3>5. 25 - j > 0 /\ w = F[j + 1] /\ Lists(script', F, j + 1, (25 - j) - 1)
        BY <2>1, <3>4, ListsStep DEF w
      <3>6. j \in 0..24 /\ j + 1 \in 0..25 /\ (25 - j) - 1 = 25 - (j + 1)
        BY <3>1, <3>5
      <3>7. j \in {6, 15, 24}
        BY <2>1, <3>5, <3>6, MemLocks DEF F
      <3>8. At(j + 1, regs', d)
        BY <1>0, <2>1, <3>1, <3>2, <3>5, <3>6, <3>7, MemStep DEF F
      <3>9. Lists(script', F, j + 1, 25 - (j + 1))
        BY <3>5, <3>6
      <3> QED
        BY <2>1, <2>3, <3>3, <3>6, <3>8, <3>9 DEF MgaInv, F
    <2> QED
      BY <2>1, <2>2, <2>3 DEF RunInv
  <1>4. CASE MClkDone
    <2>1. /\ phase = "mclk" /\ script = <<>> /\ phase' = "pixel" /\ held' = run.mclk
          /\ script' = SetClockchipClock(chip, run.freq, regs)
          /\ UNCHANGED <<chip, regs, run, kills>>
      BY <1>4 DEF MClkDone
    <2> DEFINE d == MSetting[chip][run.mclk]
    <2>2. PICK j, s : j \in 0..25 /\ Lists(script, MemWrites(d, s), j, 25 - j) /\ At(j, regs, d)
      BY <1>0, <2>1 DEF MgaInv
    <2>3. j = 25
      <3>1. 25 - j = 0
        BY <2>1, <2>2, ListsEnd
      <3> QED
        BY <2>2, <3>1
    <2>4. OnOwn' /\ Holds'
      <3>1. At(25, regs, d)
        BY <2>2, <2>3
      <3>2. d = MSetting[chip'][held'] /\ held' \in MClks[chip']
        BY <2>1 DEF RunInv
      <3> HIDE DEF d
      <3>3. regs["MSRC"] = 1 /\ regs["mp"] >= On /\ regs["mn"] = d.n /\ regs["mm"] = d.m
        BY <3>1 DEF At
      <3> QED
        BY <2>1, <3>2, <3>3 DEF OnOwn, Holds
    <2>5. PixelOnly(script')
      BY <1>0, <2>1, PixelScript
    <2> QED
      BY <2>1, <2>4, <2>5 DEF MgaInv
  <1>5. CASE Done
    <2>1. UNCHANGED <<chip, regs, script, run, held, kills>> /\ phase = "pixel" /\ phase' = "idle"
      BY <1>5 DEF Done
    <2>2. OnOwn' /\ Holds'
      BY <1>0, <2>1 DEF MgaInv, OnOwn, Holds
    <2> QED
      BY <2>1, <2>2 DEF MgaInv
  <1>6. CASE Kill
    BY <1>0, <1>6 DEF Kill
  <1>7. CASE UNCHANGED vars
    BY <1>7 DEF vars, MgaInv, OnOwn, Holds
  <1> QED
    BY <1>1, <1>2, <1>3, <1>4, <1>5, <1>6, <1>7 DEF Next

LEMMA KeepsClock == RunInv /\ OwnInv /\ MgaInv => MemoryKeepsClock
  <1> SUFFICES ASSUME RunInv, OwnInv, MgaInv, kills = 0
               PROVE  regs[IF regs["MSRC"] = 1 THEN "mp" ELSE "p"] >= On
    BY DEF MemoryKeepsClock
  <1>1. CASE OnOwn
    BY <1>1 DEF OnOwn
  <1>2. CASE chip = "MGATI3026" /\ phase = "mclk"
    <2> DEFINE d == MSetting[chip][run.mclk]
    <2>1. PICK j \in 0..25 : At(j, regs, d)
      BY <1>2 DEF MgaInv
    <2> HIDE DEF d
    <2>2. CASE j \in 9..17
      BY <2>1, <2>2 DEF At
    <2>3. CASE j \notin 9..17
      BY <2>1, <2>3 DEF At
    <2> QED
      BY <2>2, <2>3
  <1> QED
    BY <1>1, <1>2 DEF OwnInv, MgaInv

\* The memory never loses its clock, whatever the memory clocks of the MClk
\* lines: at every write of MGATi3026SetMCLK the PLL the memory runs on at
\* that moment is let run.
THEOREM MemoryIsClocked == Spec => []MemoryKeepsClock
  <1>1. RunInv /\ GateInv /\ OwnInv /\ MgaInv /\ [Next]_vars => RunInv' /\ GateInv' /\ OwnInv' /\ MgaInv'
    BY RunInvNext, GateInvNext, OwnInvNext, MgaInvNext
  <1> QED
    BY <1>1, RunInvInit, GateInvInit, OwnInvInit, KeepsClock, PTL DEF Spec

-----------------------------------------------------------------------------
(* The memory's dividers on the Trio, whose driver writes the registers    *)
(* one by one.                                                             *)

\* Writes that do not go through a port leave the memory's dividers alone.
Plain == {"RS2", "IX", "MISC", "CR42", "CS", "SR8", "n", "m"}

LEMMA AfterPlain ==
  ASSUME chip # "MGATI3026", NEW r, Registers \subseteq DOMAIN r, NEW w, DOMAIN w \subseteq Plain,
         NEW t, t = After(r, w)
  PROVE  t["mm"] = r["mm"] /\ t["mn"] = r["mn"]
  <1>1. t = w @@ r
    BY Pointers DEF After, Plain, Port
  <1>2. "mm" \in DOMAIN r /\ "mn" \in DOMAIN r /\ "mm" \notin DOMAIN w /\ "mn" \notin DOMAIN w
    BY DEF Registers, Plain
  <1> QED
    BY <1>1, <1>2 DEF @@

LEMMA AfterWrite ==
  ASSUME NEW r, Registers \subseteq DOMAIN r, NEW x \in Registers \ {"CTL"}, NEW v,
         NEW t, t = After(r, Wr(x, v))
  PROVE  t[x] = v /\ \A y \in Registers : y # x => t[y] = r[y]
  <1> DEFINE w == Wr(x, v)
  <1>1. DOMAIN w = {x} /\ w[x] = v
    BY DEF Wr, :>
  <1>2. t = After(r, w)
    OBVIOUS
  <1> HIDE DEF w
  <1>3. x \notin Port \cup {"PTR", "CTL"}
    BY DEF Port, Registers
  <1> QED
    BY <1>1, <1>2, <1>3, AfterSets

TrioList(d) == << Wr("MISC", 3), Wr("SR8", 6), Wr("mn", d.n), Wr("mm", d.m), Wr("SR8", 0) >>

LEMMA TrioLists ==
  ASSUME NEW d
  PROVE  Lists(Trio(TRUE, d), TrioList(d), 0, 5)
  <1> DEFINE F == TrioList(d)
             a == W("MISC", 3) \o W("SR8", 6)
             b == W("mn", d.n) \o W("mm", d.m)
  <1>1. /\ F[1] = Wr("MISC", 3) /\ F[2] = Wr("SR8", 6)
        /\ F[3] = Wr("mn", d.n) /\ F[4] = Wr("mm", d.m) /\ F[5] = Wr("SR8", 0)
    BY DEF TrioList
  <1> HIDE DEF F
  <1>2. /\ Lists(W("MISC", 3), F, 0, 1) /\ Lists(W("SR8", 6), F, 1, 1)
        /\ Lists(W("mn", d.n), F, 2, 1) /\ Lists(W("mm", d.m), F, 3, 1) /\ Lists(W("SR8", 0), F, 4, 1)
    BY <1>1, ListsWrite
  <1>3. Lists(a, F, 0, 2) /\ Lists(b, F, 2, 2)
    BY <1>2, ListsCat
  <1>4. Trio(TRUE, d) = a \o b \o W("SR8", 0)
    BY DEF Trio
  <1> HIDE DEF a, b
  <1>5. Lists(a \o b, F, 0, 4)
    BY <1>3, ListsCat
  <1>6. Lists(a \o b \o W("SR8", 0), F, 0, 5)
    BY <1>2, <1>5, ListsCat
  <1> QED
    BY <1>4, <1>6 DEF F

TrioAt(j, r, d) == (j >= 3 => r["mn"] = d.n) /\ (j >= 4 => r["mm"] = d.m)

LEMMA TrioStep ==
  ASSUME NEW r, Registers \subseteq DOMAIN r, NEW d, NEW j \in 0..4, TrioAt(j, r, d),
         NEW w, w = TrioList(d)[j + 1], NEW t, t = After(r, w)
  PROVE  TrioAt(j + 1, t, d)
  <1>0. {"MISC", "SR8", "mn", "mm"} \subseteq Registers \ {"CTL"}
    BY DEF Registers
  <1>1. CASE j = 2
    <2>1. w = Wr("mn", d.n)
      BY <1>1 DEF TrioList
    <2>2. t["mn"] = d.n
      BY <1>0, <2>1, AfterWrite
    <2> QED
      BY <1>1, <2>2 DEF TrioAt
  <1>2. CASE j = 3
    <2>1. w = Wr("mm", d.m)
      BY <1>2 DEF TrioList
    <2>2. t["mm"] = d.m /\ t["mn"] = r["mn"]
      BY <1>0, <2>1, AfterWrite
    <2> QED
      BY <1>2, <2>2 DEF TrioAt
  <1>3. CASE j \in {0, 1, 4}
    <2>1. PICK x, v : x \in {"MISC", "SR8"} /\ w = Wr(x, v)
      BY <1>3 DEF TrioList
    <2>2. t["mm"] = r["mm"] /\ t["mn"] = r["mn"]
      BY <1>0, <2>1, AfterWrite
    <2> QED
      BY <1>3, <2>2 DEF TrioAt
  <1> QED
    BY <1>1, <1>2, <1>3

LEMMA TrioPixel ==
  ASSUME NEW f, NEW r
  PROVE  Within(SetClockchipClock("S3TRIO", f, r), Plain)
  <1> DEFINE d == Setting["S3TRIO"][f]
             v == Select("S3TRIO", CHOOSE i \in VgaIndex("S3TRIO", f) : TRUE)
             s == Driver("S3TRIO", f, d, r)
  <1>1. Within(Trio(FALSE, d), Plain)
    <2>1. "MISC" \in Plain /\ "SR8" \in Plain /\ "n" \in Plain /\ "m" \in Plain
      BY DEF Plain
    <2>2. \A y : /\ Within(W("MISC", y), Plain) /\ Within(W("SR8", y), Plain)
                 /\ Within(W("n", y), Plain) /\ Within(W("m", y), Plain)
      BY <2>1, WithinWrite
    <2> DEFINE a == W("MISC", 3) \o W("SR8", 6)
               b == W("n", d.n) \o W("m", d.m)
    <2>3. Within(a, Plain) /\ Within(b, Plain)
      BY <2>2, WithinCat
    <2>4. Trio(FALSE, d) = a \o b \o W("SR8", 0)
      BY DEF Trio
    <2> HIDE DEF a, b, d
    <2> QED
      BY <2>2, <2>3, <2>4, WithinCat
  <1>2. s = Trio(FALSE, d)
    BY DEF Driver, CommonSetClock, Gendacs, Mach64s, Rivas
  <1>3. Within(v, Plain)
    <2>1. Within(v, {"MISC", "CR42", "CS"})
      BY SelectWrites
    <2>2. {"MISC", "CR42", "CS"} \subseteq Plain
      BY DEF Plain
    <2> HIDE DEF v
    <2> QED
      BY <2>1, <2>2, WithinMore
  <1> DEFINE a == IBMRGBKludge("S3TRIO")
  <1>4. SetClockchipClock("S3TRIO", f, r) = a \o (IF VgaIndex("S3TRIO", f) # {} THEN v ELSE s)
    BY DEF SetClockchipClock
  <1>5. Within(a, Plain)
    BY WithinNone DEF IBMRGBKludge
  <1> HIDE DEF a, v, s, d
  <1>6. Within(a \o v, Plain) /\ Within(a \o s, Plain)
    BY <1>1, <1>2, <1>3, <1>5, WithinCat
  <1> QED
    BY <1>4, <1>6

\* The memory's dividers hold what was last programmed; while they are set
\* anew, what the writes made so far have put there.
TrioInv ==
  chip = "S3TRIO" /\ kills = 0 =>
    /\ phase # "mclk" => Holds
    /\ phase = "pixel" => Within(script, Plain)
    /\ phase = "mclk" =>
         LET d == MSetting[chip][run.mclk]
         IN \E j \in 0..5 : Lists(script, TrioList(d), j, 5 - j) /\ TrioAt(j, regs, d)

LEMMA TrioUnlocked ==
  ASSUME NEW d, NEW j \in 0..4
  PROVE  "LOCK" \notin DOMAIN TrioList(d)[j + 1]
  <1> DEFINE w == TrioList(d)[j + 1]
  <1>1. PICK x, v : x \in {"MISC", "SR8", "mn", "mm"} /\ w = Wr(x, v)
    BY DEF TrioList
  <1> HIDE DEF w
  <1>2. DOMAIN w = {x}
    BY <1>1 DEF Wr, :>
  <1> QED
    BY <1>1, <1>2 DEF w

LEMMA TrioInvNext == RunInv /\ TrioInv /\ [Next]_vars => TrioInv'
  <1> SUFFICES ASSUME RunInv, TrioInv, [Next]_vars, chip' = "S3TRIO", kills' = 0 PROVE TrioInv'
    BY DEF TrioInv
  <1>0. chip = "S3TRIO" /\ kills = 0 /\ Registers \subseteq DOMAIN regs
    BY MaxKillsAssumption DEF RunInv, Next, Start, Write, Locked, MClkDone, Done, Kill, vars
  <1>1. CASE Start
    <2>1. PICK f \in Wanted[chip], q \in MClks[chip] \cup {0} :
            /\ run' = [freq |-> f, mclk |-> q]
            /\ IF q = 0 THEN phase' = "pixel" /\ script' = SetClockchipClock(chip, f, regs)
               ELSE phase' = "mclk" /\ script' = SetClockchipMclock(chip, q, regs)
      BY <1>1 DEF Start
    <2>2. phase = "idle" /\ UNCHANGED <<chip, regs, held, kills>>
      BY <1>1 DEF Start
    <2>3. CASE q = 0
      <3>1. Within(script', Plain)
        BY <1>0, <2>1, <2>3, TrioPixel
      <3>2. Holds' /\ phase' = "pixel"
        BY <1>0, <2>1, <2>2, <2>3 DEF TrioInv, Holds
      <3> QED
        BY <3>1, <3>2 DEF TrioInv
    <2>4. CASE q # 0
      <3> DEFINE d == MSetting[chip][q]
      <3>1. phase' = "mclk" /\ run'.mclk = q /\ script' = Trio(TRUE, d)
        BY <1>0, <2>1, <2>4 DEF SetClockchipMclock, Gendacs, CommonSetClock
      <3>2. d = MSetting[chip'][run'.mclk]
        BY <2>2, <3>1
      <3> HIDE DEF d
      <3>3. Lists(script', TrioList(d), 0, 5 - 0)
        <4>1. Lists(Trio(TRUE, d), TrioList(d), 0, 5)
          BY TrioLists
        <4>2. 5 - 0 = 5
          OBVIOUS
        <4> QED
          BY <3>1, <4>1, <4>2, Zenon
      <3>4. TrioAt(0, regs', d)
        BY DEF TrioAt
      <3>5. 0 \in 0..5
        OBVIOUS
      <3> QED
        BY <3>1, <3>3, <3>4, <3>2, <3>5 DEF TrioInv
    <2> QED
      BY <2>3, <2>4
  <1>2. CASE Write
    <2> DEFINE w == Head(script)
    <2>1. /\ script # <<>> /\ script' = Tail(script) /\ regs' = After(regs, w)
          /\ UNCHANGED <<chip, phase, run, held, kills>>
      BY <1>2 DEF Write
    <2> HIDE DEF w
    <2>2. CASE phase = "pixel"
      <3>1. Holds /\ DOMAIN w \subseteq Plain /\ Within(script', Plain)
        BY <1>0, <2>1, <2>2, WithinStep DEF TrioInv, w
      <3>2. regs'["mm"] = regs["mm"] /\ regs'["mn"] = regs["mn"]
        BY <1>0, <2>1, <3>1, AfterPlain
      <3>3. Holds'
        BY <2>1, <3>1, <3>2 DEF Holds
      <3> QED
        BY <2>1, <2>2, <3>1, <3>3 DEF TrioInv
    <2>3. CASE phase = "mclk"
      <3> DEFINE d == MSetting[chip][run.mclk]
                 F == TrioList(d)
      <3>1. PICK j \in 0..5 : Lists(script, F, j, 5 - j) /\ TrioAt(j, regs, d)
        BY <1>0, <2>3 DEF TrioInv
      <3>2. j \in Nat /\ 5 - j \in Nat
        BY <3>1
      <3>3. d = MSetting[chip'][run'.mclk]
        BY <2>1
      <3> HIDE DEF d, F
      <3>4. 5 - j > 0 /\ w = F[j + 1] /\ Lists(script', F, j + 1, (5 - j) - 1)
        BY <2>1, <3>2, <3>1, ListsStep DEF w
      <3>5. j \in 0..4 /\ j + 1 \in 0..5 /\ (5 - j) - 1 = 5 - (j + 1)
        BY <3>4
      <3>6. TrioAt(j + 1, regs', d)
        BY <1>0, <2>1, <3>1, <3>4, <3>5, TrioStep DEF F
      <3>7. Lists(script', F, j + 1, 5 - (j + 1))
        BY <3>4, <3>5
      <3> QED
        BY <2>1, <2>3, <3>3, <3>5, <3>6, <3>7 DEF TrioInv, F
    <2> QED
      BY <2>1, <2>2, <2>3 DEF RunInv
  <1>3. CASE Locked
    <2> DEFINE w == Head(script)
    <2>1. /\ script # <<>> /\ "LOCK" \in DOMAIN w /\ UNCHANGED <<chip, phase, run, held, kills>>
      BY <1>3 DEF Locked
    <2> HIDE DEF w
    <2>2. CASE phase = "pixel"
      <3>1. DOMAIN w \subseteq Plain
        BY <1>0, <2>1, <2>2, WithinStep DEF TrioInv, w
      <3> QED
        BY <2>1, <3>1 DEF Plain
    <2>3. CASE phase = "mclk"
      <3> DEFINE d == MSetting[chip][run.mclk]
                 F == TrioList(d)
      <3>1. PICK j \in 0..5 : Lists(script, F, j, 5 - j)
        BY <1>0, <2>3 DEF TrioInv
      <3>2. j \in Nat /\ 5 - j \in Nat
        BY <3>1
      <3> HIDE DEF d, F
      <3>3. 5 - j > 0 /\ w = F[j + 1]
        BY <2>1, <3>2, <3>1, ListsStep DEF w
      <3>4. j \in 0..4
        BY <3>3
      <3> QED
        BY <2>1, <3>3, <3>4, TrioUnlocked DEF F
    <2> QED
      BY <2>1, <2>2, <2>3 DEF RunInv
  <1>4. CASE MClkDone
    <2>1. /\ phase = "mclk" /\ script = <<>> /\ phase' = "pixel" /\ held' = run.mclk
          /\ script' = SetClockchipClock(chip, run.freq, regs)
          /\ UNCHANGED <<chip, regs, run, kills>>
      BY <1>4 DEF MClkDone
    <2> DEFINE d == MSetting[chip][run.mclk]
    <2>2. PICK j \in 0..5 : Lists(script, TrioList(d), j, 5 - j) /\ TrioAt(j, regs, d)
      BY <1>0, <2>1 DEF TrioInv
    <2>3. j = 5
      <3>1. 5 - j = 0
        BY <2>1, <2>2, ListsEnd
      <3> QED
        BY <3>1
    <2>4. Holds'
      <3>1. d = MSetting[chip'][held'] /\ held' \in MClks[chip']
        BY <2>1 DEF RunInv
      <3>2. TrioAt(5, regs, d)
        BY <2>2, <2>3
      <3> HIDE DEF d
      <3>3. regs["mn"] = d.n /\ regs["mm"] = d.m
        BY <3>2 DEF TrioAt
      <3> QED
        BY <2>1, <3>1, <3>3 DEF Holds
    <2>5. Within(script', Plain)
      BY <1>0, <2>1, TrioPixel
    <2> QED
      BY <2>1, <2>4, <2>5 DEF TrioInv
  <1>5. CASE Done
    BY <1>0, <1>5 DEF Done, TrioInv, Holds
  <1>6. CASE Kill
    BY <1>0, <1>6 DEF Kill
  <1>7. CASE UNCHANGED vars
    BY <1>7 DEF vars, TrioInv, Holds
  <1> QED
    BY <1>1, <1>2, <1>3, <1>4, <1>5, <1>6, <1>7 DEF Next

-----------------------------------------------------------------------------
(* The memory's dividers on the GENDACs, whose driver goes through a port. *)

\* After all but the last j writes of interest s sets the two registers from
\* the at-th of the DAC's port on to the m and the n of d; its other writes
\* go through no port.
Aims(s, at, d, j) ==
  /\ IsScript(s) /\ j <= Len(s)
  /\ \A i \in 1..Len(s) : i > j \/ (j = 4 /\ i = 1) => DOMAIN s[i] \subseteq Plain
  /\ j >= 3 => s[j - 2] = Wr("IX", at)
  /\ j >= 2 => s[j - 1] = Wr("DATA", d.m)
  /\ j >= 1 => s[j] = Wr("DATA", d.n)
\* ... and what of it the registers hold when j of them are still to be made.
Reached(r, at, d, j) ==
  /\ j = 2 => r["IX"] = at
  /\ j = 1 => r["IX"] = at + 1
  /\ at = 4 /\ j <= 1 => r["mm"] = d.m
  /\ at = 4 /\ j = 0 => r["mn"] = d.n

Fewer(j) == IF j = 0 THEN 0 ELSE j - 1

LEMMA AimsStep ==
  ASSUME NEW s, s # <<>>, NEW at, NEW d, NEW j \in 0..4, Aims(s, at, d, j)
  PROVE  /\ Aims(Tail(s), at, d, Fewer(j))
         /\ j \in {0, 4} => DOMAIN Head(s) \subseteq Plain
         /\ j = 3 => Head(s) = Wr("IX", at)
         /\ j = 2 => Head(s) = Wr("DATA", d.m)
         /\ j = 1 => Head(s) = Wr("DATA", d.n)
  <1> DEFINE t == Tail(s)
             w == Head(s)
  <1>1. /\ IsScript(t) /\ Len(s) \in Nat \ {0} /\ Len(t) = Len(s) - 1 /\ w = s[1]
        /\ \A i \in 1..Len(t) : t[i] = s[i + 1]
    BY HeadAndTail DEF Aims
  <1> HIDE DEF t, w
  <1>2. ASSUME NEW i \in 1..Len(t), i > Fewer(j)
        PROVE  DOMAIN t[i] \subseteq Plain
    <2>1. i + 1 \in 1..Len(s) /\ i + 1 > j /\ t[i] = s[i + 1]
      BY <1>1, <1>2 DEF Fewer
    <2> QED
      BY <2>1 DEF Aims
  <1>3. j >= 2 => t[j - 1] = Wr("DATA", d.n)
    <2>1. j >= 2 => j - 1 \in 1..Len(t) /\ (j - 1) + 1 = j
      BY <1>1 DEF Aims
    <2> QED
      BY <1>1, <2>1 DEF Aims
  <1>4. j >= 3 => t[j - 2] = Wr("DATA", d.m)
    <2>1. j >= 3 => j - 2 \in 1..Len(t) /\ (j - 2) + 1 = j - 1
      BY <1>1 DEF Aims
    <2> QED
      BY <1>1, <2>1 DEF Aims
  <1>5. j = 4 => t[1] = Wr("IX", at)
    <2>1. j = 4 => 1 \in 1..Len(t) /\ 1 + 1 = j - 2
      BY <1>1 DEF Aims
    <2> QED
      BY <1>1, <2>1 DEF Aims
  <1>6. Aims(t, at, d, Fewer(j))
    <2>1. Fewer(j) \in 0..3 /\ Fewer(j) <= Len(t)
      BY <1>1 DEF Aims, Fewer
    <2>2. /\ Fewer(j) >= 3 => j = 4 /\ Fewer(j) - 2 = 1
          /\ Fewer(j) >= 2 => j >= 3 /\ Fewer(j) - 1 = j - 2
          /\ Fewer(j) >= 1 => j >= 2 /\ Fewer(j) = j - 1
      BY DEF Fewer
    <2> QED
      BY <1>1, <1>2, <1>3, <1>4, <1>5, <2>1, <2>2 DEF Aims
  <1>7. /\ j \in {0, 4} => DOMAIN w \subseteq Plain
        /\ j = 3 => w = Wr("IX", at)
        /\ j = 2 => w = Wr("DATA", d.m)
        /\ j = 1 => w = Wr("DATA", d.n)
    BY <1>1 DEF Aims
  <1> QED
    BY <1>6, <1>7 DEF t, w

LEMMA AimsEnd ==
  ASSUME NEW at, NEW d, NEW j \in 0..4, Aims(<<>>, at, d, j)
  PROVE  j = 0
  BY NoWrite DEF Aims

LEMMA AimsThen ==
  ASSUME NEW s, NEW t, NEW at, NEW d, NEW j \in 0..4, Aims(s, at, d, j), Within(t, Plain)
  PROVE  Aims(s \o t, at, d, j)
  <1> DEFINE u == s \o t
  <1>1. /\ IsScript(u) /\ Len(s) \in Nat /\ Len(t) \in Nat /\ Len(u) = Len(s) + Len(t)
        /\ \A i \in 1..Len(u) : u[i] = IF i <= Len(s) THEN s[i] ELSE t[i - Len(s)]
    BY Cat DEF Aims, Within
  <1> HIDE DEF u
  <1>2. ASSUME NEW i \in 1..Len(u), i > j \/ (j = 4 /\ i = 1)
        PROVE  DOMAIN u[i] \subseteq Plain
    <2>1. CASE i <= Len(s)
      BY <1>1, <1>2, <2>1 DEF Aims
    <2>2. CASE ~(i <= Len(s))
      <3>1. i - Len(s) \in 1..Len(t) /\ u[i] = t[i - Len(s)]
        BY <1>1, <2>2
      <3> QED
        BY <3>1 DEF Within
    <2> QED
      BY <2>1, <2>2
  <1>3. /\ j >= 3 => u[j - 2] = s[j - 2]
        /\ j >= 2 => u[j - 1] = s[j - 1]
        /\ j >= 1 => u[j] = s[j]
    BY <1>1 DEF Aims
  <1>4. Aims(u, at, d, j)
    BY <1>1, <1>2, <1>3 DEF Aims
  <1> QED
    BY <1>4 DEF u

LEMMA AimsPlain ==
  ASSUME NEW t, NEW at, NEW d, Within(t, Plain)
  PROVE  Aims(t, at, d, 0)
  <1>1. Len(t) \in Nat
    BY DEF Within, IsScript
  <1> QED
    BY <1>1 DEF Aims, Within

\* setS3gendacpll and the others aim at the registers they are to set.
LEMMA GendacAims ==
  ASSUME NEW k, NEW at, NEW d, NEW r
  PROVE  \E j \in {3, 4} : Aims(GendacPll(k, at, d, r), at, d, j)
  <1> DEFINE s == GendacPll(k, at, d, r)
             u == W("IX", at)
             b == W("DATA", d.m)
             c == W("DATA", d.n)
             e == W("IX", r["IX"])
  <1>0. \A v : DOMAIN Wr("IX", v) \subseteq Plain /\ DOMAIN Wr("RS2", v) \subseteq Plain
    BY DEF Wr, :>, Plain
  <1>1. CASE k = "ET6000"
    <2> DEFINE F == << Wr("IX", at), Wr("DATA", d.m), Wr("DATA", d.n), Wr("IX", r["IX"]) >>
    <2>1. s = <<>> \o u \o b \o c \o e \o <<>>
      BY <1>1 DEF GendacPll
    <2>2. F[1] = Wr("IX", at) /\ F[2] = Wr("DATA", d.m) /\ F[3] = Wr("DATA", d.n) /\ F[4] = Wr("IX", r["IX"])
      OBVIOUS
    <2> HIDE DEF F
    <2>3. Lists(u, F, 0, 1) /\ Lists(b, F, 1, 1) /\ Lists(c, F, 2, 1) /\ Lists(e, F, 3, 1)
      BY <2>2, ListsWrite
    <2>4. Lists(<<>>, F, 0, 0) /\ Lists(<<>>, F, 4, 0)
      BY NoWrite DEF Lists
    <2> HIDE DEF u, b, c, e, s
    <2>5. Lists(<<>> \o u, F, 0, 1)
      BY <2>3, <2>4, ListsCat
    <2>6. Lists(<<>> \o u \o b, F, 0, 2)
      BY <2>3, <2>5, ListsCat
    <2>7. Lists(<<>> \o u \o b \o c, F, 0, 3)
      BY <2>3, <2>6, ListsCat
    <2>8. Lists(<<>> \o u \o b \o c \o e, F, 0, 4)
      BY <2>3, <2>7, ListsCat
    <2>9. Lists(<<>> \o u \o b \o c \o e \o <<>>, F, 0, 4)
      BY <2>4, <2>8, ListsCat
    <2>10. /\ IsScript(s) /\ Len(s) = 4
           /\ s[1] = F[1] /\ s[2] = F[2] /\ s[3] = F[3] /\ s[4] = F[4]
      <3>1. Lists(s, F, 0, 4)
        BY <2>1, <2>9
      <3> QED
        BY <3>1 DEF Lists
    <2>11. \A i \in 1..4 : i > 3 => DOMAIN s[i] \subseteq Plain
      BY <1>0, <2>2, <2>10
    <2>12. Aims(s, at, d, 3)
      BY <2>2, <2>10, <2>11 DEF Aims
    <2> QED
      BY <2>12 DEF s
  <1>2. CASE k # "ET6000"
    <2> DEFINE F == << Wr("RS2", 1), Wr("IX", at), Wr("DATA", d.m), Wr("DATA", d.n), Wr("IX", r["IX"]),
                       Wr("RS2", 0) >>
               a == W("RS2", 1)
               f == W("RS2", 0)
    <2>1. s = a \o u \o b \o c \o e \o f
      BY <1>2 DEF GendacPll
    <2>2. /\ F[1] = Wr("RS2", 1) /\ F[2] = Wr("IX", at) /\ F[3] = Wr("DATA", d.m) /\ F[4] = Wr("DATA", d.n)
          /\ F[5] = Wr("IX", r["IX"]) /\ F[6] = Wr("RS2", 0)
      OBVIOUS
    <2> HIDE DEF F
    <2>3. /\ Lists(a, F, 0, 1) /\ Lists(u, F, 1, 1) /\ Lists(b, F, 2, 1) /\ Lists(c, F, 3, 1)
          /\ Lists(e, F, 4, 1) /\ Lists(f, F, 5, 1)
      BY <2>2, ListsWrite
    <2> HIDE DEF a, u, b, c, e, f, s
    <2>4. Lists(a \o u, F, 0, 2)
      BY <2>3, ListsCat
    <2>6. Lists(a \o u \o b, F, 0, 3)
      BY <2>3, <2>4, ListsCat
    <2>7. Lists(a \o u \o b \o c, F, 0, 4)
      BY <2>3, <2>6, ListsCat
    <2>8. Lists(a \o u \o b \o c \o e, F, 0, 5)
      BY <2>3, <2>7, ListsCat
    <2>9. Lists(a \o u \o b \o c \o e \o f, F, 0, 6)
      BY <2>3, <2>8, ListsCat
    <2>10. /\ IsScript(s) /\ Len(s) = 6
           /\ s[1] = F[1] /\ s[2] = F[2] /\ s[3] = F[3] /\ s[4] = F[4] /\ s[5] = F[5] /\ s[6] = F[6]
      <3>1. Lists(s, F, 0, 6)
        BY <2>1, <2>9
      <3> QED
        BY <3>1 DEF Lists
    <2>11. \A i \in 1..6 : i > 4 \/ i = 1 => DOMAIN s[i] \subseteq Plain
      BY <1>0, <2>2, <2>10
    <2>12. Aims(s, at, d, 4)
      BY <2>2, <2>10, <2>11 DEF Aims
    <2> QED
      BY <2>12 DEF s
  <1> QED
    BY <1>1, <1>2

LEMMA EmptyCat ==
  ASSUME NEW t, IsScript(t)
  PROVE  <<>> \o t = t
  BY DEF IsScript

LEMMA FiveCells ==
  ASSUME NEW cells, NEW a, NEW b, NEW c, NEW e, NEW f, cells = <<a, b, c, e, f>>
  PROVE  DOMAIN cells = 1..5 /\ cells[1] = a /\ cells[2] = b /\ cells[4] = e /\ cells[5] = f
  OBVIOUS

LEMMA GendacCells ==
  ASSUME chip \in Gendacs
  PROVE  /\ Cell("DATA", 1, "m") /\ Cell("DATA", 2, "n") /\ Cell("DATA", 4, "mm") /\ Cell("DATA", 5, "mn")
  <1> DEFINE c == Cells("DATA")
  <1>1. chip # "CH8391" /\ chip \notin {"TI3025", "TI3026", "MGATI3026"}
    BY DEF Gendacs
  <1>2. c = <<"m", "n", "", "mm", "mn">>
    BY <1>1, CellsOf DEF Port
  <1> HIDE DEF c
  <1>3. DOMAIN c = 1..5 /\ c[1] = "m" /\ c[2] = "n" /\ c[4] = "mm" /\ c[5] = "mn"
    BY <1>2, FiveCells
  <1>4. 1 \in DOMAIN c /\ 2 \in DOMAIN c /\ 4 \in DOMAIN c /\ 5 \in DOMAIN c
    BY <1>3
  <1> QED
    BY <1>3, <1>4, Zenon DEF Cell, c

LEMMA GendacData ==
  ASSUME chip \in Gendacs, NEW r, Registers \subseteq DOMAIN r, NEW v, NEW t, t = After(r, Wr("DATA", v))
  PROVE  /\ r["IX"] = 1 => t["IX"] = 2 /\ t["mm"] = r["mm"] /\ t["mn"] = r["mn"]
         /\ r["IX"] = 2 => t["mm"] = r["mm"] /\ t["mn"] = r["mn"]
         /\ r["IX"] = 4 => t["IX"] = 5 /\ t["mm"] = v
         /\ r["IX"] = 5 => t["mm"] = r["mm"] /\ t["mn"] = v
  <1>1. "DATA" \in Port /\ Pointer["DATA"] = "IX"
    BY Pointers DEF Port
  <1>2. "IX" \in Registers /\ {"m", "n", "mm", "mn"} \subseteq Registers
    BY DEF Registers
  <1>3. ASSUME NEW a \in {"m", "n", "mm", "mn"}, To(r, "DATA") = a
        PROVE  /\ t["IX"] = r["IX"] + 1 /\ t[a] = v
               /\ \A y \in Registers : y # a /\ y # "IX" => t[y] = r[y]
    <2>1. a \in Registers /\ "IX" \in Registers /\ a # "IX"
      BY <1>2
    <2> QED
      BY <1>1, <1>3, <2>1, AfterCell
  <1>4. CASE r["IX"] = 1
    <2>1. To(r, "DATA") = "m"
      BY <1>1, <1>4, GendacCells, Zenon DEF To, Cell
    <2> QED
      BY <1>2, <1>3, <1>4, <2>1
  <1>5. CASE r["IX"] = 2
    <2>1. To(r, "DATA") = "n"
      BY <1>1, <1>5, GendacCells, Zenon DEF To, Cell
    <2> QED
      BY <1>2, <1>3, <1>5, <2>1
  <1>6. CASE r["IX"] = 4
    <2>1. To(r, "DATA") = "mm"
      BY <1>1, <1>6, GendacCells, Zenon DEF To, Cell
    <2> QED
      BY <1>2, <1>3, <1>6, <2>1
  <1>7. CASE r["IX"] = 5
    <2>1. To(r, "DATA") = "mn"
      BY <1>1, <1>7, GendacCells, Zenon DEF To, Cell
    <2> QED
      BY <1>2, <1>3, <1>7, <2>1
  <1> QED
    BY <1>4, <1>5, <1>6, <1>7

\* One write of either clock of a GENDAC: the pixel clock's leave the
\* memory's registers alone, the memory's set them.
LEMMA ReachStep ==
  ASSUME chip \in Gendacs, NEW r, Registers \subseteq DOMAIN r, NEW s, s # <<>>, NEW d,
         NEW at \in {1, 4}, NEW j \in 0..4, Aims(s, at, d, j), Reached(r, at, d, j),
         NEW t, t = After(r, Head(s))
  PROVE  /\ Reached(t, at, d, Fewer(j))
         /\ at = 1 => t["mm"] = r["mm"] /\ t["mn"] = r["mn"]
  <1> DEFINE w == Head(s)
  <1>1. /\ j \in {0, 4} => DOMAIN w \subseteq Plain
        /\ j = 3 => w = Wr("IX", at)
        /\ j = 2 => w = Wr("DATA", d.m)
        /\ j = 1 => w = Wr("DATA", d.n)
    BY AimsStep
  <1>2. t = After(r, w)
    OBVIOUS
  <1> HIDE DEF w
  <1>3. CASE j \in {0, 4}
    <2>1. chip # "MGATI3026"
      BY DEF Gendacs
    <2>2. t["mm"] = r["mm"] /\ t["mn"] = r["mn"]
      BY <1>1, <1>2, <1>3, <2>1, AfterPlain
    <2> QED
      BY <1>3, <2>2 DEF Reached, Fewer
  <1>4. CASE j = 3
    <2>1. "IX" \in Registers \ {"CTL"} /\ "mm" \in Registers /\ "mn" \in Registers
      BY DEF Registers
    <2>2. t = After(r, Wr("IX", at))
      BY <1>1, <1>2, <1>4
    <2>3. t["IX"] = at /\ t["mm"] = r["mm"] /\ t["mn"] = r["mn"]
      BY <2>1, <2>2, AfterWrite
    <2> QED
      BY <1>4, <2>3 DEF Reached, Fewer
  <1>5. CASE j = 2
    <2>1. t = After(r, Wr("DATA", d.m)) /\ r["IX"] = at
      BY <1>1, <1>2, <1>5 DEF Reached
    <2>2. /\ at = 1 => t["IX"] = 2 /\ t["mm"] = r["mm"] /\ t["mn"] = r["mn"]
          /\ at = 4 => t["IX"] = 5 /\ t["mm"] = d.m
      BY <2>1, GendacData
    <2> QED
      BY <1>5, <2>2 DEF Reached, Fewer
  <1>6. CASE j = 1
    <2>1. t = After(r, Wr("DATA", d.n)) /\ r["IX"] = at + 1
      BY <1>1, <1>2, <1>6 DEF Reached
    <2>2. /\ at = 1 => t["mm"] = r["mm"] /\ t["mn"] = r["mn"]
          /\ at = 4 => t["mm"] = r["mm"] /\ t["mn"] = d.n
      BY <2>1, GendacData
    <2> QED
      BY <1>6, <2>2 DEF Reached, Fewer
  <1> QED
    BY <1>3, <1>4, <1>5, <1>6

LEMMA AimsUnlocked ==
  ASSUME NEW s, s # <<>>, NEW at, NEW d, NEW j \in 0..4, Aims(s, at, d, j)
  PROVE  "LOCK" \notin DOMAIN Head(s)
  <1> DEFINE w == Head(s)
  <1>1. DOMAIN w \subseteq Plain \/ \E x \in {"IX", "DATA"} : \E v : w = Wr(x, v)
    BY AimsStep
  <1> HIDE DEF w
  <1>2. ASSUME NEW x \in {"IX", "DATA"}, NEW v, w = Wr(x, v)
        PROVE  "LOCK" \notin DOMAIN w
    <2>1. DOMAIN w = {x}
      BY <1>2 DEF Wr, :>
    <2> QED
      BY <2>1
  <1>3. "LOCK" \notin DOMAIN w
    BY <1>1, <1>2 DEF Plain
  <1> QED
    BY <1>3 DEF w

LEMMA GendacPixel ==
  ASSUME NEW k \in Gendacs, NEW f, NEW r
  PROVE  \E j \in {0, 3, 4} : Aims(SetClockchipClock(k, f, r), 1, Setting[k][f], j)
  <1> DEFINE d == Setting[k][f]
             u == SetClockchipClock(k, f, r)
             v == Select(k, CHOOSE i \in VgaIndex(k, f) : TRUE)
             s == Driver(k, f, d, r)
             a == IBMRGBKludge(k)
  <1>1. u = a \o (IF VgaIndex(k, f) # {} THEN v ELSE s)
    BY DEF SetClockchipClock
  <1>2. a = <<>>
    BY DEF IBMRGBKludge, Gendacs
  <1>3. \A no : Within(Select(k, no), Plain)
    <2>1. {"MISC", "CR42", "CS"} \subseteq Plain
      BY DEF Plain
    <2> QED
      BY <2>1, SelectWrites, WithinMore
  <1>4. PICK j \in {3, 4} : Aims(GendacPll(k, 1, d, r), 1, d, j)
    BY GendacAims
  <1>5. Aims(s, 1, d, j)
    <2>1. s = GendacPll(k, 1, d, r) \o Select(k, 2)
      BY DEF Driver, CommonSetClock, Gendacs, Mach64s, Rivas
    <2> HIDE DEF s, d
    <2> QED
      BY <1>3, <1>4, <2>1, AimsThen
  <1>6. Aims(v, 1, d, 0)
    BY <1>3, AimsPlain
  <1> HIDE DEF u, v, s, a, d
  <1>7. \A q \in 0..4 : \A t : Aims(t, 1, d, q) => Aims(<<>> \o t, 1, d, q)
    BY EmptyCat DEF Aims
  <1> QED
    BY <1>1, <1>2, <1>5, <1>6, <1>7 DEF u, d

\* While the pixel clock is programmed the writes to the port go to its own
\* registers; when the memory's was, both dividers have arrived.
GendacInv ==
  chip \in Gendacs /\ kills = 0 =>
    /\ phase # "mclk" => Holds
    /\ phase = "pixel" => \E j \in 0..4 : \E d : Aims(script, 1, d, j) /\ Reached(regs, 1, d, j)
    /\ phase = "mclk" =>
         LET d == MSetting[chip][run.mclk]
         IN \E j \in 0..4 : Aims(script, 4, d, j) /\ Reached(regs, 4, d, j)

LEMMA FewerSmall ==
  ASSUME NEW j \in 0..4
  PROVE  Fewer(j) \in 0..4
  BY DEF Fewer

\* The pixel clock's script when it begins.
LEMMA GendacBegins ==
  ASSUME NEW k \in Gendacs, NEW f, NEW r, NEW u
  PROVE  \E j \in 0..4 : \E d : Aims(SetClockchipClock(k, f, r), 1, d, j) /\ Reached(u, 1, d, j)
  <1>1. PICK j \in {0, 3, 4} : Aims(SetClockchipClock(k, f, r), 1, Setting[k][f], j)
    BY GendacPixel
  <1> DEFINE d == Setting[k][f]
             s == SetClockchipClock(k, f, r)
  <1>2. Aims(s, 1, d, j)
    BY <1>1
  <1> HIDE DEF d, s
  <1>3. Reached(u, 1, d, j) /\ j \in 0..4
    BY <1>1 DEF Reached
  <1>4. \E jj \in 0..4 : \E dd : Aims(s, 1, dd, jj) /\ Reached(u, 1, dd, jj)
    BY <1>2, <1>3
  <1> QED
    BY <1>4 DEF s

LEMMA GendacInvNext == RunInv /\ GendacInv /\ [Next]_vars => GendacInv'
  <1> SUFFICES ASSUME RunInv, GendacInv, [Next]_vars, chip' \in Gendacs, kills' = 0 PROVE GendacInv'
    BY DEF GendacInv
  <1>0. chip \in Gendacs /\ kills = 0 /\ Registers \subseteq DOMAIN regs
    BY MaxKillsAssumption DEF RunInv, Next, Start, Write, Locked, MClkDone, Done, Kill, vars
  <1>1. CASE Start
    <2>1. PICK f \in Wanted[chip], q \in MClks[chip] \cup {0} :
            /\ run' = [freq |-> f, mclk |-> q]
            /\ IF q = 0 THEN phase' = "pixel" /\ script' = SetClockchipClock(chip, f, regs)
               ELSE phase' = "mclk" /\ script' = SetClockchipMclock(chip, q, regs)
      BY <1>1 DEF Start
    <2>2. phase = "idle" /\ UNCHANGED <<chip, regs, held, kills>>
      BY <1>1 DEF Start
    <2>3. CASE q = 0
      <3>1. phase' = "pixel" /\ script' = SetClockchipClock(chip, f, regs)
        BY <2>1, <2>3
      <3>2. \E j \in 0..4 : \E d : Aims(script', 1, d, j) /\ Reached(regs', 1, d, j)
        BY <1>0, <3>1, GendacBegins
      <3>3. Holds'
        BY <1>0, <2>2 DEF GendacInv, Holds
      <3> QED
        BY <3>1, <3>2, <3>3 DEF GendacInv
    <2>4. CASE q # 0
      <3> DEFINE d == MSetting[chip][q]
      <3>1. phase' = "mclk" /\ run'.mclk = q /\ script' = GendacPll(chip, 4, d, regs)
        BY <1>0, <2>1, <2>4 DEF SetClockchipMclock, Gendacs, CommonSetClock
      <3>2. d = MSetting[chip'][run'.mclk]
        BY <2>2, <3>1
      <3> HIDE DEF d
      <3>3. PICK j \in {3, 4} : Aims(script', 4, d, j)
        BY <3>1, GendacAims
      <3>4. j \in 0..4 /\ Reached(regs', 4, d, j)
        BY <3>3 DEF Reached
      <3> QED
        BY <3>1, <3>2, <3>3, <3>4 DEF GendacInv
    <2> QED
      BY <2>3, <2>4
  <1>2. CASE Write
    <2>1. /\ script # <<>> /\ script' = Tail(script) /\ regs' = After(regs, Head(script))
          /\ UNCHANGED <<chip, phase, run, held, kills>>
      BY <1>2 DEF Write
    <2>2. CASE phase = "pixel"
      <3>1. PICK j, d : j \in 0..4 /\ Aims(script, 1, d, j) /\ Reached(regs, 1, d, j)
        BY <1>0, <2>2 DEF GendacInv
      <3>2. Aims(script', 1, d, Fewer(j)) /\ Fewer(j) \in 0..4
        BY <2>1, <3>1, AimsStep, FewerSmall
      <3>3. Reached(regs', 1, d, Fewer(j)) /\ regs'["mm"] = regs["mm"] /\ regs'["mn"] = regs["mn"]
        BY <1>0, <2>1, <3>1, ReachStep
      <3>4. Holds'
        BY <1>0, <2>1, <2>2, <3>3 DEF GendacInv, Holds
      <3> QED
        BY <2>1, <2>2, <3>2, <3>3, <3>4 DEF GendacInv
    <2>3. CASE phase = "mclk"
      <3> DEFINE d == MSetting[chip][run.mclk]
      <3>1. PICK j \in 0..4 : Aims(script, 4, d, j) /\ Reached(regs, 4, d, j)
        BY <1>0, <2>3 DEF GendacInv
      <3>2. d = MSetting[chip'][run'.mclk]
        BY <2>1
      <3> HIDE DEF d
      <3>3. Aims(script', 4, d, Fewer(j)) /\ Fewer(j) \in 0..4
        BY <2>1, <3>1, AimsStep, FewerSmall
      <3>4. Reached(regs', 4, d, Fewer(j))
        BY <1>0, <2>1, <3>1, ReachStep
      <3> QED
        BY <2>1, <2>3, <3>2, <3>3, <3>4 DEF GendacInv
    <2> QED
      BY <2>1, <2>2, <2>3 DEF RunInv
  <1>3. CASE Locked
    <2>1. script # <<>> /\ "LOCK" \in DOMAIN Head(script)
      BY <1>3 DEF Locked
    <2>2. CASE phase = "pixel"
      <3>1. PICK j, d : j \in 0..4 /\ Aims(script, 1, d, j)
        BY <1>0, <2>2 DEF GendacInv
      <3> QED
        BY <2>1, <3>1, AimsUnlocked
    <2>3. CASE phase = "mclk"
      <3> DEFINE d == MSetting[chip][run.mclk]
      <3>1. PICK j \in 0..4 : Aims(script, 4, d, j)
        BY <1>0, <2>3 DEF GendacInv
      <3> HIDE DEF d
      <3> QED
        BY <2>1, <3>1, AimsUnlocked
    <2> QED
      BY <2>1, <2>2, <2>3 DEF RunInv
  <1>4. CASE MClkDone
    <2>1. /\ phase = "mclk" /\ script = <<>> /\ phase' = "pixel" /\ held' = run.mclk
          /\ script' = SetClockchipClock(chip, run.freq, regs)
          /\ UNCHANGED <<chip, regs, run, kills>>
      BY <1>4 DEF MClkDone
    <2> DEFINE d == MSetting[chip][run.mclk]
    <2>2. PICK j \in 0..4 : Aims(script, 4, d, j) /\ Reached(regs, 4, d, j)
      BY <1>0, <2>1 DEF GendacInv
    <2>3. d = MSetting[chip'][held'] /\ held' \in MClks[chip']
      BY <2>1 DEF RunInv
    <2> HIDE DEF d
    <2>4. j = 0
      BY <2>1, <2>2, AimsEnd
    <2>5. regs["mm"] = d.m /\ regs["mn"] = d.n
      BY <2>2, <2>4 DEF Reached
    <2>6. Holds'
      BY <2>1, <2>3, <2>5 DEF Holds
    <2>7. \E i \in 0..4 : \E e : Aims(script', 1, e, i) /\ Reached(regs', 1, e, i)
      BY <1>0, <2>1, GendacBegins
    <2> QED
      BY <2>1, <2>6, <2>7 DEF GendacInv
  <1>5. CASE Done
    BY <1>0, <1>5 DEF Done, GendacInv, Holds
  <1>6. CASE Kill
    BY <1>0, <1>6 DEF Kill
  <1>7. CASE UNCHANGED vars
    <2>1. Holds' <=> Holds
      BY <1>7 DEF vars, Holds
    <2> QED
      BY <1>0, <1>7, <2>1 DEF vars, GendacInv
  <1> QED
    BY <1>1, <1>2, <1>3, <1>4, <1>5, <1>6, <1>7 DEF Next

LEMMA HeldInit == Init => TrioInv /\ GendacInv
  <1> SUFFICES ASSUME Init PROVE TrioInv /\ GendacInv
    OBVIOUS
  <1>1. phase = "idle" /\ held = 0
    BY DEF Init
  <1> QED
    BY <1>1 DEF TrioInv, GendacInv, Holds

LEMMA HeldClock == OwnInv /\ MgaInv /\ TrioInv /\ GendacInv => MemoryClockHeld
  <1> SUFFICES ASSUME OwnInv, MgaInv, TrioInv, GendacInv, phase = "idle", kills = 0, held # 0,
                      chip \in WithMClk
               PROVE  LET d == MSetting[chip][held]
                      IN regs["mm"] = d.m /\ regs["mn"] = d.n /\ regs["MSRC"] = 1
    BY DEF MemoryClockHeld, Over
  <1>1. OnOwn
    BY DEF OwnInv, MgaInv
  <1>2. Holds
    BY DEF WithMClk, MgaInv, TrioInv, GendacInv
  <1> QED
    BY <1>1, <1>2 DEF OnOwn, Holds

\* What the last MClk line set stays in the memory's dividers, whatever the
\* clocks of that line and of the runs after it: no driver of a pixel clock
\* touches them, and those of the memory clock set both of them.
THEOREM MemoryClockStays == Spec => []MemoryClockHeld
  <1>1. Init => RunInv /\ GateInv /\ OwnInv /\ MgaInv /\ TrioInv /\ GendacInv
    BY RunInvInit, GateInvInit, OwnInvInit, HeldInit
  <1>2. RunInv /\ GateInv /\ OwnInv /\ MgaInv /\ TrioInv /\ GendacInv /\ [Next]_vars
        => RunInv' /\ GateInv' /\ OwnInv' /\ MgaInv' /\ TrioInv' /\ GendacInv'
    BY RunInvNext, GateInvNext, OwnInvNext, MgaInvNext, TrioInvNext, GendacInvNext
  <1> QED
    BY <1>1, <1>2, HeldClock, PTL DEF Spec
=============================================================================

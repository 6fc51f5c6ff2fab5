-------------------------- MODULE ConfigFileProofs --------------------------
(***************************************************************************)
(* For files of any lines and any length: that the last line of its kind   *)
(* is the one that counts, by induction over the lines that are read, and  *)
(* that a mode which is programmed is the one the file says, within the    *)
(* limits the file gives.                                                  *)
(***************************************************************************)
EXTENDS ConfigFile, TLAPS, WellFoundedInduction

Made == {complete_modestruct(l) : l \in lines}

\* While the file is read, what it sets has the shape the properties look at.
Shape == /\ file \in Seq(lines)
         /\ DOMAIN set = Single
         /\ modes \in Seq(Made)

AllLast == ValuesAreLast /\ FontsAreLast /\ CursorIsLast /\ ModesAreLast

LastInv == pc = "parse" => Shape /\ AllLast
-----------------------------------------------------------------------------
(* Reading a line adds one at the end.                                     *)

LEMMA Grow ==
  ASSUME NEW S, NEW s \in Seq(S), NEW l \in S, NEW t, t = Append(s, l)
  PROVE  /\ t \in Seq(S)
         /\ DOMAIN s \subseteq Nat
         /\ DOMAIN t = DOMAIN s \cup {Len(s) + 1}
         /\ t[Len(s) + 1] = l
         /\ \A i \in DOMAIN s : i < Len(s) + 1 /\ t[i] = s[i]
  OBVIOUS

\* And putting one in front of a list moves the others up.
LEMMA InFront ==
  ASSUME NEW S, NEW s \in Seq(S), NEW m \in S, NEW t, t = <<m>> \o s
  PROVE  /\ t \in Seq(S)
         /\ DOMAIN t = 1..(Len(s) + 1)
         /\ DOMAIN s = 1..Len(s)
         /\ t[1] = m
         /\ \A i \in DOMAIN t : i > 1 => i - 1 \in DOMAIN s /\ t[i] = s[i - 1]
         /\ \A i \in DOMAIN s : i + 1 \in DOMAIN t /\ t[i + 1] = s[i]
  OBVIOUS

\* A line n after those at A has the last word if it says anything.
LEMMA LastWord ==
  ASSUME NEW A \in SUBSET Nat, NEW n \in Nat, \A i \in A : i < n,
         NEW B, NEW s, NEW t, \A i \in A : t[i] = s[i],
         NEW none, NEW v, NEW w, LastSays(A, s, none, v),
         \/ B = A /\ w = v
         \/ B = A \cup {n} /\ w = t[n]
  PROVE  LastSays(B, t, none, w)
  <1>1. CASE B = A /\ w = v
    BY <1>1 DEF LastSays
  <1>2. CASE B = A \cup {n} /\ w = t[n]
    <2>1. n \in B
      BY <1>2
    <2>2. \A j \in B : j <= n
      <3> SUFFICES ASSUME NEW j \in B PROVE j <= n
        OBVIOUS
      <3>1. CASE j \in A
        BY <3>1
      <3>2. CASE j = n
        BY <3>2
      <3> QED
        BY <1>2, <3>1, <3>2
    <2> QED
      BY <1>2, <2>1, <2>2 DEF LastSays
  <1> QED
    BY <1>1, <1>2

\* The lines of a kind, once l has been read.
LEMMA OfKind ==
  ASSUME NEW l \in lines, file \in Seq(lines), file' = Append(file, l), NEW k
  PROVE  LinesOf(k)' = IF l.kind = k THEN LinesOf(k) \cup {Len(file) + 1} ELSE LinesOf(k)
  <1>1. /\ DOMAIN file' = DOMAIN file \cup {Len(file) + 1}
        /\ file'[Len(file) + 1] = l
        /\ \A i \in DOMAIN file : file'[i] = file[i]
    BY Grow
  <1> QED
    BY <1>1 DEF LinesOf
-----------------------------------------------------------------------------
(* The parts of the invariant that a line may disturb.                     *)

LEMMA ValuesKept ==
  ASSUME NEW l \in lines, Shape, ValuesAreLast, file' = Append(file, l),
         \A k \in Single : set'[k] = IF l.kind = k THEN Given(l) ELSE set[k]
  PROVE  ValuesAreLast'
  <1> DEFINE n == Len(file) + 1
             says(k) == [i \in LinesOf(k) |-> Given(file[i])]
             newSays(k) == [i \in LinesOf(k)' |-> Given(file'[i])]
  <1>1. /\ DOMAIN file \subseteq Nat /\ n \in Nat
        /\ DOMAIN file' = DOMAIN file \cup {n}
        /\ file'[n] = l
        /\ \A i \in DOMAIN file : i < n /\ file'[i] = file[i]
    BY Grow DEF Shape
  <1>2. ASSUME NEW k \in Single
        PROVE  LastSays(LinesOf(k)', newSays(k), Initially[k], set'[k])
    <2>1. LinesOf(k)' = IF l.kind = k THEN LinesOf(k) \cup {n} ELSE LinesOf(k)
      BY OfKind DEF Shape
    <2>2. LinesOf(k) \in SUBSET Nat /\ \A i \in LinesOf(k) : i < n
      BY <1>1 DEF LinesOf
    <2>3. \A i \in LinesOf(k) : newSays(k)[i] = says(k)[i]
      BY <1>1, <2>1 DEF LinesOf
    <2>4. LastSays(LinesOf(k), says(k), Initially[k], set[k])
      BY DEF ValuesAreLast
    <2>5. l.kind = k => newSays(k)[n] = Given(l)
      BY <1>1, <2>1
    <2>6. \/ LinesOf(k)' = LinesOf(k) /\ set'[k] = set[k]
          \/ LinesOf(k)' = LinesOf(k) \cup {n} /\ set'[k] = newSays(k)[n]
      BY <2>1, <2>5
    <2>7. n \in Nat
      BY <1>1
    <2> DEFINE A == LinesOf(k)
               B == LinesOf(k)'
               s == says(k)
               t == newSays(k)
               none == Initially[k]
               v == set[k]
               w == set'[k]
    <2> HIDE DEF newSays, says, n, A, B, s, t, none, v, w
    <2>8. /\ A \in SUBSET Nat /\ \A i \in A : i < n /\ t[i] = s[i]
          /\ LastSays(A, s, none, v)
          /\ \/ B = A /\ w = v
             \/ B = A \cup {n} /\ w = t[n]
      BY <2>2, <2>3, <2>4, <2>6 DEF A, B, s, t, none, v, w
    <2>9. LastSays(B, t, none, w)
      BY <2>7, <2>8, LastWord
    <2> QED
      BY <2>9 DEF B, t, none, w
  <1> QED
    BY <1>2 DEF ValuesAreLast

LEMMA FontsKept ==
  ASSUME NEW l \in lines, Shape, FontsAreLast, file' = Append(file, l),
         \A s \in FontSizes :
           fonts'[s] = IF l.kind = "fontselect" /\ s \in ToSet(l.sizes) THEN l.font ELSE fonts[s]
  PROVE  FontsAreLast'
  <1> DEFINE n == Len(file) + 1
             says(s) == [i \in FontLines(s) |-> file[i].font]
             newSays(s) == [i \in FontLines(s)' |-> file'[i].font]
  <1>1. /\ DOMAIN file \subseteq Nat /\ n \in Nat
        /\ file'[n] = l
        /\ \A i \in DOMAIN file : i < n /\ file'[i] = file[i]
    BY Grow DEF Shape
  <1>2. ASSUME NEW s \in FontSizes
        PROVE  LastSays(FontLines(s)', newSays(s), None, fonts'[s])
    <2>1. FontLines(s)' = IF l.kind = "fontselect" /\ s \in ToSet(l.sizes)
                          THEN FontLines(s) \cup {n} ELSE FontLines(s)
      <3>1. LinesOf("fontselect")' = IF l.kind = "fontselect" THEN LinesOf("fontselect") \cup {n}
                                     ELSE LinesOf("fontselect")
        BY OfKind DEF Shape
      <3>2. \A i \in LinesOf("fontselect") : file'[i] = file[i] /\ i # n
        BY <1>1 DEF LinesOf
      <3> QED
        BY <1>1, <3>1, <3>2, ZenonT(60) DEF FontLines
    <2>2. FontLines(s) \in SUBSET Nat /\ \A i \in FontLines(s) : i < n
      BY <1>1 DEF FontLines, LinesOf
    <2>3. \A i \in FontLines(s) : newSays(s)[i] = says(s)[i]
      BY <1>1, <2>1 DEF FontLines, LinesOf
    <2>4. LastSays(FontLines(s), says(s), None, fonts[s])
      BY DEF FontsAreLast
    <2>5. \/ FontLines(s)' = FontLines(s) /\ fonts'[s] = fonts[s]
          \/ FontLines(s)' = FontLines(s) \cup {n} /\ fonts'[s] = newSays(s)[n]
      BY <1>1, <2>1
    <2> HIDE DEF newSays, says, n
    <2> QED
      BY <1>1, <2>2, <2>3, <2>4, <2>5, LastWord, ZenonT(60)
  <1> QED
    BY <1>2 DEF FontsAreLast

LEMMA CursorKept ==
  ASSUME NEW l \in lines, Shape, CursorIsLast, file' = Append(file, l),
         cursor' = IF l.kind = "cursor" /\ l.ranges # <<>> THEN Ordered(Last(l.ranges)) ELSE cursor
  PROVE  CursorIsLast'
  <1> DEFINE n == Len(file) + 1
             says == [i \in CursorLines |-> Ordered(Last(file[i].ranges))]
             newSays == [i \in CursorLines' |-> Ordered(Last(file'[i].ranges))]
  <1>1. /\ DOMAIN file \subseteq Nat /\ n \in Nat
        /\ file'[n] = l
        /\ \A i \in DOMAIN file : i < n /\ file'[i] = file[i]
    BY Grow DEF Shape
  <1>2. CursorLines' = IF l.kind = "cursor" /\ l.ranges # <<>> THEN CursorLines \cup {n} ELSE CursorLines
    <2>1. LinesOf("cursor")' = IF l.kind = "cursor" THEN LinesOf("cursor") \cup {n} ELSE LinesOf("cursor")
      BY OfKind DEF Shape
    <2>2. \A i \in LinesOf("cursor") : file'[i] = file[i] /\ i # n
      BY <1>1 DEF LinesOf
    <2> QED
      BY <1>1, <2>1, <2>2, ZenonT(60) DEF CursorLines
  <1>3. CursorLines \in SUBSET Nat /\ \A i \in CursorLines : i < n
    BY <1>1 DEF CursorLines, LinesOf
  <1>4. \A i \in CursorLines : newSays[i] = says[i]
    BY <1>1, <1>2 DEF CursorLines, LinesOf
  <1>5. LastSays(CursorLines, says, <<29, 31>>, cursor)
    BY DEF CursorIsLast
  <1>6. \/ CursorLines' = CursorLines /\ cursor' = cursor
        \/ CursorLines' = CursorLines \cup {n} /\ cursor' = newSays[n]
    BY <1>1, <1>2
  <1>7. LastSays(CursorLines', newSays, <<29, 31>>, cursor')
    <2>1. n \in Nat
      BY <1>1
    <2> DEFINE none == <<29, 31>>
               w == cursor'
               B == CursorLines'
    <2> HIDE DEF newSays, says, n, none, w, B
    <2>2. /\ LastSays(CursorLines, says, none, cursor)
          /\ \/ B = CursorLines /\ w = cursor
             \/ B = CursorLines \cup {n} /\ w = newSays[n]
      BY <1>5, <1>6 DEF none, w, B
    <2>3. LastSays(B, newSays, none, w)
      BY <1>3, <1>4, <2>1, <2>2, LastWord
    <2> QED
      BY <2>3 DEF none, w, B
  <1> QED
    BY <1>7 DEF CursorIsLast

\* A mode line that is read shadows the earlier ones of its name.
LEMMA ModesKept ==
  ASSUME NEW l \in lines, Shape, ModesAreLast, file' = Append(file, l),
         modes' = IF l.kind = "mode" THEN addmode(modes, complete_modestruct(l)) ELSE modes
  PROVE  ModesAreLast'
  <1> DEFINE n == Len(file) + 1
             new == complete_modestruct(l)
             After(name) == {i \in LinesOf("mode")' : file'[i].name = name}
  <1>1. /\ DOMAIN file \subseteq Nat /\ n \in Nat
        /\ file'[n] = l
        /\ \A i \in DOMAIN file : i < n /\ file'[i] = file[i]
    BY Grow DEF Shape
  <1>2. LinesOf("mode")' = IF l.kind = "mode" THEN LinesOf("mode") \cup {n} ELSE LinesOf("mode")
    BY OfKind DEF Shape
  <1>3. \A i \in LinesOf("mode") : i \in Nat /\ i < n /\ file'[i] = file[i]
    BY <1>1 DEF LinesOf
  <1>4. \A name : After(name) = IF l.kind = "mode" /\ l.name = name
                                     THEN ModeLines(name) \cup {n} ELSE ModeLines(name)
    BY <1>1, <1>2, <1>3 DEF ModeLines
  <1>5. \A name : \A i \in ModeLines(name) : i \in Nat /\ i < n /\ file'[i] = file[i]
    BY <1>3 DEF ModeLines
  <1>6. CASE l.kind # "mode"
    <2>1. modes' = modes /\ LinesOf("mode")' = LinesOf("mode") /\ \A name : After(name) = ModeLines(name)
      BY <1>2, <1>4, <1>6
    <2>2. ASSUME NEW i \in LinesOf("mode")'
          PROVE  \E k \in DOMAIN modes' : modes'[k].name = file'[i].name
      <3>1. i \in LinesOf("mode") /\ file'[i] = file[i]
        BY <1>3, <2>1
      <3>2. \E k \in DOMAIN modes : modes[k].name = file[i].name
        BY <3>1 DEF ModesAreLast
      <3> QED
        BY <2>1, <3>1, <3>2
    <2>3. ASSUME NEW k \in DOMAIN modes',
                 \A j \in DOMAIN modes' : j < k => modes'[j].name # modes'[k].name
          PROVE  \E i \in After(modes'[k].name) :
                    /\ modes'[k] = complete_modestruct(file'[i])
                    /\ \A j \in After(modes'[k].name) : j <= i
      <3>1. k \in DOMAIN modes /\ \A j \in DOMAIN modes : j < k => modes[j].name # modes[k].name
        BY <2>1, <2>3
      <3>2. PICK i \in ModeLines(modes[k].name) : /\ modes[k] = complete_modestruct(file[i])
                                                 /\ \A j \in ModeLines(modes[k].name) : j <= i
        BY <3>1 DEF ModesAreLast
      <3> QED
        BY <1>5, <2>1, <3>2
    <2> QED
      BY <2>2, <2>3 DEF ModesAreLast, ModeLines
  <1>7. CASE l.kind = "mode"
    <2>1. new \in Made
      BY DEF Made
    <2>2. /\ DOMAIN modes' = 1..(Len(modes) + 1) /\ DOMAIN modes = 1..Len(modes)
          /\ Len(modes) \in Nat
          /\ modes'[1] = new
          /\ \A k \in DOMAIN modes' : k > 1 => k - 1 \in DOMAIN modes /\ modes'[k] = modes[k - 1]
          /\ \A k \in DOMAIN modes : k + 1 \in DOMAIN modes' /\ modes'[k + 1] = modes[k]
      BY <1>7, <2>1, InFront DEF Shape, addmode
    <2>3. new.name = l.name
      BY DEF complete_modestruct
    <2>4. ASSUME NEW i \in LinesOf("mode")'
          PROVE  \E k \in DOMAIN modes' : modes'[k].name = file'[i].name
      <3>1. CASE i = n
        BY <1>1, <2>2, <2>3, <3>1
      <3>2. CASE i \in LinesOf("mode")
        <4>1. PICK k \in DOMAIN modes : modes[k].name = file[i].name
          BY <3>2 DEF ModesAreLast
        <4>2. k + 1 \in DOMAIN modes' /\ modes'[k + 1].name = file'[i].name
          BY <1>3, <2>2, <3>2, <4>1
        <4> QED
          BY <4>2
      <3> QED
        BY <1>2, <3>1, <3>2
    <2>5. ASSUME NEW k \in DOMAIN modes',
                 \A j \in DOMAIN modes' : j < k => modes'[j].name # modes'[k].name
          PROVE  \E i \in After(modes'[k].name) :
                    /\ modes'[k] = complete_modestruct(file'[i])
                    /\ \A j \in After(modes'[k].name) : j <= i
      <3>1. CASE k = 1
        <4>1. n \in After(l.name) /\ complete_modestruct(file'[n]) = new
          BY <1>1, <1>4, <1>7
        <4>2. ASSUME NEW j \in After(l.name) PROVE j <= n
          <5>1. j = n \/ j \in ModeLines(l.name)
            BY <1>4, <1>7
          <5>2. j \in ModeLines(l.name) => j <= n
            BY <1>1, <1>5
          <5> QED
            BY <1>1, <5>1, <5>2
        <4> QED
          BY <2>2, <2>3, <3>1, <4>1, <4>2
      <3>2. CASE k > 1
        <4> DEFINE h == k - 1
                   name == modes[h].name
        <4>1. h \in DOMAIN modes /\ modes'[k] = modes[h]
          BY <2>2, <3>2
        <4>2. l.name # name
          BY <2>2, <2>3, <2>5, <3>2, <4>1
        <4>3. \A j \in DOMAIN modes : j < h => modes[j].name # name
          <5> SUFFICES ASSUME NEW j \in DOMAIN modes, j < h PROVE modes[j].name # name
            OBVIOUS
          <5>1. j + 1 \in DOMAIN modes' /\ modes'[j + 1] = modes[j] /\ j + 1 < k
            BY <2>2
          <5> QED
            BY <2>5, <4>1, <5>1
        <4>4. PICK i \in ModeLines(name) : /\ modes[h] = complete_modestruct(file[i])
                                           /\ \A j \in ModeLines(name) : j <= i
          BY <4>1, <4>3 DEF ModesAreLast
        <4>5. After(name) = ModeLines(name) /\ file'[i] = file[i]
          BY <1>4, <1>5, <4>2, <4>4
        <4> QED
          BY <4>1, <4>4, <4>5
      <3>3. k = 1 \/ k > 1
        BY <2>2
      <3> QED
        BY <3>1, <3>2, <3>3
    <2> QED
      BY <2>4, <2>5 DEF ModesAreLast, ModeLines
  <1> QED
    BY <1>6, <1>7
-----------------------------------------------------------------------------
(* The induction over the lines.                                           *)

LEMMA LastInit == Init => LastInv
  <1> SUFFICES ASSUME Init PROVE LastInv
    OBVIOUS
  <1>1. file = <<>> /\ \A k : LinesOf(k) = {}
    BY DEF Init, LinesOf
  <1>2. Shape
    BY DEF Init, Shape, Single
  <1>3. ValuesAreLast
    BY <1>1 DEF Init, ValuesAreLast, LastSays
  <1>4. FontsAreLast
    BY <1>1 DEF Init, FontsAreLast, FontLines, LastSays
  <1>5. CursorIsLast
    BY <1>1 DEF Init, CursorIsLast, CursorLines, LastSays
  <1>6. ModesAreLast
    BY <1>1 DEF Init, ModesAreLast
  <1> QED
    BY <1>2, <1>3, <1>4, <1>5, <1>6 DEF LastInv, AllLast

\* What a line may change: the values of its kind, the fonts, the cursor and
\* the modes by the rules of the lemmas above.
ByTheRules(l) ==
  /\ pc = "parse" /\ file' = Append(file, l) /\ lines' = lines
  /\ DOMAIN set' = DOMAIN set
  /\ \A k \in Single : set'[k] = IF l.kind = k THEN Given(l) ELSE set[k]
  /\ \A s \in FontSizes :
       fonts'[s] = IF l.kind = "fontselect" /\ s \in ToSet(l.sizes) THEN l.font ELSE fonts[s]
  /\ cursor' = IF l.kind = "cursor" /\ l.ranges # <<>> THEN Ordered(Last(l.ranges)) ELSE cursor
  /\ modes' = IF l.kind = "mode" THEN addmode(modes, complete_modestruct(l)) ELSE modes

LEMMA RuleKeeps ==
  ASSUME NEW l \in lines, LastInv, ByTheRules(l)
  PROVE  LastInv'
  <1>1. Shape /\ AllLast
    BY DEF LastInv, ByTheRules
  <1>2. Shape'
    <2>1. file' \in Seq(lines)
      BY <1>1, Grow DEF Shape, ByTheRules
    <2>2. Made' = Made /\ complete_modestruct(l) \in Made
      BY DEF Made, ByTheRules
    <2>3. modes' \in Seq(Made)
      BY <1>1, <2>2, InFront DEF Shape, ByTheRules, addmode
    <2> QED
      BY <1>1, <2>1, <2>2, <2>3 DEF Shape, ByTheRules
  <1>3. ValuesAreLast'
    BY <1>1, ValuesKept DEF AllLast, ByTheRules
  <1>4. FontsAreLast'
    BY <1>1, FontsKept DEF AllLast, ByTheRules
  <1>5. CursorIsLast'
    BY <1>1, CursorKept DEF AllLast, ByTheRules
  <1>6. ModesAreLast'
    BY <1>1, ModesKept DEF AllLast, ByTheRules
  <1> QED
    BY <1>2, <1>3, <1>4, <1>5, <1>6 DEF LastInv, AllLast

\* Every line follows the rules.
LEMMA ReadByTheRules ==
  ASSUME LastInv, Read
  PROVE  \E l \in lines : ByTheRules(l)
  <1>1. pc = "parse" /\ DOMAIN set = Single
    BY DEF Read, ChipSet, DacSpeed, Value, Path, Option, Clocks, Cursor, FontSelect, Terminals,
           Sync, ModeLine, Reads, LastInv, Shape
  <1> DEFINE Others == Single \ (Programs \cup {"chipset"})
  <1>2. CASE ChipSet
    BY <1>1, <1>2 DEF ChipSet, Reads, ByTheRules, Given, Programs, Single, Initially
  <1>3. CASE DacSpeed
    BY <1>1, <1>3 DEF DacSpeed, Reads, ByTheRules, Single, Initially
  <1>4. CASE Value
    BY <1>1, <1>4 DEF Value, Reads, ByTheRules, Given, Programs, Single, Initially
  <1>5. CASE Path
    BY <1>1, <1>5 DEF Path, Reads, ByTheRules, Given, check_path, Programs, Single, Initially
  <1>6. CASE Option \/ Clocks \/ Terminals \/ Sync
    BY <1>1, <1>6 DEF Option, Clocks, Terminals, Sync, Reads, ByTheRules, Single, Initially
  <1>7. CASE Cursor
    BY <1>1, <1>7 DEF Cursor, Reads, ByTheRules, Single, Initially
  <1>8. CASE FontSelect
    BY <1>1, <1>8 DEF FontSelect, Reads, ByTheRules, Single, Initially
  <1>9. CASE ModeLine
    BY <1>1, <1>9 DEF ModeLine, Reads, ByTheRules, Single, Initially
  <1> QED
    BY <1>2, <1>3, <1>4, <1>5, <1>6, <1>7, <1>8, <1>9 DEF Read

LEMMA LastStep == LastInv /\ [Next]_vars => LastInv'
  <1> SUFFICES ASSUME LastInv, [Next]_vars PROVE LastInv'
    OBVIOUS
  <1>1. CASE Read
    BY <1>1, ReadByTheRules, RuleKeeps
  <1>2. CASE Refused \/ EndOfFile \/ Sanitize \/ ScanModes \/ FindMode \/ Validate
    <2>1. pc' # "parse"
      BY <1>2 DEF Refused, EndOfFile, Sanitize, ScanModes, FindMode, Validate
    <2> QED
      BY <2>1 DEF LastInv
  <1>3. CASE UNCHANGED vars
    <2>1. pc' = pc /\ lines' = lines /\ file' = file /\ set' = set /\ fonts' = fonts
          /\ cursor' = cursor /\ modes' = modes
      BY <1>3 DEF vars, parsed
    <2>2. Shape' = Shape
      BY <2>1 DEF Shape, Made
    <2>3. ValuesAreLast' = ValuesAreLast
      BY <2>1 DEF ValuesAreLast, LinesOf
    <2>4. FontsAreLast' = FontsAreLast
      BY <2>1 DEF FontsAreLast, FontLines, LinesOf
    <2>5. CursorIsLast' = CursorIsLast
      BY <2>1 DEF CursorIsLast, CursorLines, LinesOf
    <2>6. ModesAreLast' = ModesAreLast
      BY <2>1 DEF ModesAreLast, ModeLines, LinesOf
    <2> QED
      BY <2>1, <2>2, <2>3, <2>4, <2>5, <2>6 DEF LastInv, AllLast
  <1> QED
    BY <1>1, <1>2, <1>3 DEF Next

\* However many lines a file has and in whatever order: of lines of one kind,
\* of one font size and of one mode name the last one counts (src/cfgfile.y).
THEOREM TheLastLineCounts == Spec => []LastLineCounts
  <1>1. LastInv => LastLineCounts
    BY DEF LastInv, AllLast, LastLineCounts
  <1> QED
    BY LastInit, LastStep, <1>1, PTL DEF Spec
-----------------------------------------------------------------------------
(* What complete_modestruct computes from a line.                         *)

\* A nonempty set of line numbers has a last.
LEMMA Greatest ==
  ASSUME NEW n \in Nat, NEW S \in SUBSET (1..n), S # {}
  PROVE  Max(S) \in S /\ \A i \in S : i <= Max(S)
  <1> DEFINE R == OpToRel(<, Nat)
             Above == {k \in Nat : \A i \in S : i <= k}
  <1>1. \A x, y \in Nat : x < y => <<x, y>> \in R
    BY DEF OpToRel
  <1>2. IsWellFoundedOn(R, Nat)
    BY Zenon, NatLessThanWellFounded
  <1>3. n \in Above
    OBVIOUS
  <1> HIDE DEF R
  <1>4. PICK k \in Above : \A j \in Above : ~(<<j, k>> \in R)
    BY <1>2, <1>3, WFMin
  <1>5. \A j \in Above : ~(j < k)
    BY <1>1, <1>4
  <1>6. k \in S
    <2> SUFFICES ASSUME k \notin S PROVE FALSE
      OBVIOUS
    <2>1. k # 0
      <3>1. PICK i \in S : i <= k
        BY <1>4
      <3> QED
        BY <3>1
    <2>2. k - 1 \in Above
      BY <1>4, <2>1
    <2> QED
      BY <1>4, <1>5, <2>2
  <1>7. \A i \in S : k >= i
    BY <1>4
  <1> QED
    BY <1>6, <1>7 DEF Max

\* A quotient is the number the property calls a / b rounded down.
LEMMA RoundedDown ==
  ASSUME NEW a \in Nat, NEW b \in Nat, b # 0
  PROVE  a \div b \in Nat /\ Fraction(a \div b, a, b)
  <1> DEFINE q == a \div b
  <1>1. q \in Int
    OBVIOUS
  <1>2. b * q <= a /\ a < b * q + b
    OBVIOUS
  <1>3. q >= 0
    OBVIOUS
  <1> HIDE DEF q
  <1>4. q * b = b * q /\ (q + 1) * b = b * q + b
    BY <1>1
  <1> QED
    BY <1>1, <1>2, <1>3, <1>4 DEF Fraction, q

\* Timings rise from the text, of at least 16 dots or lines, to the total.
LEMMA Rising ==
  ASSUME NEW p \in Nat, NEW w \in Nat, NEW ds, NEW ss, NEW se, NEW de,
         ds \in 16..p, ss \in ds..p, se \in (ss + 1)..(ss + w), de \in se..p
  PROVE  de \in Nat /\ de >= 17
  <1>1. ds \in Int /\ ds >= 16
    OBVIOUS
  <1>2. ss \in Int /\ ss >= ds
    BY <1>1
  <1>3. se \in Int /\ se >= ss + 1
    BY <1>2
  <1>4. de \in Int /\ de >= se
    BY <1>3
  <1> QED
    BY <1>1, <1>2, <1>3, <1>4

LEMMA TotalIsLarge ==
  ASSUME NEW l, InRange(l)
  PROVE  l.hde \in Nat /\ l.hde >= 17 /\ l.vde \in Nat /\ l.vde >= 17
  <1>1. l.hde \in Nat /\ l.hde >= 17
    <2> DEFINE p == 2048
               w == 256
               ds == l.hds
               ss == l.hss
               se == l.hse
               de == l.hde
    <2>1. ds \in 16..p /\ ss \in ds..p /\ se \in (ss + 1)..(ss + w) /\ de \in se..p
      BY DEF InRange
    <2>2. p \in Nat /\ w \in Nat
      OBVIOUS
    <2> HIDE DEF p, w, ds, ss, se, de
    <2>3. de \in Nat /\ de >= 17
      BY <2>1, <2>2, Rising
    <2> QED
      BY <2>3 DEF de
  <1>2. l.vde \in Nat /\ l.vde >= 17
    <2> DEFINE p == 1023
               w == 16
               ds == l.vds
               ss == l.vss
               se == l.vse
               de == l.vde
    <2>1. ds \in 16..p /\ ss \in ds..p /\ se \in (ss + 1)..(ss + w) /\ de \in se..p
      BY DEF InRange
    <2>2. p \in Nat /\ w \in Nat
      OBVIOUS
    <2> HIDE DEF p, w, ds, ss, se, de
    <2>3. de \in Nat /\ de >= 17
      BY <2>1, <2>2, Rising
    <2> QED
      BY <2>3 DEF de
  <1> QED
    BY <1>1, <1>2

\* The font of a line that was accepted is one of the sizes.
LEMMA FontIsASize ==
  ASSUME NEW l, l.attributes \in Seq(ToSet(l.attributes)),
         \A k \in DOMAIN l.attributes : AttributeOk(l.attributes[k])
  PROVE  Attributes(l).font \in FontSizes
  <1>1. Attributes(l).font = IF Attribute(l, "font") = {} THEN <<8, 16>>
                             ELSE l.attributes[Max(Attribute(l, "font"))][2]
    BY DEF Attributes, add_mode_data
  <1>2. CASE Attribute(l, "font") = {}
    BY <1>1, <1>2 DEF FontSizes
  <1>3. CASE Attribute(l, "font") # {}
    <2>1. Max(Attribute(l, "font")) \in Attribute(l, "font")
      <3>1. Len(l.attributes) \in Nat /\ Attribute(l, "font") \in SUBSET (1..Len(l.attributes))
        BY DEF Attribute
      <3> QED
        BY <1>3, <3>1, Greatest
    <2> QED
      BY <1>1, <1>3, <2>1 DEF Attribute, AttributeOk
  <1> QED
    BY <1>2, <1>3

\* The rates of a mode are those of its line's timings.
LEMMA RatesAreTheLines ==
  ASSUME NEW l, l.kind = "mode", LineOk(l), l.clock \in Nat, l.attributes \in Seq(ToSet(l.attributes))
  PROVE  LET m == complete_modestruct(l) IN
         RatesOf(l, m) /\ m.font \in FontSizes /\ m.clock \in Nat /\ m.hfreq \in Nat /\ m.vfreq \in Nat
  <1> DEFINE font == Attributes(l).font
             scans == IF "doublescan" \in Flags(l) THEN 2 ELSE 1
             fields == IF "interlace" \in Flags(l) THEN 2 ELSE 1
             b == (l.hde \div 8) * font[1]
             c == l.vde * scans
             a == l.clock * 1000
             hfreq == a \div b
             frames == (hfreq * 1000) \div c
             m == complete_modestruct(l)
  <1>1. InRange(l) /\ \A k \in DOMAIN l.attributes : AttributeOk(l.attributes[k])
    BY DEF LineOk
  <1>2. font \in FontSizes
    BY <1>1, FontIsASize
  <1>3. m.hfreq = hfreq /\ m.vfreq = frames * fields /\ m.font = font /\ m.clock = l.clock
    BY DEF complete_modestruct
  <1>4. \A name : name \in Flags(l) <=> Has(l, name)
    BY DEF Flags, Attribute, Has
  <1>5. b \in Nat /\ b # 0
    <2>0. l.hde \in Nat /\ l.hde >= 17
      BY <1>1, TotalIsLarge
    <2>2. l.hde \div 8 \in Nat /\ l.hde \div 8 > 0
      BY <2>0
    <2>3. font[1] \in 8..9
      BY <1>2 DEF FontSizes
    <2> DEFINE e == l.hde \div 8
               w == font[1]
    <2> HIDE DEF e, w
    <2>4. e \in Nat /\ e > 0 /\ w \in 8..9
      BY <2>2, <2>3 DEF e, w
    <2>5. e * w \in Nat /\ e * w # 0
      BY <2>4, SMTT(30)
    <2> QED
      BY <2>5 DEF e, w
  <1>6. c \in Nat /\ c # 0
    <2>1. l.vde \in Nat /\ l.vde >= 17
      BY <1>1, TotalIsLarge
    <2> QED
      BY <2>1
  <1>7. hfreq \in Nat /\ Fraction(hfreq, a, b)
    <2>1. a \in Nat
      OBVIOUS
    <2> HIDE DEF a, b
    <2> QED
      BY <1>5, <2>1, RoundedDown
  <1>8. frames \in Nat /\ Fraction(frames, hfreq * 1000, c)
    <2> DEFINE x == hfreq * 1000
    <2>1. x \in Nat
      <3> HIDE DEF hfreq
      <3> QED
        BY <1>7
    <2> HIDE DEF x, c
    <2>2. x \div c \in Nat /\ Fraction(x \div c, x, c)
      BY <1>6, <2>1, RoundedDown
    <2> QED
      BY <2>2 DEF x
  <1>9. /\ (frames * fields) % fields = 0 /\ (frames * fields) \div fields = frames
        /\ frames * fields \in Nat
    <2> HIDE DEF frames
    <2> QED
      BY <1>8
  <1> QED
    BY <1>2, <1>3, <1>4, <1>7, <1>8, <1>9 DEF RatesOf

\* Scaling the cursor to the font keeps its lines in order.
LEMMA ScaledInOrder ==
  ASSUME NEW x \in Nat, NEW y \in Nat, x <= y, NEW h \in Nat
  PROVE  (x * h) \div 32 <= (y * h) \div 32
  <1> DEFINE p == x * h
             q == y * h
  <1>1. p \in Nat /\ q \in Nat /\ p <= q
    BY SMTT(30)
  <1> HIDE DEF p, q
  <1>2. p \div 32 <= q \div 32
    BY <1>1
  <1> QED
    BY <1>2 DEF p, q
-----------------------------------------------------------------------------
(* The invariant, over the whole run.                                      *)

\* The lines read are those of one file, and each was accepted.
FileInv == /\ \E f \in Files : lines = f.lines
           /\ file \in Seq(lines)
           /\ \A i \in DOMAIN file : LineOk(file[i])
           /\ DOMAIN set = Single

\* The limits are those of the lines, and once the file is checked the default
\* stands where no line gives one.
DefaultRange == [h |-> <<30000, 32000>>, v |-> <<45000, 80000>>]
LimitsInv ==
  /\ DOMAIN limits = {"h", "v"}
  /\ \A w \in {"h", "v"} :
       /\ limits[w] \in Seq(Int \X Int)
       /\ pc # "refused" =>
            ToSet(limits[w]) = IF Ranges(w) = {} /\ pc \notin {"parse", "check"} THEN {DefaultRange[w]}
                               ELSE {add_sync(w, r) : r \in Ranges(w)}

\* The limit on the dot clock, where the code can tell that it was set.
Unless == IF set.chipset = None THEN DEFAULT_MAXCLOCK ELSE DefaultDac[set.chipset]
DacSays == [i \in LinesOf("dacspeed") |-> file[i].value]
MaxInv == OneLimit => LastSays(LinesOf("dacspeed"), DacSays, Unless, maxclock)

\* What stays of the settings and the modes when the file has been read.
SetInv ==
  /\ set.chipset \in Chipsets \cup {None}
  /\ LastSays(LinesOf("default"), [i \in LinesOf("default") |-> file[i].value], None, set.default)
  /\ cursor[1] \in Nat /\ cursor[2] \in Nat /\ cursor[1] <= cursor[2]
  /\ modes \in Seq(Made) /\ ModesAreLast

\* The mode is that of the last line of the name asked for.
ModeInv == \E i \in LinesOf("mode") :
  /\ Asked(file[i].name) /\ \A j \in ModeLines(file[i].name) : j <= i
  /\ mode = complete_modestruct(file[i])

WrittenInv ==
  /\ FileInv /\ LimitsInv /\ MaxInv
  /\ pc \in {"check", "choose", "validate", "go"} => SetInv
  /\ pc \in {"choose", "validate", "go"} => set.chipset # None
  /\ pc \in {"validate", "go"} => ModeInv
  /\ pc = "go" /\ request.validate => \E makes \in BOOLEAN : validate_mode(mode, makes)

\* What the lexer hands over, of a line of this file.
LEMMA LinesAreTyped ==
  ASSUME FileInv, NEW l \in lines
  PROVE  /\ l.kind = "chipset" => l.value \in Chipsets
         /\ l.kind = "dacspeed" => l.value \in Nat
         /\ l.kind = "mode" => l.clock \in Nat /\ l.attributes \in Seq(ToSet(l.attributes))
         /\ l.kind = "sync" => l.which \in {"h", "v"}
         /\ l.kind \in {"sync", "cursor"} => l.ranges \in Seq(Nat \X Nat)
  BY LineAssumption DEF FileInv

\* A line that is read adds itself, and its ranges.
LEMMA OneMore ==
  ASSUME NEW l \in lines, file \in Seq(lines), file' = Append(file, l)
  PROVE  ToSet(file)' = ToSet(file) \cup {l}
  BY Grow DEF ToSet

LEMMA RangesGrow ==
  ASSUME NEW l \in lines, file \in Seq(lines), file' = Append(file, l), NEW w
  PROVE  Ranges(w)' = IF l.kind = "sync" /\ l.which = w THEN Ranges(w) \cup ToSet(l.ranges) ELSE Ranges(w)
  <1> DEFINE old == {x \in ToSet(file) : x.kind = "sync" /\ x.which = w}
             new == {x \in ToSet(file) \cup {l} : x.kind = "sync" /\ x.which = w}
  <1>1. Ranges(w)' = UNION {ToSet(x.ranges) : x \in new}
    BY OneMore DEF Ranges
  <1>2. new = IF l.kind = "sync" /\ l.which = w THEN old \cup {l} ELSE old
    OBVIOUS
  <1>3. Ranges(w) = UNION {ToSet(x.ranges) : x \in old}
    BY DEF Ranges
  <1> HIDE DEF old, new
  <1>4. CASE l.kind = "sync" /\ l.which = w
    <2>1. new = old \cup {l}
      BY <1>2, <1>4
    <2> QED
      BY <1>1, <1>3, <1>4, <2>1
  <1>5. CASE ~(l.kind = "sync" /\ l.which = w)
    BY <1>1, <1>2, <1>3, <1>5
  <1> QED
    BY <1>4, <1>5

\* The elements of a sequence.
LEMMA Elements ==
  ASSUME NEW S, NEW s \in Seq(S)
  PROVE  ToSet(s) \subseteq S
  BY DEF ToSet

LEMMA RangesAreTyped ==
  ASSUME FileInv, NEW w, NEW r \in Ranges(w)
  PROVE  r \in Nat \X Nat
  <1>1. PICK l \in ToSet(file) : l.kind = "sync" /\ r \in ToSet(l.ranges)
    BY DEF Ranges
  <1>2. l \in lines
    BY DEF FileInv, ToSet
  <1>3. l.ranges \in Seq(Nat \X Nat)
    BY <1>1, <1>2, LinesAreTyped
  <1> QED
    BY <1>1, <1>3, Elements

\* What passes a limit made of a range is allowed by the range.
LEMMA SyncIsTyped ==
  ASSUME NEW w \in {"h", "v"}, NEW r \in Nat \X Nat
  PROVE  /\ add_sync(w, r) \in Int \X Int
         /\ \A f \in Int : f \in add_sync(w, r)[1]..add_sync(w, r)[2] => Allows(w, r, f)
  <1> DEFINE a == r[1]
             b == r[2]
             m == Margin[w]
  <1>1. a \in Nat /\ b \in Nat /\ r = <<a, b>>
    OBVIOUS
  <1>2. m \in Nat
    BY DEF Margin
  <1>3. add_sync(w, r) = IF a = b THEN <<a - m, b + m>> ELSE IF a < b THEN <<a, b>> ELSE <<b, a>>
    BY <1>1 DEF add_sync, Ordered
  <1>4. \A f : Allows(w, r, f) <=> (\/ a = b /\ f \in (a - m)..(a + m)
                                    \/ a <= f /\ f <= b
                                    \/ b <= f /\ f <= a)
    BY DEF Allows
  <1> HIDE DEF a, b, m
  <1> QED
    BY <1>1, <1>2, <1>3, <1>4

\* Turning a list round, and joining two, keeps what is in them.
LEMMA Reversed ==
  ASSUME NEW S, NEW g \in Seq(S)
  PROVE  Reverse(g) \in Seq(S) /\ ToSet(Reverse(g)) = ToSet(g)
  <1> DEFINE n == Len(g)
             r == Reverse(g)
  <1>1. /\ n \in Nat /\ DOMAIN g = 1..n /\ r = [i \in 1..n |-> g[(n - i) + 1]]
        /\ \A i \in 1..n : g[i] \in S
    BY DEF Reverse
  <1>2. DOMAIN r = 1..n /\ \A i \in 1..n : r[i] = g[(n - i) + 1] /\ (n - i) + 1 \in 1..n
    BY <1>1
  <1>3. r \in Seq(S)
    BY <1>1, <1>2
  <1>4. \A i \in 1..n : g[i] = r[(n - i) + 1]
    BY <1>1, <1>2
  <1>5. \A i \in 1..n : (n - i) + 1 \in 1..n
    BY <1>1
  <1> HIDE DEF n, r
  <1>6. ToSet(r) \subseteq ToSet(g)
    BY <1>1, <1>2 DEF ToSet
  <1>7. ToSet(g) \subseteq ToSet(r)
    BY <1>1, <1>2, <1>4, <1>5 DEF ToSet
  <1> QED
    BY <1>3, <1>6, <1>7 DEF r

LEMMA Joined ==
  ASSUME NEW S, NEW g \in Seq(S), NEW h \in Seq(S)
  PROVE  g \o h \in Seq(S) /\ ToSet(g \o h) = ToSet(g) \cup ToSet(h)
  <1> DEFINE m == Len(g)
             n == Len(h)
             j == g \o h
  <1>1. /\ m \in Nat /\ n \in Nat /\ DOMAIN g = 1..m /\ DOMAIN h = 1..n /\ DOMAIN j = 1..(m + n)
        /\ \A i \in 1..m : j[i] = g[i]
        /\ \A i \in 1..n : j[m + i] = h[i]
    OBVIOUS
  <1>2. j \in Seq(S)
    OBVIOUS
  <1> HIDE DEF m, n, j
  <1>3. \A i \in 1..(m + n) : i \in 1..m \/ (i - m \in 1..n /\ i = m + (i - m))
    BY <1>1
  <1>4. \A i \in 1..n : m + i \in 1..(m + n)
    BY <1>1
  <1>5. \A i \in 1..m : i \in 1..(m + n)
    BY <1>1
  <1>6. ToSet(j) \subseteq ToSet(g) \cup ToSet(h)
    <2> SUFFICES ASSUME NEW x \in ToSet(j) PROVE x \in ToSet(g) \cup ToSet(h)
      OBVIOUS
    <2>1. PICK i \in 1..(m + n) : x = j[i]
      BY <1>1 DEF ToSet
    <2>2. CASE i \in 1..m
      BY <1>1, <2>1, <2>2 DEF ToSet
    <2>3. CASE i - m \in 1..n /\ i = m + (i - m)
      <3> DEFINE k == i - m
      <3>1. k \in 1..n /\ x = j[m + k]
        BY <2>1, <2>3
      <3> HIDE DEF k
      <3>2. x = h[k]
        BY <1>1, <3>1
      <3> QED
        BY <1>1, <3>1, <3>2 DEF ToSet
    <2> QED
      BY <1>3, <2>2, <2>3
  <1>7. ToSet(g) \subseteq ToSet(j)
    BY <1>1, <1>5 DEF ToSet
  <1>8. ToSet(h) \subseteq ToSet(j)
    BY <1>1, <1>4 DEF ToSet
  <1> QED
    BY <1>2, <1>6, <1>7, <1>8 DEF j

\* A sync line adds its ranges to the limits.
LEMMA SyncKept ==
  ASSUME FileInv, LimitsInv, pc = "parse", NEW l \in lines, l.kind = "sync",
         file' = Append(file, l), pc' = pc,
         limits' = [limits EXCEPT ![l.which] =
                      Reverse([k \in DOMAIN l.ranges |-> add_sync(l.which, l.ranges[k])]) \o @]
  PROVE  LimitsInv'
  <1> DEFINE w == l.which
             g == [k \in DOMAIN l.ranges |-> add_sync(w, l.ranges[k])]
  <1>1. w \in {"h", "v"} /\ l.ranges \in Seq(Nat \X Nat)
    BY LinesAreTyped
  <1>2. g \in Seq(Int \X Int) /\ ToSet(g) = {add_sync(w, r) : r \in ToSet(l.ranges)}
    <2>1. Len(l.ranges) \in Nat /\ DOMAIN l.ranges = 1..Len(l.ranges)
      BY <1>1
    <2>2. \A k \in DOMAIN l.ranges : l.ranges[k] \in Nat \X Nat
      BY <1>1
    <2>3. \A k \in DOMAIN l.ranges : add_sync(w, l.ranges[k]) \in Int \X Int
      BY <1>1, <2>2, SyncIsTyped
    <2>4. g \in Seq(Int \X Int)
      BY <2>1, <2>3
    <2>5. ToSet(g) = {add_sync(w, r) : r \in ToSet(l.ranges)}
      BY DEF ToSet
    <2> QED
      BY <2>4, <2>5
  <1> HIDE DEF g
  <1>3. /\ limits[w] \in Seq(Int \X Int) /\ DOMAIN limits = {"h", "v"}
        /\ ToSet(limits[w]) = {add_sync(w, r) : r \in Ranges(w)}
    BY <1>1 DEF LimitsInv
  <1>4. limits' = [limits EXCEPT ![w] = Reverse(g) \o limits[w]]
    BY DEF g
  <1>5. /\ Reverse(g) \o limits[w] \in Seq(Int \X Int)
        /\ ToSet(Reverse(g) \o limits[w]) = ToSet(g) \cup ToSet(limits[w])
    <2>1. Reverse(g) \in Seq(Int \X Int) /\ ToSet(Reverse(g)) = ToSet(g)
      BY <1>2, Reversed
    <2> QED
      BY <1>3, <2>1, Joined
  <1>6. Ranges(w)' = Ranges(w) \cup ToSet(l.ranges)
    BY RangesGrow DEF FileInv
  <1>7. ToSet(Reverse(g) \o limits[w]) = {add_sync(w, r) : r \in Ranges(w)'}
    BY <1>2, <1>3, <1>5, <1>6
  <1>8. ASSUME NEW x \in {"h", "v"}
        PROVE  limits'[x] \in Seq(Int \X Int) /\ ToSet(limits'[x]) = {add_sync(x, r) : r \in Ranges(x)'}
    <2>1. CASE x = w
      <3>1. limits'[x] = Reverse(g) \o limits[w]
        BY <1>1, <1>3, <1>4, <2>1
      <3> QED
        BY <1>5, <1>7, <2>1, <3>1
    <2>2. CASE x # w
      <3>1. limits'[x] = limits[x]
        BY <1>1, <1>3, <1>4, <2>2
      <3>2. Ranges(x)' = Ranges(x)
        BY <2>2, RangesGrow DEF FileInv
      <3> QED
        BY <3>1, <3>2 DEF LimitsInv
    <2> QED
      BY <2>1, <2>2
  <1>9. DOMAIN limits' = {"h", "v"} /\ pc' = "parse"
    BY <1>3, <1>4
  <1> QED
    BY <1>8, <1>9 DEF LimitsInv

\* The other lines leave them alone.
LEMMA NoSyncKept ==
  ASSUME FileInv, LimitsInv, pc = "parse", NEW l \in lines, l.kind # "sync",
         file' = Append(file, l), pc' = pc, limits' = limits
  PROVE  LimitsInv'
  <1>1. \A x : Ranges(x)' = Ranges(x)
    <2> TAKE x
    <2> QED
      BY RangesGrow DEF FileInv
  <1> QED
    BY <1>1 DEF LimitsInv

\* The limit follows the DacSpeed lines, and the chipset without one.
LEMMA MaxKept ==
  ASSUME FileInv, MaxInv, LinesOf("chipset") = {} => set.chipset = None, NEW l \in lines,
         file' = Append(file, l),
         set'.chipset = IF l.kind = "chipset" THEN l.value ELSE set.chipset,
         maxclock' = CASE l.kind = "dacspeed" -> l.value
                       [] l.kind = "chipset" /\ maxclock = DEFAULT_MAXCLOCK -> DefaultDac[l.value]
                       [] OTHER -> maxclock
  PROVE  MaxInv'
  <1> DEFINE n == Len(file) + 1
             A == LinesOf("dacspeed")
             B == LinesOf("dacspeed")'
             s == DacSays
             t == DacSays'
  <1> SUFFICES ASSUME OneLimit' PROVE LastSays(B, t, Unless', maxclock')
    BY DEF MaxInv, LastSays
  <1>1. /\ DOMAIN file \subseteq Nat /\ n \in Nat
        /\ file'[n] = l
        /\ \A i \in DOMAIN file : i < n /\ file'[i] = file[i]
    BY Grow DEF FileInv
  <1>2. B = IF l.kind = "dacspeed" THEN A \cup {n} ELSE A
    BY OfKind DEF FileInv
  <1>3. LinesOf("chipset")' = IF l.kind = "chipset" THEN LinesOf("chipset") \cup {n} ELSE LinesOf("chipset")
    BY OfKind DEF FileInv
  <1>4. /\ A \in SUBSET Nat
        /\ \A i \in A : i < n /\ i \in B /\ file'[i] = file[i] /\ t[i] = s[i] /\ s[i] = file[i].value
    BY <1>1, <1>2 DEF LinesOf, DacSays
  <1>5. OneLimit
    <2>1. ASSUME NEW i \in LinesOf("chipset"), NEW j \in LinesOf("chipset") PROVE i = j
      BY <1>3, <2>1 DEF OneLimit
    <2>2. ASSUME NEW i \in A PROVE file[i].value # DEFAULT_MAXCLOCK
      BY <1>4, <2>2 DEF OneLimit
    <2> QED
      BY <2>1, <2>2 DEF OneLimit
  <1>6. LastSays(A, s, Unless, maxclock)
    BY <1>5 DEF MaxInv
  <1>7. CASE l.kind = "dacspeed"
    <2>1. n \in B /\ t[n] = maxclock'
      BY <1>1, <1>2, <1>7 DEF DacSays
    <2>2. \A j \in B : j <= n
      BY <1>1, <1>2, <1>4, <1>7
    <2> HIDE DEF A, B, s, t, n
    <2> QED
      BY <2>1, <2>2 DEF LastSays
  <1>8. CASE l.kind = "chipset"
    <2>1. B = A
      BY <1>2, <1>8
    <2>2. LinesOf("chipset") = {}
      <3> SUFFICES ASSUME NEW i \in LinesOf("chipset") PROVE FALSE
        OBVIOUS
      <3>1. i \in LinesOf("chipset")' /\ n \in LinesOf("chipset")' /\ i # n
        BY <1>1, <1>3, <1>8 DEF LinesOf
      <3> QED
        BY <3>1 DEF OneLimit
    <2>3. Unless = DEFAULT_MAXCLOCK
      BY <2>2 DEF Unless
    <2>4. Unless' = DefaultDac[l.value]
      <3>1. l.value \in Chipsets
        BY <1>8, LinesAreTyped
      <3> QED
        BY <1>8, <3>1, ConfigAssumption DEF Unless
    <2>5. CASE A = {}
      <3>1. maxclock = DEFAULT_MAXCLOCK
        BY <1>6, <2>3, <2>5 DEF LastSays
      <3>2. maxclock' = Unless'
        BY <1>8, <2>4, <3>1
      <3> QED
        BY <2>1, <2>5, <3>2 DEF LastSays
    <2>6. CASE A # {}
      <3>1. PICK i \in A : maxclock = s[i] /\ \A j \in A : j <= i
        BY <1>6, <2>6 DEF LastSays
      <3>2. maxclock # DEFAULT_MAXCLOCK
        BY <1>4, <1>5, <3>1 DEF OneLimit
      <3>3. maxclock' = maxclock
        BY <1>8, <3>2
      <3> HIDE DEF A, B, s, t
      <3> QED
        BY <1>4, <2>1, <3>1, <3>3 DEF LastSays
    <2> QED
      BY <2>5, <2>6
  <1>9. CASE l.kind # "dacspeed" /\ l.kind # "chipset"
    <2>1. B = A /\ maxclock' = maxclock /\ Unless' = Unless
      BY <1>2, <1>9 DEF Unless
    <2> HIDE DEF A, B, s, t
    <2> QED
      BY <1>4, <1>6, <2>1 DEF LastSays
  <1> QED
    BY <1>7, <1>8, <1>9

\* At the end of the file, the last lines give what the rest of the run needs.
LEMMA SetFromLast ==
  ASSUME FileInv, Shape, AllLast
  PROVE  SetInv
  <1>1. ValuesAreLast /\ CursorIsLast /\ ModesAreLast
    BY DEF AllLast
  <1>2. \A i \in DOMAIN file : file[i] \in lines
    BY DEF FileInv
  <1>3. set.chipset \in Chipsets \cup {None}
    <2> DEFINE A == LinesOf("chipset")
               says == [i \in A |-> Given(file[i])]
    <2>1. LastSays(A, says, None, set["chipset"])
      BY <1>1 DEF ValuesAreLast, Single, Initially
    <2>2. ASSUME NEW i \in A PROVE says[i] \in Chipsets
      <3>1. file[i].kind = "chipset" /\ file[i] \in lines
        BY <1>2 DEF LinesOf
      <3> QED
        BY <3>1, LinesAreTyped DEF Given, Programs
    <2> QED
      BY <2>1, <2>2 DEF LastSays
  <1>4. LastSays(LinesOf("default"), [i \in LinesOf("default") |-> file[i].value], None, set.default)
    <2> DEFINE A == LinesOf("default")
               s == [i \in A |-> Given(file[i])]
               t == [i \in A |-> file[i].value]
    <2>1. LastSays(A, s, None, set["default"])
      BY <1>1 DEF ValuesAreLast, Single, Initially
    <2>2. \A i \in A : s[i] = t[i]
      BY DEF LinesOf, Given, Programs
    <2> HIDE DEF A, s, t
    <2>3. LastSays(A, t, None, set["default"])
      BY <2>1, <2>2 DEF LastSays
    <2> QED
      BY <2>3 DEF A, t
  <1>5. cursor[1] \in Nat /\ cursor[2] \in Nat /\ cursor[1] <= cursor[2]
    <2> DEFINE A == CursorLines
               s == [i \in A |-> Ordered(Last(file[i].ranges))]
    <2>1. LastSays(A, s, <<29, 31>>, cursor)
      BY <1>1 DEF CursorIsLast
    <2>2. CASE cursor = <<29, 31>>
      BY <2>2
    <2>3. ASSUME NEW i \in A, cursor = s[i]
          PROVE  cursor[1] \in Nat /\ cursor[2] \in Nat /\ cursor[1] <= cursor[2]
      <3>1. file[i].kind = "cursor" /\ file[i] \in lines /\ file[i].ranges # <<>>
        BY <1>2 DEF CursorLines, LinesOf
      <3>2. file[i].ranges \in Seq(Nat \X Nat)
        BY <3>1, LinesAreTyped
      <3>3. Last(file[i].ranges) \in Nat \X Nat
        BY <3>1, <3>2 DEF Last
      <3>4. cursor = Ordered(Last(file[i].ranges))
        BY <2>3
      <3> DEFINE r == Last(file[i].ranges)
      <3> HIDE DEF r
      <3>5. r[1] \in Nat /\ r[2] \in Nat
        BY <3>3 DEF r
      <3> QED
        BY <3>4, <3>5, <3>3 DEF Ordered, r
    <2> QED
      BY <2>1, <2>2, <2>3 DEF LastSays
  <1>6. modes \in Seq(Made)
    BY DEF Shape
  <1> QED
    BY <1>1, <1>3, <1>4, <1>5, <1>6 DEF SetInv

\* What a line does to the limits, whatever its kind.
AddsLimits(l) ==
  /\ pc = "parse" /\ pc' = pc /\ lines' = lines
  /\ LineOk(l) /\ file' = Append(file, l)
  /\ set'.chipset = IF l.kind = "chipset" THEN l.value ELSE set.chipset
  /\ maxclock' = CASE l.kind = "dacspeed" -> l.value
                   [] l.kind = "chipset" /\ maxclock = DEFAULT_MAXCLOCK -> DefaultDac[l.value]
                   [] OTHER -> maxclock
  /\ limits' = IF l.kind # "sync" THEN limits
               ELSE [limits EXCEPT ![l.which] =
                       Reverse([k \in DOMAIN l.ranges |-> add_sync(l.which, l.ranges[k])]) \o @]

\* Every line does that.
LEMMA ReadAddsLimits ==
  ASSUME DOMAIN set = Single, Read
  PROVE  \E l \in lines : AddsLimits(l)
  <1>1. CASE ChipSet
    BY <1>1 DEF ChipSet, Reads, AddsLimits, Single, Initially
  <1>2. CASE DacSpeed
    BY <1>2 DEF DacSpeed, Reads, AddsLimits
  <1>3. CASE Value
    BY <1>3 DEF Value, Reads, AddsLimits, Single, Initially, Programs
  <1>4. CASE Path
    BY <1>4 DEF Path, Reads, AddsLimits, Single, Initially, Programs
  <1>5. CASE Option
    BY <1>5 DEF Option, Reads, AddsLimits
  <1>6. CASE Clocks
    BY <1>6 DEF Clocks, Reads, AddsLimits
  <1>7. CASE Cursor
    BY <1>7 DEF Cursor, Reads, AddsLimits
  <1>8. CASE FontSelect
    BY <1>8 DEF FontSelect, Reads, AddsLimits
  <1>9. CASE Terminals
    BY <1>9 DEF Terminals, Reads, AddsLimits
  <1>10. CASE Sync
    BY <1>10 DEF Sync, Reads, AddsLimits
  <1>11. CASE ModeLine
    BY <1>11 DEF ModeLine, Reads, AddsLimits
  <1> QED
    BY <1>1, <1>2, <1>3, <1>4, <1>5, <1>6, <1>7, <1>8, <1>9, <1>10, <1>11 DEF Read

LEMMA WrittenInit == Init => WrittenInv
  <1> SUFFICES ASSUME Init PROVE WrittenInv
    OBVIOUS
  <1>1. file = <<>> /\ pc = "parse" /\ set = Initially /\ \A k : LinesOf(k) = {}
    BY DEF Init, LinesOf
  <1>2. FileInv
    BY <1>1 DEF Init, FileInv, Single
  <1>3. LimitsInv
    <2>1. \A w : Ranges(w) = {}
      BY <1>1 DEF Ranges, ToSet
    <2>2. /\ DOMAIN limits = {"h", "v"} /\ \A w \in {"h", "v"} : limits[w] = <<>>
      BY DEF Init
    <2>3. ToSet(<<>>) = {}
      BY DEF ToSet
    <2>4. <<>> \in Seq(Int \X Int)
      OBVIOUS
    <2>5. ASSUME NEW w \in {"h", "v"}
          PROVE  limits[w] \in Seq(Int \X Int) /\ ToSet(limits[w]) = {add_sync(w, r) : r \in Ranges(w)}
      BY <2>1, <2>2, <2>3, <2>4
    <2> QED
      BY <1>1, <2>2, <2>5 DEF LimitsInv
  <1>4. MaxInv
    BY <1>1, ConfigAssumption DEF Init, MaxInv, LastSays, Unless, Initially
  <1> QED
    BY <1>1, <1>2, <1>3, <1>4 DEF WrittenInv
-----------------------------------------------------------------------------
(* Its steps.                                                              *)

LEMMA ReadWritten ==
  ASSUME LastInv, WrittenInv, Read
  PROVE  WrittenInv'
  <1>1. PICK l \in lines : AddsLimits(l)
    BY ReadAddsLimits DEF WrittenInv, FileInv
  <1>2. LastInv' /\ pc = "parse" /\ pc' = "parse" /\ lines' = lines
    BY <1>1, LastStep DEF Next, AddsLimits
  <1>3. FileInv'
    <2>1. file' \in Seq(lines') /\ DOMAIN set' = Single
      BY <1>2 DEF LastInv, Shape
    <2>2. DOMAIN file' = DOMAIN file \cup {Len(file) + 1} /\ file'[Len(file) + 1] = l
          /\ \A i \in DOMAIN file : file'[i] = file[i]
      BY <1>1, Grow DEF AddsLimits, WrittenInv, FileInv
    <2>3. \A i \in DOMAIN file' : LineOk(file'[i])
      BY <1>1, <2>2 DEF AddsLimits, WrittenInv, FileInv
    <2> QED
      BY <1>2, <2>1, <2>3 DEF WrittenInv, FileInv
  <1>4. LimitsInv'
    <2>1. CASE l.kind = "sync"
      BY <1>1, <2>1, SyncKept DEF AddsLimits, WrittenInv
    <2>2. CASE l.kind # "sync"
      BY <1>1, <2>2, NoSyncKept DEF AddsLimits, WrittenInv
    <2> QED
      BY <2>1, <2>2
  <1>5. MaxInv'
    <2>1. LinesOf("chipset") = {} => set.chipset = None
      <3>1. LastSays(LinesOf("chipset"), [i \in LinesOf("chipset") |-> Given(file[i])], None, set["chipset"])
        BY <1>2 DEF LastInv, AllLast, ValuesAreLast, Single, Initially
      <3> QED
        BY <3>1 DEF LastSays
    <2>2. FileInv /\ MaxInv
      BY DEF WrittenInv
    <2>3. /\ file' = Append(file, l)
          /\ set'.chipset = IF l.kind = "chipset" THEN l.value ELSE set.chipset
          /\ maxclock' = CASE l.kind = "dacspeed" -> l.value
                           [] l.kind = "chipset" /\ maxclock = DEFAULT_MAXCLOCK -> DefaultDac[l.value]
                           [] OTHER -> maxclock
      BY <1>1, Zenon DEF AddsLimits
    <2> QED
      BY <2>1, <2>2, <2>3, MaxKept, Zenon
  <1> QED
    BY <1>2, <1>3, <1>4, <1>5 DEF WrittenInv

\* What the program does after it has read the file leaves the lines, the modes
\* and most settings alone.
Settled ==
  /\ lines' = lines /\ file' = file /\ modes' = modes /\ maxclock' = maxclock
  /\ DOMAIN set' = DOMAIN set /\ set'.chipset = set.chipset /\ set'.default = set.default

LEMMA SettledKeeps ==
  ASSUME Settled
  PROVE  /\ FileInv' = FileInv /\ MaxInv' = MaxInv /\ ModesAreLast' = ModesAreLast
         /\ \A k : LinesOf(k)' = LinesOf(k)
         /\ \A n : ModeLines(n)' = ModeLines(n)
         /\ \A w : Ranges(w)' = Ranges(w)
         /\ Made' = Made
         /\ cursor' = cursor => SetInv' = SetInv
         /\ request' = request /\ mode' = mode => ModeInv' = ModeInv
  <1>1. \A k : LinesOf(k)' = LinesOf(k)
    BY DEF Settled, LinesOf
  <1>2. \A n : ModeLines(n)' = ModeLines(n)
    BY <1>1 DEF Settled, ModeLines
  <1>3. \A w : Ranges(w)' = Ranges(w)
    BY DEF Settled, Ranges, ToSet
  <1>4. FileInv' = FileInv
    BY DEF Settled, FileInv
  <1>5. OneLimit' = OneLimit /\ DacSays' = DacSays /\ Unless' = Unless
    BY <1>1 DEF Settled, OneLimit, DacSays, Unless
  <1>6. MaxInv' = MaxInv
    <2>1. MaxInv' <=> (OneLimit' => LastSays(LinesOf("dacspeed")', DacSays', Unless', maxclock'))
      BY DEF MaxInv, LastSays
    <2> QED
      BY <1>1, <1>5, <2>1 DEF Settled, MaxInv
  <1>7. ModesAreLast' = ModesAreLast
    BY <1>1, <1>2 DEF Settled, ModesAreLast, ModeLines
  <1>8. Made' = Made
    BY DEF Settled, Made
  <1>9. ASSUME cursor' = cursor PROVE SetInv' = SetInv
    BY <1>1, <1>7, <1>8, <1>9 DEF Settled, SetInv, LastSays
  <1>10. ASSUME request' = request, mode' = mode PROVE ModeInv' = ModeInv
    BY <1>1, <1>2, <1>10 DEF Settled, ModeInv, Asked, LastSays, ModeLines
  <1> QED
    BY <1>1, <1>2, <1>3, <1>4, <1>6, <1>7, <1>8, <1>9, <1>10

LEMMA EndOfFileWritten ==
  ASSUME LastInv, WrittenInv, EndOfFile
  PROVE  WrittenInv'
  <1>1. pc = "parse" /\ pc' = "check" /\ Settled /\ limits' = limits /\ cursor' = cursor
    BY DEF EndOfFile, Settled, parsed
  <1>2. SetInv
    BY <1>1, SetFromLast DEF LastInv, WrittenInv
  <1>3. FileInv' /\ MaxInv' /\ SetInv'
    BY <1>1, <1>2, SettledKeeps DEF WrittenInv
  <1>4. LimitsInv'
    <2>1. \A w : Ranges(w)' = Ranges(w)
      BY <1>1, SettledKeeps
    <2> QED
      BY <1>1, <2>1 DEF WrittenInv, LimitsInv
  <1> QED
    BY <1>1, <1>3, <1>4 DEF WrittenInv

\* The default range stands alone or not at all.
LEMMA DefaultsWritten ==
  ASSUME NEW w \in {"h", "v"}, NEW list \in Seq(Int \X Int)
  PROVE  /\ OrDefault(list, DefaultRange[w]) \in Seq(Int \X Int)
         /\ ToSet(OrDefault(list, DefaultRange[w])) = IF ToSet(list) = {} THEN {DefaultRange[w]} ELSE ToSet(list)
  <1>1. DefaultRange[w] \in Int \X Int
    BY DEF DefaultRange
  <1> DEFINE d == DefaultRange[w]
  <1> HIDE DEF d
  <1>2. d \in Int \X Int
    BY <1>1 DEF d
  <1>3. CASE list = <<>>
    <2>1. ToSet(list) = {}
      BY <1>3 DEF ToSet
    <2>2. <<d>> \in Seq(Int \X Int) /\ ToSet(<<d>>) = {d}
      BY <1>2 DEF ToSet
    <2>3. OrDefault(list, d) = <<d>>
      BY <1>3 DEF OrDefault
    <2> QED
      BY <2>1, <2>2, <2>3 DEF d
  <1>4. CASE list # <<>>
    <2>1. ToSet(list) # {}
      <3>1. 1 \in DOMAIN list
        BY <1>4
      <3> QED
        BY <3>1 DEF ToSet
    <2>2. OrDefault(list, d) = list
      BY <1>4 DEF OrDefault
    <2> QED
      BY <2>1, <2>2 DEF d
  <1> QED
    BY <1>3, <1>4

LEMMA SanitizeWritten ==
  ASSUME WrittenInv, Sanitize
  PROVE  WrittenInv'
  <1>1. pc = "check" /\ SetInv /\ DOMAIN set = Single
    BY DEF Sanitize, WrittenInv, FileInv
  <1>2. CASE MakesSense
    <2>1. /\ pc' = "choose" /\ Settled /\ cursor' = cursor
          /\ limits' = [h |-> OrDefault(limits.h, <<30000, 32000>>), v |-> OrDefault(limits.v, <<45000, 80000>>)]
      BY <1>1, <1>2 DEF Sanitize, Settled, Single, Initially
    <2>2. FileInv' /\ MaxInv' /\ SetInv'
      BY <1>1, <2>1, SettledKeeps DEF WrittenInv
    <2>3. set'.chipset # None
      BY <1>2, <2>1 DEF MakesSense, Settled
    <2>4. LimitsInv'
      <3>1. \A w : Ranges(w)' = Ranges(w)
        BY <2>1, SettledKeeps
      <3>2. ASSUME NEW w \in {"h", "v"}
            PROVE  /\ limits'[w] \in Seq(Int \X Int)
                   /\ ToSet(limits'[w]) = IF Ranges(w) = {} THEN {DefaultRange[w]}
                                          ELSE {add_sync(w, r) : r \in Ranges(w)}
        <4>1. limits'[w] = OrDefault(limits[w], DefaultRange[w])
          BY <2>1 DEF DefaultRange
        <4>2. limits[w] \in Seq(Int \X Int) /\ ToSet(limits[w]) = {add_sync(w, r) : r \in Ranges(w)}
          BY <1>1 DEF WrittenInv, LimitsInv
        <4>3. Ranges(w) = {} <=> ToSet(limits[w]) = {}
          BY <4>2
        <4>4. /\ limits'[w] \in Seq(Int \X Int)
              /\ ToSet(limits'[w]) = IF ToSet(limits[w]) = {} THEN {DefaultRange[w]} ELSE ToSet(limits[w])
          BY <4>1, <4>2, DefaultsWritten, ZenonT(60)
        <4> QED
          BY <4>2, <4>3, <4>4
      <3>3. DOMAIN limits' = {"h", "v"}
        BY <2>1
      <3>4. pc' = "choose"
        BY <2>1
      <3> QED
        BY <3>1, <3>2, <3>3, <3>4 DEF LimitsInv
    <2> QED
      BY <2>1, <2>2, <2>3, <2>4 DEF WrittenInv
  <1>3. CASE ~MakesSense
    <2>1. pc' = "refused" /\ Settled /\ limits' = limits
      BY <1>3 DEF Sanitize, Settled
    <2>2. LimitsInv'
      BY <2>1 DEF WrittenInv, LimitsInv
    <2> QED
      BY <2>1, <2>2, SettledKeeps DEF WrittenInv
  <1> QED
    BY <1>2, <1>3

LEMMA FindModeWritten ==
  ASSUME WrittenInv, FindMode
  PROVE  WrittenInv'
  <1>1. pc = "choose" /\ SetInv /\ set.chipset # None /\ DOMAIN set = Single
    BY DEF FindMode, WrittenInv, FileInv
  <1>2. Settled /\ limits' = limits /\ request' = request
    BY <1>1 DEF FindMode, Settled, Single, Initially
  <1>3. FileInv' /\ MaxInv' /\ \A w : Ranges(w)' = Ranges(w)
    BY <1>2, SettledKeeps DEF WrittenInv
  <1>4. pc' \in {"refused", "validate"}
    BY DEF FindMode
  <1>5. LimitsInv'
    BY <1>1, <1>2, <1>3, <1>4 DEF WrittenInv, LimitsInv
  <1>6. CASE Label = None \/ Named(Label) = {}
    <2>1. pc' = "refused"
      BY <1>6 DEF FindMode
    <2> QED
      BY <1>3, <1>5, <2>1 DEF WrittenInv
  <1>7. CASE ~(Label = None \/ Named(Label) = {})
    <2>1. PICK k \in Named(Label) :
            /\ \A j \in Named(Label) : k <= j
            /\ mode' = modes[k] /\ pc' = "validate"
            /\ cursor' = [i \in 1..2 |-> (cursor[i] * modes[k].font[2]) \div 32]
      BY <1>7 DEF FindMode
    <2>2. k \in DOMAIN modes /\ modes[k].name = Label
      BY DEF Named
    <2>3. \A j \in DOMAIN modes : j < k => modes[j].name # Label
      <3> SUFFICES ASSUME NEW j \in DOMAIN modes, j < k, modes[j].name = Label PROVE FALSE
        OBVIOUS
      <3>1. j \in Named(Label)
        BY DEF Named
      <3>2. j \in Int /\ k \in Int
        BY <1>1, <2>2 DEF SetInv
      <3> QED
        BY <2>1, <3>1, <3>2
    <2>4. PICK i \in ModeLines(Label) :
            modes[k] = complete_modestruct(file[i]) /\ \A j \in ModeLines(Label) : j <= i
      BY <1>1, <2>2, <2>3 DEF SetInv, ModesAreLast
    <2>5. i \in LinesOf("mode") /\ file[i].name = Label /\ file[i].kind = "mode" /\ i \in DOMAIN file
      BY DEF ModeLines, LinesOf
    <2>6. Asked(Label)
      <3>1. CASE request.label # None
        BY <3>1 DEF Asked, Label
      <3>2. CASE request.label = None
        <4>1. Label = set.default
          BY <3>2 DEF Label
        <4> QED
          BY <1>1, <3>2, <4>1 DEF Asked, SetInv
      <3> QED
        BY <3>1, <3>2
    <2>7. ModeInv'
      <3>1. request' = request /\ file' = file /\ set'.default = set.default
            /\ LinesOf("default")' = LinesOf("default") /\ LinesOf("mode")' = LinesOf("mode")
        BY <1>2, SettledKeeps DEF Settled
      <3>2. ModeLines(file[i].name)' = ModeLines(Label)
        BY <2>5, <3>1 DEF ModeLines
      <3>3. Asked(file[i].name)'
        BY <2>5, <2>6, <3>1 DEF Asked, LastSays
      <3>4. /\ i \in LinesOf("mode")' /\ mode' = complete_modestruct(file'[i])
            /\ \A j \in ModeLines(file[i].name)' : j <= i
        BY <2>1, <2>4, <2>5, <3>1, <3>2
      <3> QED
        BY <3>1, <3>3, <3>4 DEF ModeInv
    <2>8. modes[k].font[2] \in Nat
      <3>1. LineOk(file[i]) /\ file[i] \in lines
        BY <2>5 DEF WrittenInv, FileInv
      <3>2. file[i].clock \in Nat /\ file[i].attributes \in Seq(ToSet(file[i].attributes))
        BY <2>5, <3>1, LinesAreTyped DEF WrittenInv
      <3>3. modes[k].font \in FontSizes
        BY <2>4, <2>5, <3>1, <3>2, RatesAreTheLines
      <3> QED
        BY <3>3 DEF FontSizes
    <2>9. SetInv'
      <3> DEFINE h == modes[k].font[2]
                 a == cursor[1]
                 b == cursor[2]
      <3>1. a \in Nat /\ b \in Nat /\ a <= b
        BY <1>1 DEF SetInv
      <3>2. cursor'[1] = (a * h) \div 32 /\ cursor'[2] = (b * h) \div 32
        BY <2>1
      <3>3. h \in Nat
        BY <2>8
      <3> HIDE DEF h, a, b
      <3>4. a * h \in Nat /\ b * h \in Nat
        BY <3>1, <3>3
      <3>5. cursor'[1] \in Nat /\ cursor'[2] \in Nat
        BY <3>2, <3>4
      <3>6. cursor'[1] <= cursor'[2]
        BY <3>1, <3>2, <3>3, ScaledInOrder
      <3>7. ModesAreLast' /\ Made' = Made /\ LinesOf("default")' = LinesOf("default")
        BY <1>1, <1>2, SettledKeeps DEF SetInv
      <3>8. LastSays(LinesOf("default")', [j \in LinesOf("default")' |-> file'[j].value], None, set'.default)
        BY <1>1, <1>2, <3>7 DEF SetInv, Settled
      <3> QED
        BY <1>1, <1>2, <3>5, <3>6, <3>7, <3>8 DEF SetInv, Settled, LastSays
    <2> QED
      BY <1>1, <1>2, <1>3, <1>5, <2>1, <2>7, <2>9 DEF WrittenInv, Settled
  <1> QED
    BY <1>6, <1>7

LEMMA WrittenStep == LastInv /\ WrittenInv /\ [Next]_vars => WrittenInv'
  <1> SUFFICES ASSUME LastInv, WrittenInv, [Next]_vars PROVE WrittenInv'
    OBVIOUS
  <1>1. CASE Read
    BY <1>1, ReadWritten
  <1>2. CASE Refused
    <2>1. pc' = "refused" /\ Settled /\ limits' = limits
      BY <1>2 DEF Refused, Settled, parsed
    <2>2. LimitsInv'
      BY <2>1 DEF WrittenInv, LimitsInv
    <2> QED
      BY <2>1, <2>2, SettledKeeps DEF WrittenInv
  <1>3. CASE EndOfFile
    BY <1>3, EndOfFileWritten
  <1>4. CASE Sanitize
    BY <1>4, SanitizeWritten
  <1>5. CASE ScanModes
    <2>1. pc = "choose" /\ pc' = "listed" /\ Settled /\ limits' = limits
      BY <1>5 DEF ScanModes, Settled, parsed
    <2>2. \A w : Ranges(w)' = Ranges(w)
      BY <2>1, SettledKeeps
    <2>3. LimitsInv'
      BY <2>1, <2>2 DEF WrittenInv, LimitsInv
    <2> QED
      BY <2>1, <2>3, SettledKeeps DEF WrittenInv
  <1>6. CASE FindMode
    BY <1>6, FindModeWritten
  <1>7. CASE Validate
    <2>1. /\ pc = "validate" /\ pc' \in {"refused", "go"} /\ Settled /\ limits' = limits
          /\ cursor' = cursor /\ request' = request /\ mode' = mode
      BY <1>7 DEF Validate, Settled, parsed, chosen
    <2>2. \A w : Ranges(w)' = Ranges(w)
      BY <2>1, SettledKeeps
    <2>3. LimitsInv'
      BY <2>1, <2>2 DEF WrittenInv, LimitsInv
    <2>4. FileInv' /\ MaxInv' /\ SetInv' /\ ModeInv' /\ set'.chipset # None
      BY <2>1, SettledKeeps DEF WrittenInv, Settled
    <2>5. ASSUME pc' = "go", request'.validate PROVE \E makes \in BOOLEAN : validate_mode(mode, makes)'
      <3>1. PICK makes \in BOOLEAN : validate_mode(mode, makes)
        BY <1>7, <2>1, <2>5 DEF Validate
      <3>2. validate_mode(mode, makes)'
        BY <2>1, <3>1 DEF validate_mode, Settled, CheckRange
      <3> QED
        BY <3>2
    <2> QED
      BY <2>1, <2>3, <2>4, <2>5 DEF WrittenInv
  <1>8. CASE UNCHANGED vars
    <2>1. /\ pc' = pc /\ Settled /\ limits' = limits
          /\ cursor' = cursor /\ request' = request /\ mode' = mode
      BY <1>8 DEF vars, parsed, chosen, Settled
    <2>2. \A w : Ranges(w)' = Ranges(w)
      BY <2>1, SettledKeeps
    <2>3. LimitsInv'
      BY <2>1, <2>2 DEF WrittenInv, LimitsInv
    <2>4. ASSUME pc' = "go", request'.validate PROVE \E makes \in BOOLEAN : validate_mode(mode, makes)'
      <3>1. PICK makes \in BOOLEAN : validate_mode(mode, makes)
        BY <2>1, <2>4 DEF WrittenInv
      <3>2. validate_mode(mode, makes)'
        BY <2>1, <3>1 DEF validate_mode, Settled, CheckRange
      <3> QED
        BY <3>2
    <2> QED
      BY <2>1, <2>3, <2>4, SettledKeeps DEF WrittenInv, Settled
  <1> QED
    BY <1>1, <1>2, <1>3, <1>4, <1>5, <1>6, <1>7, <1>8 DEF Next

\* A rate that passes one of the limits is allowed by a range of the file.
LEMMA RateIsAllowed ==
  ASSUME FileInv, LimitsInv, pc = "go", NEW w \in {"h", "v"}, NEW f \in Int,
         CheckRange(f, limits[w])
  PROVE  Allowed(w, f, DefaultRange[w])
  <1>1. PICK s \in ToSet(limits[w]) : f \in s[1]..s[2]
    <2>1. PICK k \in DOMAIN limits[w] : f \in limits[w][k][1]..limits[w][k][2]
      BY DEF CheckRange
    <2> QED
      BY <2>1 DEF ToSet
  <1>2. ToSet(limits[w]) = IF Ranges(w) = {} THEN {DefaultRange[w]} ELSE {add_sync(w, r) : r \in Ranges(w)}
    BY DEF LimitsInv
  <1>3. CASE Ranges(w) = {}
    <2>1. s = DefaultRange[w]
      BY <1>1, <1>2, <1>3
    <2>2. s[1] \in Int /\ s[2] \in Int
      BY <2>1 DEF DefaultRange
    <2>3. s[1] <= f /\ f <= s[2]
      BY <1>1, <2>2
    <2> QED
      BY <1>3, <2>1, <2>3 DEF Allowed, Allows
  <1>4. CASE Ranges(w) # {}
    <2>1. PICK r \in Ranges(w) : s = add_sync(w, r)
      BY <1>1, <1>2, <1>4
    <2>2. r \in Nat \X Nat
      BY RangesAreTyped
    <2>3. Allows(w, r, f)
      BY <1>1, <2>1, <2>2, SyncIsTyped
    <2> QED
      BY <1>4, <2>3 DEF Allowed
  <1> QED
    BY <1>3, <1>4

\* The invariant says what the property asks.
LEMMA WrittenIsAccepted == WrittenInv => AcceptedAsWritten
  <1> SUFFICES ASSUME WrittenInv, pc = "go" PROVE AcceptedAsWritten
    BY DEF AcceptedAsWritten
  <1>1. FileInv /\ LimitsInv /\ MaxInv /\ SetInv /\ ModeInv /\ set.chipset # None
    BY DEF WrittenInv
  <1>2. PICK i \in LinesOf("mode") : /\ Asked(file[i].name)
                                     /\ \A j \in ModeLines(file[i].name) : j <= i
                                     /\ mode = complete_modestruct(file[i])
    BY <1>1 DEF ModeInv
  <1>3. file[i] \in lines /\ LineOk(file[i]) /\ file[i].kind = "mode"
    BY <1>1, <1>2 DEF FileInv, LinesOf
  <1>4. file[i].clock \in Nat /\ file[i].attributes \in Seq(ToSet(file[i].attributes))
    BY <1>1, <1>3, LinesAreTyped
  <1>5. RatesOf(file[i], mode) /\ mode.font \in FontSizes
    BY <1>2, <1>3, <1>4, RatesAreTheLines
  <1>6. mode.hfreq \in Int /\ mode.vfreq \in Int /\ mode.clock \in Nat
    BY <1>2, <1>3, <1>4, RatesAreTheLines
  <1>7. ASSUME request.validate
        PROVE  /\ Allowed("h", mode.hfreq, <<30000, 32000>>)
               /\ Allowed("v", mode.vfreq, <<45000, 80000>>)
               /\ OneLimit => WithinLimit
    <2>1. /\ mode.clock <= (maxclock * mode.font[1]) \div 8
          /\ CheckRange(mode.hfreq, limits["h"]) /\ CheckRange(mode.vfreq, limits["v"])
      BY <1>7 DEF WrittenInv, validate_mode
    <2>2. Allowed("h", mode.hfreq, DefaultRange["h"]) /\ Allowed("v", mode.vfreq, DefaultRange["v"])
      BY <1>1, <1>6, <2>1, RateIsAllowed
    <2>3. ASSUME OneLimit PROVE WithinLimit
      <3>1. LastSays(LinesOf("dacspeed"), DacSays, DefaultDac[set.chipset], maxclock)
        BY <1>1, <2>3 DEF MaxInv, Unless, SetInv
      <3>2. set.chipset \in Chipsets
        BY <1>1 DEF SetInv
      <3>3. maxclock \in Limits /\ maxclock \in Nat
        <4>1. ASSUME maxclock = DefaultDac[set.chipset]
              PROVE  maxclock \in Limits /\ maxclock \in Nat
          BY <3>2, <4>1, ConfigAssumption DEF Limits
        <4>2. ASSUME NEW k \in LinesOf("dacspeed"), maxclock = DacSays[k]
              PROVE  maxclock \in Limits /\ maxclock \in Nat
          <5>1. file[k] \in lines /\ file[k].kind = "dacspeed" /\ maxclock = file[k].value
            BY <1>1, <4>2 DEF FileInv, LinesOf, DacSays
          <5>2. maxclock \in Nat
            BY <1>1, <5>1, LinesAreTyped
          <5>3. maxclock \in Limits
            BY <5>1, <4>2 DEF Limits
          <5> QED
            BY <5>2, <5>3
        <4>3. maxclock = DefaultDac[set.chipset] \/ \E k \in LinesOf("dacspeed") : maxclock = DacSays[k]
          BY <3>1 DEF LastSays
        <4> QED
          BY <4>1, <4>2, <4>3
      <3>4. mode.clock * 8 <= maxclock * mode.font[1]
        <4> DEFINE w == mode.font[1]
                   c == mode.clock
                   p == maxclock * w
        <4>1. w \in Nat
          BY <1>5 DEF FontSizes
        <4>2. c \in Nat /\ c <= p \div 8
          BY <1>6, <2>1
        <4> HIDE DEF w, c
        <4>3. p \in Nat
          BY <3>3, <4>1
        <4> HIDE DEF p
        <4>4. c * 8 <= p
          BY <4>2, <4>3
        <4> QED
          BY <4>4 DEF c, p, w
      <3> QED
        BY <3>1, <3>3, <3>4 DEF WithinLimit, DacSays
    <2> QED
      BY <2>2, <2>3 DEF DefaultRange
  <1>8. cursor[1] <= cursor[2]
    BY <1>1 DEF SetInv
  <1> QED
    BY <1>2, <1>5, <1>7, <1>8 DEF AcceptedAsWritten

\* Whatever the file and the command line: the mode that is programmed is that
\* of the last line of the name asked for, with the rates of its timings, and
\* if validation is on, within a sync range of the file and the limit on the
\* dot clock (main, validate_mode and sanitize_cfgfile_data).
THEOREM AcceptedModesAreWritten == Spec => []AcceptedAsWritten
  BY LastInit, LastStep, WrittenInit, WrittenStep, WrittenIsAccepted, PTL DEF Spec
=============================================================================

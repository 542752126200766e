---------------------------- MODULE EditorProofs ----------------------------
(***************************************************************************)
(* Proofs about Editor, for any number of rows and columns, any files and  *)
(* any number of keys.                                                     *)
(*                                                                         *)
(* Three of its operators are recursive functions: the rows of a file      *)
(* (RowsAfter), the text above a row (Above), and a file without CR        *)
(* (KeptAfter).  Recursion gives them their values, and UptoInd is the     *)
(* induction over rows and characters, both by sets of numbers.            *)
(***************************************************************************)
EXTENDS Editor, SequenceTheorems, FiniteSetTheorems, WellFoundedInduction, TLAPS

---------------------------------------------------------------------------
(* Induction *)

LessThan == {p \in Nat \X Nat : p[1] < p[2]}

(* A set that holds the first number and each next one up to a bound holds *)
(* all of them.                                                            *)
LEMMA UptoInd ==
  ASSUME NEW lo \in Nat, NEW hi \in Nat, NEW S, lo \in S,
         \A n \in lo .. hi - 1 : n \in S => n + 1 \in S
  PROVE  \A n \in lo .. hi : n \in S
<1>1. SUFFICES ASSUME NEW bad \in lo .. hi, bad \notin S PROVE FALSE
  OBVIOUS
<1> DEFINE D == {n \in lo .. hi : n \notin S}
<1>2. D \subseteq Nat /\ D # {}
  BY <1>1
<1>3. IsWellFoundedOn(LessThan, Nat)
  BY NatLessThanWellFounded DEF OpToRel, LessThan
<1>4. PICK x \in D : \A y \in D : ~ (<<y, x>> \in LessThan)
  BY <1>2, <1>3, WFMin
<1>5. x \in lo .. hi /\ x # lo /\ x - 1 \in lo .. hi - 1
  BY <1>4
<1>6. x - 1 \notin S
  BY <1>4, <1>5
<1>7. x - 1 \in D
  BY <1>5, <1>6
<1>8. <<x - 1, x>> \in LessThan
  BY <1>5 DEF LessThan
<1>9. QED
  BY <1>4, <1>7, <1>8

(* A value for each number from 0 on: base, then what step makes of the    *)
(* one before.                                                             *)
Runs(n, S, base, step) ==
  {f \in [0 .. n -> S] : f[0] = base /\ \A k \in 1 .. n : f[k] = step[k][f[k - 1]]}

LEMMA Recursion ==
  ASSUME NEW hi \in Nat, NEW S, NEW base \in S, NEW step \in [1 .. hi -> [S -> S]]
  PROVE  Runs(hi, S, base, step) # {}
<1> DEFINE Ms == {n \in 0 .. hi : \E f \in [0 .. n -> S] : f \in Runs(n, S, base, step)}
<1>1. 0 \in Ms
  <2>1. [k \in 0 .. 0 |-> base] \in [0 .. 0 -> S]
    OBVIOUS
  <2>2. [k \in 0 .. 0 |-> base] \in Runs(0, S, base, step)
    BY <2>1 DEF Runs
  <2>3. 0 \in 0 .. hi
    OBVIOUS
  <2>4. QED
    BY <2>1, <2>2, <2>3
<1>2. ASSUME NEW n \in 0 .. hi - 1, n \in Ms PROVE n + 1 \in Ms
  <2>1. PICK f \in [0 .. n -> S] : f[0] = base /\ \A k \in 1 .. n : f[k] = step[k][f[k - 1]]
    BY <1>2 DEF Runs
  <2> DEFINE g == [k \in 0 .. n + 1 |-> IF k = n + 1 THEN step[n + 1][f[n]] ELSE f[k]]
  <2>2. n + 1 \in 1 .. hi /\ n \in 0 .. n
    OBVIOUS
  <2>3. step[n + 1][f[n]] \in S
    BY <2>2
  <2>4. g \in [0 .. n + 1 -> S]
    BY <2>3
  <2>5. g[0] = base
    BY <2>1
  <2>6. ASSUME NEW k \in 1 .. n + 1 PROVE g[k] = step[k][g[k - 1]]
    <3>1. CASE k = n + 1
      BY <3>1
    <3>2. CASE k # n + 1
      <4>1. k \in 1 .. n /\ k - 1 \in 0 .. n
        BY <3>2
      <4>2. g[k] = f[k] /\ g[k - 1] = f[k - 1]
        BY <4>1
      <4>3. QED
        BY <2>1, <4>1, <4>2
    <3>3. QED
      BY <3>1, <3>2
  <2>7. g \in Runs(n + 1, S, base, step)
    BY <2>4, <2>5, <2>6 DEF Runs
  <2>8. n + 1 \in 0 .. hi
    OBVIOUS
  <2>9. QED
    BY <2>4, <2>7, <2>8
<1>3. hi \in Ms
  <2> HIDE DEF Ms
  <2>1. \A n \in 0 .. hi : n \in Ms
    BY <1>1, <1>2, UptoInd, ZenonT(30)
  <2>2. hi \in 0 .. hi
    OBVIOUS
  <2>3. QED
    BY <2>1, <2>2
<1>4. QED
  BY <1>3

---------------------------------------------------------------------------
(* The rows of a file *)

RowSet == {r \in Seq(Chars) : Len(r) < MaxCols}
Sheets == {rs \in Seq(RowSet) : rs # <<>>}

(* A row may be empty, and there is a sheet of one such row. *)
LEMMA EmptySheet == <<>> \in RowSet /\ << <<>> >> \in Sheets
<1>1. <<>> \in RowSet
  BY EditorAssumption, EmptySeq DEF RowSet
<1>2. QED
  BY <1>1 DEF Sheets

(* What a sheet is: one row at least, each of them a sequence. *)
LEMMA SheetSound ==
  ASSUME NEW rs \in Sheets
  PROVE  /\ Len(rs) \in Nat \ {0}
         /\ DOMAIN rs = 1 .. Len(rs)
         /\ \A i \in 1 .. Len(rs) : rs[i] \in RowSet /\ rs[i] \in Seq(Chars) /\ rs[i] \in Seq(Bytes)
                                    /\ Len(rs[i]) \in Nat /\ Len(rs[i]) < MaxCols
<1>1. rs \in Seq(RowSet) /\ rs # <<>>
  BY DEF Sheets
<1>2. Len(rs) \in Nat \ {0}
  BY <1>1, EmptySeq
<1>3. DOMAIN rs = 1 .. Len(rs)
  BY <1>1, LenProperties
<1>4. ASSUME NEW i \in 1 .. Len(rs)
      PROVE  /\ rs[i] \in RowSet /\ rs[i] \in Seq(Chars) /\ rs[i] \in Seq(Bytes)
             /\ Len(rs[i]) \in Nat /\ Len(rs[i]) < MaxCols
  <2>1. rs[i] \in RowSet
    BY <1>1, ElementOfSeq
  <2>2. rs[i] \in Seq(Chars) /\ Len(rs[i]) < MaxCols
    BY <2>1 DEF RowSet
  <2>3. Chars \subseteq Bytes
    BY DEF Chars
  <2>4. rs[i] \in Seq(Bytes)
    BY <2>2, <2>3, SeqMonotonic
  <2>5. QED
    BY <2>1, <2>2, <2>4, LenProperties
<1>5. QED
  BY <1>2, <1>3, <1>4

(* A sequence of rows that is not empty is a sheet. *)
LEMMA MadeSheet ==
  ASSUME NEW n \in Nat \ {0}, NEW rs \in [1 .. n -> RowSet]
  PROVE  rs \in Sheets /\ Len(rs) = n
<1>1. rs \in Seq(RowSet) /\ Len(rs) = n
  OBVIOUS
<1>2. rs # <<>>
  BY <1>1, EmptySeq
<1>3. QED
  BY <1>1, <1>2 DEF Sheets

(* A character that is taken makes a sheet of a sheet. *)
LEMMA TakenKeeps ==
  ASSUME NEW rs \in Sheets, NEW c \in Bytes
  PROVE  Taken(rs, c) \in Sheets
<1>1. /\ rs \in Seq(RowSet) /\ Len(rs) \in Nat \ {0}
      /\ rs[Len(rs)] \in RowSet /\ rs[Len(rs)] \in Seq(Chars) /\ Len(rs[Len(rs)]) \in Nat
  BY SheetSound DEF Sheets
<1>2. CASE c = CR
  BY <1>2 DEF Taken, CR, NL
<1>3. CASE c # CR /\ c = NL
  <2>1. Taken(rs, c) = Append(rs, <<>>)
    BY <1>3 DEF Taken
  <2>2. QED
    BY <1>1, <2>1, EmptySheet, AppendProperties DEF Sheets
<1>4. CASE c # CR /\ c # NL /\ RoomIn(rs[Len(rs)]) > 0
  <2> DEFINE r == Append(rs[Len(rs)], c)
  <2>1. Taken(rs, c) = [rs EXCEPT ![Len(rs)] = r]
    BY <1>4 DEF Taken
  <2>2. c \in Chars
    BY <1>4 DEF Chars
  <2>3. r \in Seq(Chars) /\ Len(r) = Len(rs[Len(rs)]) + 1
    BY <1>1, <2>2, AppendProperties
  <2> HIDE DEF r
  <2>4. r \in RowSet
    <3>1. MaxCols \in Nat /\ Len(rs[Len(rs)]) < MaxCols - 1
      <4>1. MaxCols \in Nat
        BY EditorAssumption
      <4>2. MaxCols - 1 - Len(rs[Len(rs)]) > 0
        BY <1>4 DEF RoomIn
      <4>3. PICK len \in Nat : len = Len(rs[Len(rs)])
        BY <1>1
      <4>4. MaxCols - 1 - len > 0 => len < MaxCols - 1
        BY <4>1
      <4>5. QED
        BY <4>1, <4>2, <4>3, <4>4
    <3>2. QED
      BY <1>1, <2>3, <3>1 DEF RowSet
  <2>5. [rs EXCEPT ![Len(rs)] = r] \in Seq(RowSet) /\ Len([rs EXCEPT ![Len(rs)] = r]) = Len(rs)
    BY <1>1, <2>4, ExceptSeq
  <2>6. QED
    BY <1>1, <2>1, <2>5, EmptySeq DEF Sheets
<1>5. CASE c # CR /\ c # NL /\ ~(RoomIn(rs[Len(rs)]) > 0)
  BY <1>5 DEF Taken
<1>6. QED
  BY <1>2, <1>3, <1>4, <1>5

(* The rows after each character, one after the other. *)
LEMMA RowsAfterIs ==
  ASSUME NEW chars \in Seq(Bytes)
  PROVE  /\ RowsAfter(chars)[0] = << <<>> >>
         /\ \A k \in 1 .. Len(chars) : RowsAfter(chars)[k] = Taken(RowsAfter(chars)[k - 1], chars[k])
         /\ \A k \in 0 .. Len(chars) : RowsAfter(chars)[k] \in Sheets
<1> DEFINE n == Len(chars)
           Is(g) == g = [k \in 0 .. n |-> IF k = 0 THEN << <<>> >> ELSE Taken(g[k - 1], chars[k])]
           step == [k \in 1 .. n |-> [rs \in Sheets |-> Taken(rs, chars[k])]]
           base == << <<>> >>
<1>1. n \in Nat /\ \A k \in 1 .. n : chars[k] \in Bytes
  BY LenProperties, ElementOfSeq
<1>2. step \in [1 .. n -> [Sheets -> Sheets]]
  BY <1>1, TakenKeeps
<1>3. base \in Sheets
  BY EmptySheet
<1>4. PICK f \in [0 .. n -> Sheets] : f[0] = base /\ \A k \in 1 .. n : f[k] = step[k][f[k - 1]]
  <2>1. Runs(n, Sheets, base, step) # {}
    <3> HIDE DEF step, base, n
    <3>1. QED
      BY <1>1, <1>2, <1>3, Recursion
  <2>2. QED
    BY <2>1 DEF Runs
<1>5. ASSUME NEW k \in 0 .. n PROVE f[k] = IF k = 0 THEN << <<>> >> ELSE Taken(f[k - 1], chars[k])
  <2>1. CASE k = 0
    BY <1>4, <2>1
  <2>2. CASE k # 0
    <3>1. k \in 1 .. n /\ k - 1 \in 0 .. n
      BY <1>1, <2>2
    <3>2. f[k - 1] \in Sheets /\ f[k] = step[k][f[k - 1]]
      BY <1>4, <3>1
    <3>3. QED
      BY <2>2, <3>1, <3>2
  <2>3. QED
    BY <2>1, <2>2
<1>6. Is(f)
  <2>1. f = [k \in 0 .. n |-> f[k]]
    OBVIOUS
  <2>2. QED
    BY <1>5, <2>1
<1> DEFINE g == CHOOSE h : Is(h)
<1>7. Is(g)
  <2> HIDE DEF Is
  <2>1. QED
    BY <1>6
<1>8. RowsAfter(chars) = g
  BY DEF RowsAfter
<1> HIDE DEF g
<1>9. g[0] = base /\ \A k \in 1 .. n : g[k] = Taken(g[k - 1], chars[k])
  <2>1. g[0] = base
    BY <1>1, <1>7
  <2>2. ASSUME NEW k \in 1 .. n PROVE g[k] = Taken(g[k - 1], chars[k])
    <3>1. k \in 0 .. n /\ k # 0
      BY <1>1
    <3>2. QED
      BY <1>7, <3>1
  <2>3. QED
    BY <2>1, <2>2
<1>10. \A k \in 0 .. n : g[k] \in Sheets
  <2> DEFINE A == {k \in 0 .. n : g[k] \in Sheets}
  <2>1. 0 \in A
    <3>1. 0 \in 0 .. n /\ g[0] \in Sheets
      BY <1>1, <1>9, EmptySheet
    <3>2. QED
      BY <3>1
  <2>2. ASSUME NEW k \in 0 .. n - 1, k \in A PROVE k + 1 \in A
    <3>1. k + 1 \in 1 .. n /\ g[k] \in Sheets
      BY <1>1, <2>2
    <3>2. g[k + 1] = Taken(g[k], chars[k + 1])
      BY <1>9, <3>1
    <3>3. g[k + 1] \in Sheets
      BY <1>1, <3>1, <3>2, TakenKeeps
    <3>4. QED
      BY <3>1, <3>3
  <2> HIDE DEF A
  <2>3. \A k \in 0 .. n : k \in A
    BY <1>1, <2>1, <2>2, UptoInd, ZenonT(30)
  <2>4. QED
    BY <2>3 DEF A
<1>11. QED
  BY <1>8, <1>9, <1>10

(* A file is shown as at most MaxLines rows. *)
LEMMA RowsFit ==
  ASSUME NEW chars \in Seq(Bytes)
  PROVE  Rows(chars) \in Sheets /\ Len(Rows(chars)) <= MaxLines
<1> DEFINE rs == RowsAfter(chars)[Len(chars)]
<1>1. MaxLines \in Nat \ {0}
  BY EditorAssumption
<1>2. rs \in Sheets
  <2>1. Len(chars) \in 0 .. Len(chars)
    BY LenProperties
  <2>2. QED
    BY <2>1, RowsAfterIs
<1>3. Rows(chars) = IF Len(rs) <= MaxLines THEN rs ELSE Append(SubSeq(rs, 1, MaxLines - 1), <<>>)
  BY DEF Rows
<1> HIDE DEF rs
<1>4. CASE Len(rs) <= MaxLines
  BY <1>2, <1>3, <1>4
<1>5. CASE ~(Len(rs) <= MaxLines)
  <2>1. rs \in Seq(RowSet) /\ Len(rs) \in Nat /\ MaxLines - 1 \in 0 .. Len(rs)
    BY <1>1, <1>2, <1>5, SheetSound DEF Sheets
  <2>2. \A i \in 1 .. MaxLines - 1 : rs[i] \in RowSet
    BY <1>1, <1>2, <1>5, <2>1, SheetSound
  <2>3. SubSeq(rs, 1, MaxLines - 1) \in Seq(RowSet) /\ Len(SubSeq(rs, 1, MaxLines - 1)) = MaxLines - 1
    BY <1>1, <2>1, <2>2, SubSeqProperties
  <2> DEFINE ss == SubSeq(rs, 1, MaxLines - 1)
  <2> HIDE DEF ss
  <2>4. ss \in Seq(RowSet) /\ Len(ss) = MaxLines - 1
    BY <2>3 DEF ss
  <2>5. Append(ss, <<>>) \in Seq(RowSet) /\ Len(Append(ss, <<>>)) = MaxLines /\ Append(ss, <<>>) # <<>>
    BY <1>1, <2>4, EmptySheet, AppendProperties
  <2>6. Rows(chars) = Append(ss, <<>>)
    BY <1>3, <1>5 DEF ss
  <2>7. QED
    BY <1>1, <2>5, <2>6 DEF Sheets
<1>6. QED
  BY <1>4, <1>5

---------------------------------------------------------------------------
(* The text of the rows *)

(* A text with a row and its end of line behind it. *)
LEMMA WithRow ==
  ASSUME NEW text \in Seq(Bytes), NEW row \in Seq(Bytes)
  PROVE  /\ text \o row \o <<NL>> \in Seq(Bytes)
         /\ Len(text \o row \o <<NL>>) = Len(text) + Len(row) + 1
<1>1. NL \in Bytes
  BY BytesAssumption
<1>2. <<NL>> \in Seq(Bytes) /\ Len(<<NL>>) = 1
  BY <1>1
<1>3. text \o row \in Seq(Bytes) /\ Len(text \o row) = Len(text) + Len(row)
  BY ConcatProperties
<1>4. QED
  BY <1>2, <1>3, ConcatProperties

(* The text above each row, one after the other. *)
LEMMA AboveIs ==
  ASSUME NEW rs \in Sheets
  PROVE  /\ Above(rs)[1] = <<>>
         /\ \A l \in 2 .. Len(rs) : Above(rs)[l] = Above(rs)[l - 1] \o rs[l - 1] \o <<NL>>
         /\ \A l \in 1 .. Len(rs) : Above(rs)[l] \in Seq(Bytes)
<1> DEFINE n == Len(rs)
           Is(g) == g = [l \in 1 .. n |-> IF l = 1 THEN <<>> ELSE g[l - 1] \o rs[l - 1] \o <<NL>>]
           step == [k \in 1 .. n - 1 |-> [text \in Seq(Bytes) |-> text \o rs[k] \o <<NL>>]]
<1>1. n \in Nat \ {0} /\ n - 1 \in Nat /\ \A k \in 1 .. n : rs[k] \in Seq(Bytes)
  BY SheetSound
<1>2. step \in [1 .. n - 1 -> [Seq(Bytes) -> Seq(Bytes)]]
  <2>1. ASSUME NEW k \in 1 .. n - 1, NEW text \in Seq(Bytes)
        PROVE  text \o rs[k] \o <<NL>> \in Seq(Bytes)
    <3>1. rs[k] \in Seq(Bytes)
      BY <1>1
    <3>2. QED
      BY <3>1, WithRow
  <2>2. QED
    BY <2>1
<1>3. <<>> \in Seq(Bytes)
  BY EmptySeq
<1>4. PICK f \in [0 .. n - 1 -> Seq(Bytes)] : f[0] = <<>> /\ \A k \in 1 .. n - 1 : f[k] = step[k][f[k - 1]]
  <2>1. Runs(n - 1, Seq(Bytes), <<>>, step) # {}
    <3> HIDE DEF step, n
    <3>1. QED
      BY <1>1, <1>2, <1>3, Recursion
  <2>2. QED
    BY <2>1 DEF Runs
<1> DEFINE h == [l \in 1 .. n |-> f[l - 1]]
<1>5. ASSUME NEW l \in 1 .. n PROVE h[l] = IF l = 1 THEN <<>> ELSE h[l - 1] \o rs[l - 1] \o <<NL>>
  <2>1. CASE l = 1
    BY <1>4, <2>1
  <2>2. CASE l # 1
    <3>1. l - 1 \in 1 .. n - 1 /\ l - 1 \in 1 .. n /\ l - 2 \in 0 .. n - 1 /\ (l - 1) - 1 = l - 2
      BY <1>1, <2>2
    <3>2. f[l - 2] \in Seq(Bytes) /\ f[l - 1] = step[l - 1][f[l - 2]]
      BY <1>4, <3>1
    <3>3. f[l - 1] = f[l - 2] \o rs[l - 1] \o <<NL>>
      BY <3>1, <3>2
    <3>4. h[l] = f[l - 1] /\ h[l - 1] = f[l - 2]
      BY <3>1
    <3>5. QED
      BY <2>2, <3>3, <3>4
  <2>3. QED
    BY <2>1, <2>2
<1>6. Is(h)
  <2>1. h = [l \in 1 .. n |-> h[l]]
    OBVIOUS
  <2> HIDE DEF h
  <2>2. QED
    BY <1>5, <2>1
<1> DEFINE g == CHOOSE x : Is(x)
<1>7. Is(g)
  <2> HIDE DEF Is, h
  <2>1. QED
    BY <1>6
<1>8. Above(rs) = g
  BY DEF Above
<1> HIDE DEF g
<1>9. g[1] = <<>> /\ \A l \in 2 .. n : g[l] = g[l - 1] \o rs[l - 1] \o <<NL>>
  <2>1. g[1] = <<>>
    BY <1>1, <1>7
  <2>2. ASSUME NEW l \in 2 .. n PROVE g[l] = g[l - 1] \o rs[l - 1] \o <<NL>>
    <3>1. l \in 1 .. n /\ l # 1
      BY <1>1
    <3>2. QED
      BY <1>7, <3>1
  <2>3. QED
    BY <2>1, <2>2
<1>10. \A l \in 1 .. n : g[l] \in Seq(Bytes)
  <2> DEFINE A == {l \in 1 .. n : g[l] \in Seq(Bytes)}
  <2>1. 1 \in A
    <3>1. 1 \in 1 .. n /\ g[1] \in Seq(Bytes)
      BY <1>1, <1>3, <1>9
    <3>2. QED
      BY <3>1
  <2>2. ASSUME NEW l \in 1 .. n - 1, l \in A PROVE l + 1 \in A
    <3>1. l + 1 \in 2 .. n /\ l + 1 \in 1 .. n /\ g[l] \in Seq(Bytes) /\ (l + 1) - 1 = l
      BY <1>1, <2>2
    <3>2. g[l + 1] = g[l] \o rs[l] \o <<NL>>
      BY <1>9, <3>1
    <3>3. rs[l] \in Seq(Bytes)
      BY <1>1
    <3>4. g[l + 1] \in Seq(Bytes)
      BY <3>1, <3>2, <3>3, WithRow
    <3>5. QED
      BY <3>1, <3>4
  <2> HIDE DEF A
  <2>3. 1 \in Nat /\ n \in Nat
    BY <1>1
  <2>4. \A l \in 1 .. n : l \in A
    BY <2>1, <2>2, <2>3, UptoInd, ZenonT(30)
  <2>5. QED
    BY <2>4 DEF A
<1>11. QED
  BY <1>8, <1>9, <1>10

(* What is saved is a file. *)
LEMMA FlatSound ==
  ASSUME NEW rs \in Sheets
  PROVE  Flat(rs) \in Seq(Bytes)
<1>1. Len(rs) \in 1 .. Len(rs)
  BY SheetSound
<1>2. Above(rs)[Len(rs)] \in Seq(Bytes) /\ rs[Len(rs)] \in Seq(Bytes)
  BY <1>1, AboveIs, SheetSound
<1>3. QED
  BY <1>2, ConcatProperties DEF Flat

(* The text above a row is that of the rows above it. *)
LEMMA SameAbove ==
  ASSUME NEW rs \in Sheets, NEW qs \in Sheets,
         NEW l \in 1 .. Len(rs), l <= Len(qs), \A i \in 1 .. l - 1 : rs[i] = qs[i]
  PROVE  Above(rs)[l] = Above(qs)[l]
<1> DEFINE A == {m \in 1 .. l : Above(rs)[m] = Above(qs)[m]}
<1>1. Len(rs) \in Nat \ {0} /\ Len(qs) \in Nat \ {0} /\ l \in Nat /\ 1 \in Nat
  BY SheetSound
<1>2. 1 \in A
  <2>1. Above(rs)[1] = <<>> /\ Above(qs)[1] = <<>>
    BY AboveIs
  <2>2. 1 \in 1 .. l
    BY <1>1
  <2>3. QED
    BY <2>1, <2>2
<1>3. ASSUME NEW m \in 1 .. l - 1, m \in A PROVE m + 1 \in A
  <2>1. m + 1 \in 2 .. Len(rs) /\ m + 1 \in 2 .. Len(qs) /\ m + 1 \in 1 .. l /\ (m + 1) - 1 = m
    BY <1>1
  <2>2. Above(rs)[m + 1] = Above(rs)[m] \o rs[m] \o <<NL>>
    BY <2>1, AboveIs
  <2>3. Above(qs)[m + 1] = Above(qs)[m] \o qs[m] \o <<NL>>
    BY <2>1, AboveIs
  <2>4. rs[m] = qs[m] /\ Above(rs)[m] = Above(qs)[m]
    BY <1>3
  <2>5. QED
    BY <2>1, <2>2, <2>3, <2>4
<1> HIDE DEF A
<1>4. \A m \in 1 .. l : m \in A
  BY <1>1, <1>2, <1>3, UptoInd, ZenonT(30)
<1>5. QED
  BY <1>1, <1>4 DEF A

(* What is behind a row: nothing, or an end of line and more. *)
Behind(X, last) == X \in Seq(Bytes) /\ (IF last THEN X = <<>> ELSE X # <<>> /\ X[1] = NL)

(* Concatenation of texts under a name of its own: the provers then use   *)
(* these facts and do not look into it.                                    *)
Cat(s, t) == s \o t

LEMMA TextLen ==
  \A s \in Seq(Bytes) : Len(s) \in Nat /\ (s = <<>> <=> Len(s) = 0)
BY LenProperties, EmptySeq

LEMMA CatSound ==
  \A s, t \in Seq(Bytes) : Cat(s, t) \in Seq(Bytes) /\ Len(Cat(s, t)) = Len(s) + Len(t)
BY ConcatProperties DEF Cat

LEMMA CatEmpty ==
  \A s \in Seq(Bytes) : Cat(s, <<>>) = s /\ Cat(<<>>, s) = s
BY ConcatEmptySeq DEF Cat

LEMMA CatAt ==
  \A s, t \in Seq(Bytes) : \A i \in 1 .. Len(s) + Len(t) :
    Cat(s, t)[i] = IF i <= Len(s) THEN s[i] ELSE t[i - Len(s)]
BY ConcatProperties DEF Cat

LEMMA CatAssoc ==
  \A s, t, u \in Seq(Bytes) : Cat(Cat(s, t), u) = Cat(s, Cat(t, u))
BY ConcatAssociative DEF Cat

(* The end of line. *)
EndOfLine == <<NL>>

LEMMA EndOfLineSound ==
  NL \in Bytes /\ EndOfLine \in Seq(Bytes) /\ Len(EndOfLine) = 1 /\ EndOfLine[1] = NL
<1>1. NL \in Bytes
  BY BytesAssumption
<1>2. QED
  BY <1>1 DEF EndOfLine

(* Text, a row, what is behind it, and another row. *)
LEMMA Regroup ==
  ASSUME NEW p \in Seq(Bytes), NEW X \in Seq(Bytes), NEW q \in Seq(Bytes)
  PROVE  /\ Cat(Cat(Cat(p, X), EndOfLine), q) = Cat(p, Cat(Cat(X, EndOfLine), q))
         /\ Cat(Cat(X, EndOfLine), q) \in Seq(Bytes)
         /\ Cat(Cat(X, EndOfLine), q) # <<>>
         /\ Cat(Cat(X, EndOfLine), q)[1] = IF X = <<>> THEN NL ELSE X[1]
<1>1. Cat(Cat(Cat(p, X), EndOfLine), q) = Cat(p, Cat(Cat(X, EndOfLine), q))
  <2> DEFINE z == Cat(X, EndOfLine)
  <2>1. z \in Seq(Bytes)
    BY EndOfLineSound, CatSound
  <2>2. Cat(Cat(p, X), EndOfLine) = Cat(p, z)
    BY <2>1, EndOfLineSound, CatAssoc, SMT
  <2> HIDE DEF z
  <2>3. Cat(Cat(p, z), q) = Cat(p, Cat(z, q))
    BY <2>1, CatAssoc, SMT
  <2>4. QED
    BY <2>2, <2>3 DEF z
<1>2. /\ Cat(X, EndOfLine) \in Seq(Bytes) /\ Len(Cat(X, EndOfLine)) = Len(X) + 1
      /\ Len(X) \in Nat /\ Len(q) \in Nat
  <2>1. Len(X) \in Nat /\ Len(q) \in Nat
    BY TextLen
  <2>2. Cat(X, EndOfLine) \in Seq(Bytes) /\ Len(Cat(X, EndOfLine)) = Len(X) + Len(EndOfLine)
    BY EndOfLineSound, CatSound
  <2>3. QED
    BY EndOfLineSound, <2>1, <2>2
<1>3. /\ Cat(Cat(X, EndOfLine), q) \in Seq(Bytes)
      /\ Len(Cat(Cat(X, EndOfLine), q)) = Len(X) + 1 + Len(q)
  BY <1>2, CatSound
<1>4. Cat(Cat(X, EndOfLine), q) # <<>>
  BY <1>2, <1>3, TextLen
<1>5. Cat(Cat(X, EndOfLine), q)[1] = Cat(X, EndOfLine)[1]
  <2>1. \A i \in 1 .. Len(Cat(X, EndOfLine)) + Len(q) :
          Cat(Cat(X, EndOfLine), q)[i] =
            IF i <= Len(Cat(X, EndOfLine)) THEN Cat(X, EndOfLine)[i] ELSE q[i - Len(Cat(X, EndOfLine))]
    BY <1>2, CatAt, Zenon
  <2>2. QED
    BY <1>2, <2>1
<1>6. Cat(X, EndOfLine)[1] = IF X = <<>> THEN NL ELSE X[1]
  <2>1. \A i \in 1 .. Len(X) + Len(EndOfLine) :
          Cat(X, EndOfLine)[i] = IF i <= Len(X) THEN X[i] ELSE EndOfLine[i - Len(X)]
    BY EndOfLineSound, CatAt, Zenon
  <2>2. X = <<>> <=> Len(X) = 0
    BY TextLen
  <2>3. QED
    BY <1>2, EndOfLineSound, <2>1, <2>2
<1>7. QED
  BY <1>1, <1>2, <1>3, <1>4, <1>5, <1>6

(* The text above a row, and all of it, in these terms. *)
LEMMA AboveNext ==
  ASSUME NEW rs \in Sheets, NEW l \in 1 .. Len(rs) - 1
  PROVE  /\ Above(rs)[l + 1] = Cat(Cat(Above(rs)[l], rs[l]), EndOfLine)
         /\ Len(Above(rs)[l + 1]) = Len(Above(rs)[l]) + Len(rs[l]) + 1
<1>1. Len(rs) \in Nat \ {0}
  BY SheetSound
<1>2. l + 1 \in 2 .. Len(rs) /\ l \in 1 .. Len(rs) /\ (l + 1) - 1 = l
  BY <1>1
<1>3. Above(rs)[l + 1] = Above(rs)[l] \o rs[l] \o <<NL>>
  BY <1>2, AboveIs
<1>4. Above(rs)[l] \in Seq(Bytes) /\ rs[l] \in Seq(Bytes)
  BY <1>2, AboveIs, SheetSound
<1>5. Above(rs)[l + 1] = Cat(Cat(Above(rs)[l], rs[l]), EndOfLine)
  BY <1>3 DEF Cat, EndOfLine
<1>6. QED
  BY <1>3, <1>4, <1>5, WithRow

LEMMA FlatIs ==
  ASSUME NEW rs \in Sheets
  PROVE  Flat(rs) = Cat(Above(rs)[Len(rs)], rs[Len(rs)])
BY DEF Flat, Cat

(* Two sheets with the same rows behind a row of each have the same text   *)
(* behind it.                                                              *)
LEMMA SameBehind ==
  ASSUME NEW rs \in Sheets, NEW qs \in Sheets,
         NEW l \in 1 .. Len(rs), NEW m \in 1 .. Len(qs), Len(qs) - m = Len(rs) - l,
         \A i \in 1 .. Len(rs) - l : qs[m + i] = rs[l + i]
  PROVE  \E X \in Seq(Bytes) :
           /\ Flat(rs) = Cat(Cat(Above(rs)[l], rs[l]), X)
           /\ Flat(qs) = Cat(Cat(Above(qs)[m], qs[m]), X)
           /\ Behind(X, l = Len(rs))
<1> DEFINE n == Len(rs) - l
           U == Cat(Above(rs)[l], rs[l])
           V == Cat(Above(qs)[m], qs[m])
           Is(i, X) == /\ Cat(Above(rs)[l + i], rs[l + i]) = Cat(U, X)
                       /\ Cat(Above(qs)[m + i], qs[m + i]) = Cat(V, X)
                       /\ Behind(X, i = 0)
           A == {i \in 0 .. n : \E X \in Seq(Bytes) : Is(i, X)}
<1>1. /\ Len(rs) \in Nat \ {0} /\ Len(qs) \in Nat \ {0} /\ n \in Nat
      /\ l \in Nat /\ m \in Nat /\ l + n = Len(rs) /\ m + n = Len(qs)
  BY SheetSound
<1>2. ASSUME NEW i \in 0 .. n
      PROVE  /\ Above(rs)[l + i] \in Seq(Bytes) /\ rs[l + i] \in Seq(Bytes)
             /\ Above(qs)[m + i] \in Seq(Bytes) /\ qs[m + i] \in Seq(Bytes)
  <2>1. l + i \in 1 .. Len(rs) /\ m + i \in 1 .. Len(qs)
    BY <1>1
  <2>2. QED
    BY <2>1, AboveIs, SheetSound
<1>3. U \in Seq(Bytes) /\ V \in Seq(Bytes)
  <2>1. 0 \in 0 .. n /\ l + 0 = l /\ m + 0 = m
    BY <1>1
  <2>2. Above(rs)[l] \in Seq(Bytes) /\ rs[l] \in Seq(Bytes) /\ Above(qs)[m] \in Seq(Bytes) /\ qs[m] \in Seq(Bytes)
    BY <1>2, <2>1
  <2>3. QED
    BY <2>2, CatSound
<1>4. 0 \in A
  <2>1. <<>> \in Seq(Bytes) /\ Cat(U, <<>>) = U /\ Cat(V, <<>>) = V
    BY <1>3, CatEmpty, EmptySeq
  <2>2. 0 \in 0 .. n /\ l + 0 = l /\ m + 0 = m
    BY <1>1
  <2>3. Is(0, <<>>)
    BY <2>1, <2>2 DEF Behind
  <2>4. QED
    BY <2>1, <2>2, <2>3
<1>5. ASSUME NEW i \in 0 .. n - 1, i \in A PROVE i + 1 \in A
  <2>1. PICK X \in Seq(Bytes) : Is(i, X)
    BY <1>5
  <2>2. i + 1 \in 0 .. n /\ i + 1 \in 1 .. n /\ i \in 0 .. n /\ l + (i + 1) = (l + i) + 1 /\ m + (i + 1) = (m + i) + 1
        /\ l + i \in 1 .. Len(rs) - 1 /\ m + i \in 1 .. Len(qs) - 1
    BY <1>1
  <2> DEFINE q == rs[l + (i + 1)]
             Y == Cat(Cat(X, EndOfLine), q)
  <2>3. q \in Seq(Bytes) /\ q = qs[m + (i + 1)]
    BY <1>2, <2>2
  <2>4. Above(rs)[l + (i + 1)] = Cat(Cat(U, X), EndOfLine)
    BY <2>1, <2>2, AboveNext
  <2>5. Above(qs)[m + (i + 1)] = Cat(Cat(V, X), EndOfLine)
    BY <2>1, <2>2, AboveNext
  <2> HIDE DEF q
  <2>6. Cat(Cat(Cat(U, X), EndOfLine), q) = Cat(U, Y) /\ Cat(Cat(Cat(V, X), EndOfLine), q) = Cat(V, Y)
        /\ Y \in Seq(Bytes) /\ Y # <<>> /\ Y[1] = IF X = <<>> THEN NL ELSE X[1]
    <3> HIDE DEF U, V
    <3>1. QED
      BY <1>3, <2>3, Regroup
  <2>7. Y[1] = NL
    BY <2>1, <2>6 DEF Behind
  <2>8. Behind(Y, i + 1 = 0)
    BY <2>2, <2>6, <2>7 DEF Behind
  <2>9. Is(i + 1, Y)
    BY <2>3, <2>4, <2>5, <2>6, <2>8 DEF q
  <2>10. QED
    BY <2>2, <2>6, <2>9
<1>6. n \in A
  <2> HIDE DEF A
  <2>1. \A i \in 0 .. n : i \in A
    BY <1>1, <1>4, <1>5, UptoInd, ZenonT(30)
  <2>2. QED
    BY <1>1, <2>1
<1>7. PICK X \in Seq(Bytes) : Is(n, X)
  BY <1>6
<1>8. n = 0 <=> l = Len(rs)
  BY <1>1
<1>9. QED
  BY <1>1, <1>7, <1>8, FlatIs

---------------------------------------------------------------------------
(* A row, and a text, cut in two *)

(* What was put together comes apart again. *)
LEMMA CatParts ==
  ASSUME NEW s \in Seq(Bytes), NEW t \in Seq(Bytes)
  PROVE  /\ SubSeq(Cat(s, t), 1, Len(s)) = s
         /\ SubSeq(Cat(s, t), Len(s) + 1, Len(Cat(s, t))) = t
<1> DEFINE w == Cat(s, t)
<1>1. Len(s) \in Nat /\ Len(t) \in Nat
  BY TextLen
<1>2. w \in Seq(Bytes) /\ Len(w) = Len(s) + Len(t)
  BY CatSound
<1>3. \A i \in 1 .. Len(s) + Len(t) : w[i] = IF i <= Len(s) THEN s[i] ELSE t[i - Len(s)]
  BY CatAt, Zenon
<1>4. \A i \in 1 .. Len(w) : w[i] \in Bytes
  BY <1>2, ElementOfSeq
<1> HIDE DEF w
<1>5. SubSeq(w, 1, Len(s)) = s
  <2>1. \A i \in 1 .. Len(s) : w[i] \in Bytes
    BY <1>1, <1>2, <1>4
  <2>2. 1 \in Int /\ Len(s) \in Int
    BY <1>1
  <2>3. /\ SubSeq(w, 1, Len(s)) \in Seq(Bytes)
        /\ Len(SubSeq(w, 1, Len(s))) = (IF 1 <= Len(s) THEN Len(s) - 1 + 1 ELSE 0)
        /\ \A i \in 1 .. Len(s) - 1 + 1 : SubSeq(w, 1, Len(s))[i] = w[1 + i - 1]
    BY <2>1, <2>2, SubSeqProperties
  <2>4. Len(SubSeq(w, 1, Len(s))) = Len(s)
    BY <1>1, <2>3
  <2>5. \A i \in 1 .. Len(s) : SubSeq(w, 1, Len(s))[i] = s[i]
    BY <1>1, <1>3, <2>3
  <2>6. QED
    BY <2>3, <2>4, <2>5, SeqEqual
<1>6. SubSeq(w, Len(s) + 1, Len(w)) = t
  <2>1. \A i \in Len(s) + 1 .. Len(w) : w[i] \in Bytes
    BY <1>1, <1>2, <1>4
  <2>2. Len(s) + 1 \in Int /\ Len(w) \in Int
    BY <1>1, <1>2
  <2> DEFINE v == SubSeq(w, Len(s) + 1, Len(w))
  <2>3. /\ v \in Seq(Bytes)
        /\ Len(v) = (IF Len(s) + 1 <= Len(w) THEN Len(w) - (Len(s) + 1) + 1 ELSE 0)
        /\ \A i \in 1 .. Len(w) - (Len(s) + 1) + 1 : v[i] = w[Len(s) + 1 + i - 1]
    BY <2>1, <2>2, SubSeqProperties
  <2> HIDE DEF v
  <2>4. Len(v) = Len(t)
    BY <1>1, <1>2, <2>3
  <2>5. \A i \in 1 .. Len(t) : v[i] = t[i]
    <3> SUFFICES ASSUME NEW i \in 1 .. Len(t) PROVE v[i] = t[i]
      OBVIOUS
    <3>1. /\ i \in 1 .. Len(w) - (Len(s) + 1) + 1 /\ Len(s) + 1 + i - 1 = Len(s) + i
          /\ Len(s) + i \in 1 .. Len(s) + Len(t) /\ ~(Len(s) + i <= Len(s)) /\ Len(s) + i - Len(s) = i
      BY <1>1, <1>2
    <3>2. v[i] = w[Len(s) + i]
      BY <2>3, <3>1
    <3>3. w[Len(s) + i] = t[i]
      BY <1>3, <3>1
    <3>4. QED
      BY <3>2, <3>3
  <2>6. v = t
    BY <2>3, <2>4, <2>5, SeqEqual
  <2>7. QED
    BY <2>6 DEF v
<1>7. QED
  BY <1>5, <1>6 DEF w

(* So does the middle of three. *)
LEMMA CatMiddle ==
  ASSUME NEW s \in Seq(Bytes), NEW m \in Seq(Bytes), NEW t \in Seq(Bytes)
  PROVE  SubSeq(Cat(Cat(s, m), t), Len(s) + 1, Len(s) + Len(m)) = m
<1> DEFINE h == Cat(s, m)
           w == Cat(h, t)
           v == SubSeq(w, Len(s) + 1, Len(s) + Len(m))
<1>1. Len(s) \in Nat /\ Len(m) \in Nat /\ Len(t) \in Nat
  BY TextLen
<1>2. h \in Seq(Bytes) /\ Len(h) = Len(s) + Len(m)
  BY CatSound
<1>3. \A i \in 1 .. Len(s) + Len(m) : h[i] = IF i <= Len(s) THEN s[i] ELSE m[i - Len(s)]
  BY CatAt, Zenon
<1> HIDE DEF h
<1>4. w \in Seq(Bytes) /\ Len(w) = Len(h) + Len(t)
  BY <1>2, CatSound
<1>5. \A i \in 1 .. Len(h) + Len(t) : w[i] = IF i <= Len(h) THEN h[i] ELSE t[i - Len(h)]
  BY <1>2, CatAt, Zenon
<1>6. \A i \in 1 .. Len(w) : w[i] \in Bytes
  BY <1>4, ElementOfSeq
<1> HIDE DEF w
<1>7. \A i \in Len(s) + 1 .. Len(s) + Len(m) : w[i] \in Bytes
  BY <1>1, <1>2, <1>4, <1>6
<1>8. Len(s) + 1 \in Int /\ Len(s) + Len(m) \in Int
  BY <1>1
<1>9. /\ v \in Seq(Bytes)
      /\ Len(v) = (IF Len(s) + 1 <= Len(s) + Len(m) THEN Len(s) + Len(m) - (Len(s) + 1) + 1 ELSE 0)
      /\ \A i \in 1 .. Len(s) + Len(m) - (Len(s) + 1) + 1 : v[i] = w[Len(s) + 1 + i - 1]
  BY <1>7, <1>8, SubSeqProperties
<1> HIDE DEF v
<1>10. Len(v) = Len(m)
  BY <1>1, <1>9
<1>11. \A i \in 1 .. Len(m) : v[i] = m[i]
  <2> SUFFICES ASSUME NEW i \in 1 .. Len(m) PROVE v[i] = m[i]
    OBVIOUS
  <2>1. /\ i \in 1 .. Len(s) + Len(m) - (Len(s) + 1) + 1 /\ Len(s) + 1 + i - 1 = Len(s) + i
        /\ Len(s) + i \in 1 .. Len(h) + Len(t) /\ Len(s) + i <= Len(h) /\ ~(Len(s) + i <= Len(s))
        /\ Len(s) + i \in 1 .. Len(s) + Len(m) /\ Len(s) + i - Len(s) = i
    BY <1>1, <1>2
  <2>2. v[i] = w[Len(s) + i]
    BY <1>9, <2>1
  <2>3. w[Len(s) + i] = h[Len(s) + i]
    BY <1>5, <2>1
  <2>4. h[Len(s) + i] = m[i]
    BY <1>3, <2>1
  <2>5. QED
    BY <2>2, <2>3, <2>4
<1>12. v = m
  BY <1>9, <1>10, <1>11, SeqEqual
<1>13. QED
  BY <1>12 DEF v, w, h

(* A row is what is before a column and what is behind it. *)
LEMMA RowCut ==
  ASSUME NEW r \in Seq(Chars), NEW c \in 0 .. Len(r)
  PROVE  /\ Before(r, c) \in Seq(Chars) /\ Len(Before(r, c)) = c
         /\ From(r, c) \in Seq(Chars) /\ Len(From(r, c)) = Len(r) - c
         /\ r = Cat(Before(r, c), From(r, c))
<1>1. Len(r) \in Nat /\ c \in Nat /\ \A i \in 1 .. Len(r) : r[i] \in Chars
  BY LenProperties, ElementOfSeq
<1>2. Before(r, c) \in Seq(Chars) /\ Len(Before(r, c)) = c
  <2>1. \A i \in 1 .. c : r[i] \in Chars
    BY <1>1
  <2>2. /\ SubSeq(r, 1, c) \in Seq(Chars)
        /\ Len(SubSeq(r, 1, c)) = (IF 1 <= c THEN c - 1 + 1 ELSE 0)
    BY <1>1, <2>1, SubSeqProperties
  <2>3. QED
    BY <1>1, <2>2 DEF Before
<1>3. From(r, c) \in Seq(Chars) /\ Len(From(r, c)) = Len(r) - c
  <2>1. \A i \in c + 1 .. Len(r) : r[i] \in Chars
    BY <1>1
  <2>2. /\ SubSeq(r, c + 1, Len(r)) \in Seq(Chars)
        /\ Len(SubSeq(r, c + 1, Len(r))) = (IF c + 1 <= Len(r) THEN Len(r) - (c + 1) + 1 ELSE 0)
    BY <1>1, <2>1, SubSeqProperties
  <2>3. QED
    BY <1>1, <2>2 DEF From
<1>4. r = Cat(Before(r, c), From(r, c))
  <2>1. 1 \in 1 .. Len(r) + 1 /\ c \in 0 .. Len(r) /\ Len(r) \in c .. Len(r) /\ 1 - 1 = 0
    BY <1>1
  <2>2. SubSeq(r, 1, c) \o SubSeq(r, c + 1, Len(r)) = SubSeq(r, 1, Len(r))
    BY <2>1, ConcatAdjacentSubSeq
  <2>3. QED
    BY <2>2, SubSeqFull DEF Before, From, Cat
<1>5. QED
  BY <1>2, <1>3, <1>4

(* A text of characters of rows is a text. *)
LEMMA CharsText ==
  /\ \A s \in Seq(Chars) : s \in Seq(Bytes)
  /\ \A s, t \in Seq(Chars) : Cat(s, t) \in Seq(Chars)
<1>1. \A s \in Seq(Chars) : s \in Seq(Bytes)
  <2>1. Chars \subseteq Bytes
    BY DEF Chars
  <2>2. QED
    BY <2>1, SeqMonotonic
<1>2. \A s, t \in Seq(Chars) : Cat(s, t) \in Seq(Chars)
  BY ConcatProperties DEF Cat
<1>3. QED
  BY <1>1, <1>2

---------------------------------------------------------------------------
(* Sheets that differ in a row or two *)

(* A sheet with another row in place of one. *)
Put(rs, l, r) == [rs EXCEPT ![l] = r]

(* One row of a sheet is replaced: the text above it and behind it stays.  *)
LEMMA RowReplaced ==
  ASSUME NEW rs \in Sheets, NEW l \in 1 .. Len(rs), NEW r \in RowSet
  PROVE  /\ Put(rs, l, r) \in Sheets
         /\ Len(Put(rs, l, r)) = Len(rs)
         /\ Put(rs, l, r)[l] = r
         /\ Above(Put(rs, l, r))[l] = Above(rs)[l]
         /\ \E X \in Seq(Bytes) :
              /\ Flat(rs) = Cat(Cat(Above(rs)[l], rs[l]), X)
              /\ Flat(Put(rs, l, r)) = Cat(Cat(Above(rs)[l], r), X)
<1> DEFINE qs == Put(rs, l, r)
<1>1. Len(rs) \in Nat \ {0} /\ rs \in Seq(RowSet)
  BY SheetSound DEF Sheets
<1>2. qs \in Seq(RowSet) /\ Len(qs) = Len(rs) /\ \A j \in 1 .. Len(rs) : qs[j] = IF j = l THEN r ELSE rs[j]
  BY <1>1, ExceptSeq DEF Put
<1> HIDE DEF qs
<1>3. qs \in Sheets
  BY <1>1, <1>2, EmptySeq DEF Sheets
<1>4. qs[l] = r
  BY <1>2
<1>5. Above(rs)[l] = Above(qs)[l]
  <2>1. l <= Len(qs) /\ \A i \in 1 .. l - 1 : rs[i] = qs[i]
    BY <1>1, <1>2
  <2>2. QED
    BY <1>3, <2>1, SameAbove
<1>6. \E X \in Seq(Bytes) :
        /\ Flat(rs) = Cat(Cat(Above(rs)[l], rs[l]), X)
        /\ Flat(qs) = Cat(Cat(Above(qs)[l], qs[l]), X)
        /\ Behind(X, l = Len(rs))
  <2>1. l \in 1 .. Len(qs) /\ Len(qs) - l = Len(rs) - l
    BY <1>1, <1>2
  <2>2. \A i \in 1 .. Len(rs) - l : qs[l + i] = rs[l + i]
    BY <1>1, <1>2
  <2>3. QED
    BY <1>3, <2>1, <2>2, SameBehind, Zenon
<1>7. QED
  BY <1>2, <1>3, <1>4, <1>5, <1>6 DEF qs

(* Where the cursor can be there is text. *)
LEMMA PosInText ==
  ASSUME NEW rs \in Sheets, NEW l \in 1 .. Len(rs), NEW c \in 0 .. Len(rs[l])
  PROVE  Len(Above(rs)[l]) + c \in 0 .. Len(Flat(rs))
<1> DEFINE U == Above(rs)[l]
<1>1. U \in Seq(Bytes) /\ rs[l] \in Seq(Bytes) /\ rs[l] \in RowSet
  BY AboveIs, SheetSound
<1>2. PICK X \in Seq(Bytes) : Flat(rs) = Cat(Cat(U, rs[l]), X)
  <2>1. \E X \in Seq(Bytes) :
          /\ Flat(rs) = Cat(Cat(Above(rs)[l], rs[l]), X)
          /\ Flat(rs) = Cat(Cat(Above(rs)[l], rs[l]), X)
          /\ Behind(X, l = Len(rs))
    BY SameBehind
  <2>2. QED
    BY <2>1
<1> HIDE DEF U
<1>3. Len(U) \in Nat /\ Len(rs[l]) \in Nat /\ Len(X) \in Nat
  BY <1>1, TextLen
<1>4. Cat(U, rs[l]) \in Seq(Bytes) /\ Len(Cat(U, rs[l])) = Len(U) + Len(rs[l])
  BY <1>1, CatSound
<1>5. Len(Flat(rs)) = Len(Cat(U, rs[l])) + Len(X)
  BY <1>2, <1>4, CatSound
<1>6. Len(U) + c \in 0 .. Len(Flat(rs))
  BY <1>3, <1>4, <1>5
<1>7. QED
  BY <1>6 DEF U

---------------------------------------------------------------------------
(* What a key does to rows and cursor, and what that is for the text *)

(* Rows and a cursor in them. *)
Placed(rs, l, c) ==
  /\ rs \in Sheets /\ Len(rs) <= MaxLines
  /\ l \in 1 .. Len(rs) /\ c \in 0 .. Len(rs[l])

Pos(rs, l, c) == Len(Above(rs)[l]) + c

(* The changes of a text that TextBuffer knows, from (t, p) to (u, q). *)
Moved(t, p, u, q) == u = t /\ q \in 0 .. Len(t)

Inserted(t, p, u, q) ==
  \E k \in 1 .. 3 :
    /\ Len(u) = Len(t) + k
    /\ SubSeq(u, 1, p) = SubSeq(t, 1, p)
    /\ SubSeq(u, p + k + 1, Len(u)) = SubSeq(t, p + 1, Len(t))
    /\ q \in p + 1 .. p + k

Erased(t, p, u, q) ==
  \E e \in {p - 1, p} \cap (0 .. Len(t) - 1) :
    u = SubSeq(t, 1, e) \o SubSeq(t, e + 2, Len(t)) /\ q = e

JoinedText(t, p, u, q) ==
  \E e \in {p - 1, p} \cap (0 .. Len(t) - 1) :
    \E end \in e + 1 .. Len(t) : \E k \in e + 1 .. end :
      /\ t[e + 1] = NL
      /\ \A i \in e + 2 .. end : t[i] # NL
      /\ end = Len(t) \/ t[end + 1] = NL
      /\ u = SubSeq(t, 1, e) \o SubSeq(t, e + 2, k) \o SubSeq(t, end + 1, Len(t))
      /\ q = e

(* A text put in between is an insertion. *)
LEMMA TextInserted ==
  ASSUME NEW P \in Seq(Bytes), NEW s \in Seq(Bytes), NEW Q \in Seq(Bytes), Len(s) \in 1 .. 3,
         NEW q \in Len(P) + 1 .. Len(P) + Len(s)
  PROVE  Inserted(Cat(P, Q), Len(P), Cat(Cat(P, s), Q), q)
<1> DEFINE t == Cat(P, Q)
           u == Cat(Cat(P, s), Q)
           h == Cat(P, s)
<1>1. Len(P) \in Nat /\ Len(s) \in Nat /\ Len(Q) \in Nat
  BY TextLen
<1>2. /\ t \in Seq(Bytes) /\ Len(t) = Len(P) + Len(Q)
      /\ h \in Seq(Bytes) /\ Len(h) = Len(P) + Len(s)
      /\ Cat(s, Q) \in Seq(Bytes) /\ u = Cat(P, Cat(s, Q))
  BY CatSound, CatAssoc
<1>3. u \in Seq(Bytes) /\ Len(u) = Len(h) + Len(Q)
  BY <1>2, CatSound
<1>4. SubSeq(t, 1, Len(P)) = P /\ SubSeq(t, Len(P) + 1, Len(t)) = Q
  BY CatParts
<1>5. SubSeq(u, 1, Len(P)) = P
  BY <1>2, CatParts
<1>6. SubSeq(u, Len(h) + 1, Len(u)) = Q
  BY <1>2, CatParts
<1> HIDE DEF t, u, h
<1>7. Inserted(t, Len(P), u, q)
  <2>1. Len(u) = Len(t) + Len(s)
    BY <1>1, <1>2, <1>3
  <2>2. Len(P) + Len(s) + 1 = Len(h) + 1
    BY <1>1, <1>2
  <2>3. QED
    BY <1>4, <1>5, <1>6, <2>1, <2>2 DEF Inserted
<1>8. QED
  BY <1>7 DEF t, u

(* A character taken out of a text is an erasure. *)
LEMMA TextErased ==
  ASSUME NEW P \in Seq(Bytes), NEW s \in Seq(Bytes), NEW Q \in Seq(Bytes), Len(s) = 1,
         NEW p \in {Len(P), Len(P) + 1}
  PROVE  Erased(Cat(Cat(P, s), Q), p, Cat(P, Q), Len(P))
<1> DEFINE t == Cat(Cat(P, s), Q)
           h == Cat(P, s)
<1>1. Len(P) \in Nat /\ Len(Q) \in Nat
  BY TextLen
<1>2. /\ h \in Seq(Bytes) /\ Len(h) = Len(P) + Len(s)
      /\ Cat(s, Q) \in Seq(Bytes) /\ t = Cat(P, Cat(s, Q))
  BY CatSound, CatAssoc
<1>3. t \in Seq(Bytes) /\ Len(t) = Len(h) + Len(Q)
  BY <1>2, CatSound
<1>4. SubSeq(t, 1, Len(P)) = P
  BY <1>2, CatParts
<1>5. SubSeq(t, Len(h) + 1, Len(t)) = Q
  BY <1>2, CatParts
<1> HIDE DEF t, h
<1>6. Len(P) \in {p - 1, p} \cap (0 .. Len(t) - 1)
  BY <1>1, <1>2, <1>3
<1>7. Len(h) + 1 = Len(P) + 2
  BY <1>1, <1>2
<1>8. Cat(P, Q) = SubSeq(t, 1, Len(P)) \o SubSeq(t, Len(P) + 2, Len(t))
  BY <1>4, <1>5, <1>7 DEF Cat
<1>9. Erased(t, p, Cat(P, Q), Len(P))
  BY <1>6, <1>8 DEF Erased
<1>10. QED
  BY <1>9 DEF t

(* An end of line between two rows goes, and what is behind a column of    *)
(* the second row.                                                         *)
LEMMA TextJoined ==
  ASSUME NEW P \in Seq(Bytes), NEW b \in Seq(Chars), NEW f \in Seq(Chars), NEW X \in Seq(Bytes),
         X = <<>> \/ X[1] = NL,
         NEW p \in {Len(P), Len(P) + 1}
  PROVE  JoinedText(Cat(Cat(Cat(P, EndOfLine), Cat(b, f)), X), p, Cat(Cat(P, b), X), Len(P))
<1> DEFINE h == Cat(P, EndOfLine)
           r == Cat(b, f)
           g == Cat(h, r)
           t == Cat(g, X)
           end == Len(P) + 1 + Len(r)
           k == Len(P) + 1 + Len(b)
<1>1. b \in Seq(Bytes) /\ f \in Seq(Bytes) /\ r \in Seq(Chars) /\ r \in Seq(Bytes)
  BY CharsText
<1>2. Len(P) \in Nat /\ Len(b) \in Nat /\ Len(f) \in Nat /\ Len(X) \in Nat /\ (X = <<>> <=> Len(X) = 0)
  BY <1>1, TextLen
<1>3. Len(r) = Len(b) + Len(f)
  BY <1>1, CatSound
<1>4. h \in Seq(Bytes) /\ Len(h) = Len(P) + 1
  <2>1. h \in Seq(Bytes) /\ Len(h) = Len(P) + Len(EndOfLine)
    BY EndOfLineSound, CatSound
  <2>2. QED
    BY <2>1, EndOfLineSound
<1> HIDE DEF r
<1>5. g \in Seq(Bytes) /\ Len(g) = Len(h) + Len(r)
  BY <1>1, <1>4, CatSound
<1> HIDE DEF g
<1>6. t \in Seq(Bytes) /\ Len(t) = Len(g) + Len(X)
  BY <1>5, CatSound
<1>7. Len(t) = Len(P) + 1 + Len(b) + Len(f) + Len(X) /\ end = Len(P) + 1 + Len(b) + Len(f)
  BY <1>2, <1>3, <1>4, <1>5, <1>6
<1>8. \A i \in 1 .. Len(g) : t[i] = g[i]
  <2>1. \A i \in 1 .. Len(g) + Len(X) : t[i] = IF i <= Len(g) THEN g[i] ELSE X[i - Len(g)]
    BY <1>5, CatAt, Zenon
  <2>2. Len(g) \in Nat
    BY <1>5, TextLen
  <2> HIDE DEF t
  <2>3. QED
    BY <1>2, <2>1, <2>2
<1>9. X # <<>> => t[Len(g) + 1] = X[1]
  <2>1. \A i \in 1 .. Len(g) + Len(X) : t[i] = IF i <= Len(g) THEN g[i] ELSE X[i - Len(g)]
    BY <1>5, CatAt, Zenon
  <2>2. Len(g) \in Nat
    BY <1>5, TextLen
  <2> HIDE DEF t
  <2>3. QED
    BY <1>2, <2>1, <2>2
<1>10. \A i \in 1 .. Len(h) + Len(r) : g[i] = IF i <= Len(h) THEN h[i] ELSE r[i - Len(h)]
  BY <1>1, <1>4, CatAt, Zenon DEF g
<1>11. h[Len(P) + 1] = NL
  <2>1. \A i \in 1 .. Len(P) + Len(EndOfLine) : h[i] = IF i <= Len(P) THEN P[i] ELSE EndOfLine[i - Len(P)]
    BY EndOfLineSound, CatAt, Zenon
  <2>2. QED
    BY <1>2, <2>1, EndOfLineSound
<1> HIDE DEF h, t
<1>12. t[Len(P) + 1] = NL
  BY <1>2, <1>3, <1>4, <1>5, <1>8, <1>10, <1>11
<1>13. \A i \in Len(P) + 2 .. end : t[i] # NL
  <2> SUFFICES ASSUME NEW i \in Len(P) + 2 .. end PROVE t[i] # NL
    OBVIOUS
  <2>1. i \in 1 .. Len(g) /\ ~(i <= Len(h)) /\ i - Len(h) \in 1 .. Len(r)
    BY <1>2, <1>3, <1>4, <1>5, <1>7
  <2>2. t[i] = r[i - Len(h)]
    BY <1>5, <1>8, <1>10, <2>1
  <2>3. r[i - Len(h)] \in Chars
    BY <1>1, <2>1, ElementOfSeq
  <2>4. QED
    BY <2>2, <2>3 DEF Chars
<1>14. end = Len(t) \/ t[end + 1] = NL
  <2>1. end = Len(g) /\ Len(g) \in Nat /\ Len(t) = Len(g) + Len(X)
    BY <1>2, <1>3, <1>4, <1>5, <1>6
  <2> HIDE DEF end
  <2>2. CASE X = <<>>
    BY <1>2, <2>1, <2>2
  <2>3. CASE X # <<>>
    BY <1>9, <2>1, <2>3
  <2>4. QED
    BY <2>2, <2>3
<1>15. SubSeq(t, 1, Len(P)) = P
  <2>1. t = Cat(P, Cat(Cat(EndOfLine, r), X))
    <3>1. Cat(EndOfLine, r) \in Seq(Bytes) /\ g = Cat(P, Cat(EndOfLine, r))
      BY <1>1, EndOfLineSound, CatSound, CatAssoc DEF g, h
    <3>2. QED
      BY <3>1, CatAssoc DEF t
  <2>2. Cat(Cat(EndOfLine, r), X) \in Seq(Bytes)
    BY <1>1, EndOfLineSound, CatSound
  <2>3. QED
    BY <2>1, <2>2, CatParts
<1>16. SubSeq(t, end + 1, Len(t)) = X
  <2>1. SubSeq(t, Len(g) + 1, Len(t)) = X
    BY <1>5, CatParts DEF t
  <2>2. end = Len(g)
    BY <1>2, <1>3, <1>4, <1>5
  <2>3. QED
    BY <2>1, <2>2
<1>17. SubSeq(t, Len(P) + 2, k) = b
  <2>1. g = Cat(Cat(h, b), f) /\ Cat(h, b) \in Seq(Bytes)
    BY <1>1, <1>4, CatSound, CatAssoc DEF g, r
  <2>2. t = Cat(Cat(h, b), Cat(f, X)) /\ Cat(f, X) \in Seq(Bytes)
    BY <1>1, <2>1, CatSound, CatAssoc DEF t
  <2>3. SubSeq(t, Len(h) + 1, Len(h) + Len(b)) = b
    BY <1>1, <1>4, <2>2, CatMiddle
  <2>4. Len(P) + 2 = Len(h) + 1 /\ k = Len(h) + Len(b)
    BY <1>2, <1>4
  <2>5. QED
    BY <2>3, <2>4
<1>18. Len(P) \in {p - 1, p} \cap (0 .. Len(t) - 1) /\ end \in Len(P) + 1 .. Len(t) /\ k \in Len(P) + 1 .. end
  BY <1>2, <1>3, <1>7
<1>19. Cat(Cat(P, b), X) = SubSeq(t, 1, Len(P)) \o SubSeq(t, Len(P) + 2, k) \o SubSeq(t, end + 1, Len(t))
  BY <1>15, <1>16, <1>17 DEF Cat
<1> HIDE DEF end, k
<1>20. JoinedText(t, p, Cat(Cat(P, b), X), Len(P))
  BY <1>12, <1>13, <1>14, <1>18, <1>19 DEF JoinedText
<1>21. QED
  BY <1>20 DEF t, g, h, r

Changed(t, p, u, q) == Moved(t, p, u, q) \/ Inserted(t, p, u, q) \/ Erased(t, p, u, q) \/ JoinedText(t, p, u, q)

(* Facts about a place, as each key finds it. *)
LEMMA PlaceSound ==
  ASSUME NEW rs, NEW l, NEW c, Placed(rs, l, c)
  PROVE  /\ rs \in Sheets /\ Len(rs) \in Nat \ {0} /\ l \in 1 .. Len(rs)
         /\ rs[l] \in RowSet /\ rs[l] \in Seq(Chars) /\ rs[l] \in Seq(Bytes) /\ Len(rs[l]) \in Nat /\ Len(rs[l]) < MaxCols
         /\ c \in 0 .. Len(rs[l])
         /\ Above(rs)[l] \in Seq(Bytes) /\ Len(Above(rs)[l]) \in Nat
         /\ MaxCols \in Nat
<1>1. rs \in Sheets /\ l \in 1 .. Len(rs) /\ c \in 0 .. Len(rs[l])
  BY DEF Placed
<1>2. Above(rs)[l] \in Seq(Bytes)
  BY <1>1, AboveIs
<1>3. Len(Above(rs)[l]) \in Nat
  BY <1>2, TextLen
<1>4. QED
  BY <1>1, <1>2, <1>3, SheetSound, EditorAssumption

(* A row is replaced by one whose text begins and ends as before.          *)
LEMMA RowRewritten ==
  ASSUME NEW rs, NEW l, NEW c, Placed(rs, l, c), NEW r \in Seq(Chars), Len(r) < MaxCols, NEW d \in 0 .. Len(r)
  PROVE  /\ Placed(Put(rs, l, r), l, d)
         /\ Pos(Put(rs, l, r), l, d) = Len(Above(rs)[l]) + d
         /\ \E X \in Seq(Bytes) :
              /\ Flat(rs) = Cat(Cat(Above(rs)[l], rs[l]), X)
              /\ Flat(Put(rs, l, r)) = Cat(Cat(Above(rs)[l], r), X)
<1>1. rs \in Sheets /\ l \in 1 .. Len(rs) /\ Len(rs) <= MaxLines
  BY DEF Placed
<1>2. r \in RowSet
  BY DEF RowSet
<1>3. /\ Put(rs, l, r) \in Sheets /\ Len(Put(rs, l, r)) = Len(rs)
      /\ Put(rs, l, r)[l] = r /\ Above(Put(rs, l, r))[l] = Above(rs)[l]
  BY <1>1, <1>2, RowReplaced
<1>4. \E X \in Seq(Bytes) :
        /\ Flat(rs) = Cat(Cat(Above(rs)[l], rs[l]), X)
        /\ Flat(Put(rs, l, r)) = Cat(Cat(Above(rs)[l], r), X)
  BY <1>1, <1>2, RowReplaced
<1>5. Placed(Put(rs, l, r), l, d) /\ Pos(Put(rs, l, r), l, d) = Len(Above(rs)[l]) + d
  BY <1>1, <1>3 DEF Placed, Pos
<1>6. QED
  BY <1>4, <1>5

(* Characters put in at the cursor. *)
LEMMA KeyInserts ==
  ASSUME NEW rs, NEW l, NEW c, Placed(rs, l, c), NEW s \in Seq(Chars), Len(s) \in 1 .. 3,
         Len(rs[l]) + Len(s) < MaxCols, NEW d \in c + 1 .. c + Len(s),
         NEW qs, qs = [rs EXCEPT ![l] = Before(@, c) \o s \o From(@, c)]
  PROVE  Placed(qs, l, d) /\ Inserted(Flat(rs), Pos(rs, l, c), Flat(qs), Pos(qs, l, d))
<1> DEFINE U == Above(rs)[l]
           b == Before(rs[l], c)
           f == From(rs[l], c)
           r == Cat(Cat(b, s), f)
<1>1. /\ rs \in Sheets /\ l \in 1 .. Len(rs) /\ rs[l] \in Seq(Chars) /\ Len(rs[l]) \in Nat
      /\ c \in 0 .. Len(rs[l]) /\ U \in Seq(Bytes) /\ Len(U) \in Nat /\ MaxCols \in Nat
  BY PlaceSound
<1>2. b \in Seq(Chars) /\ f \in Seq(Chars) /\ Len(b) = c /\ Len(f) = Len(rs[l]) - c /\ rs[l] = Cat(b, f)
  BY <1>1, RowCut
<1> HIDE DEF b, f, U
<1>3. b \in Seq(Bytes) /\ f \in Seq(Bytes) /\ s \in Seq(Bytes) /\ Cat(b, s) \in Seq(Bytes) /\ Cat(b, s) \in Seq(Chars) /\ r \in Seq(Chars)
  BY <1>2, CharsText
<1>4. Len(r) = Len(rs[l]) + Len(s)
  <2>1. Len(Cat(b, s)) = Len(b) + Len(s) /\ Len(r) = Len(Cat(b, s)) + Len(f)
    BY <1>3, CatSound
  <2> HIDE DEF r
  <2>2. Len(s) \in Nat /\ c \in Nat
    BY <1>1
  <2>3. Len(r) = c + Len(s) + (Len(rs[l]) - c)
    BY <1>2, <2>1
  <2>4. PICK n \in Nat : n = Len(rs[l])
    BY <1>1
  <2>5. c + Len(s) + (n - c) = n + Len(s)
    BY <2>2
  <2>6. QED
    BY <2>3, <2>4, <2>5
<1>5. qs = Put(rs, l, r)
  <2>1. qs = [rs EXCEPT ![l] = Before(rs[l], c) \o s \o From(rs[l], c)]
    OBVIOUS
  <2>2. QED
    BY <2>1 DEF Put, Cat, b, f
<1> HIDE DEF r
<1>6. d \in 0 .. Len(r) /\ Len(r) < MaxCols
  BY <1>1, <1>4
<1>7. /\ Placed(qs, l, d) /\ Pos(qs, l, d) = Len(U) + d
      /\ \E X \in Seq(Bytes) : Flat(rs) = Cat(Cat(U, rs[l]), X) /\ Flat(qs) = Cat(Cat(U, r), X)
  <2>1. /\ Placed(Put(rs, l, r), l, d) /\ Pos(Put(rs, l, r), l, d) = Len(Above(rs)[l]) + d
        /\ \E X \in Seq(Bytes) :
             Flat(rs) = Cat(Cat(Above(rs)[l], rs[l]), X) /\ Flat(Put(rs, l, r)) = Cat(Cat(Above(rs)[l], r), X)
    BY <1>3, <1>6, RowRewritten
  <2>2. QED
    BY <1>5, <2>1 DEF U
<1>8. PICK X \in Seq(Bytes) : Flat(rs) = Cat(Cat(U, rs[l]), X) /\ Flat(qs) = Cat(Cat(U, r), X)
  BY <1>7
<1> DEFINE P == Cat(U, b)
           Q == Cat(f, X)
<1>9. P \in Seq(Bytes) /\ Q \in Seq(Bytes) /\ Len(P) = Len(U) + Len(b)
  BY <1>1, <1>3, CatSound
<1>10. Flat(rs) = Cat(P, Q)
  <2>1. Cat(U, rs[l]) = Cat(P, f)
    BY <1>1, <1>2, <1>3, CatAssoc
  <2> HIDE DEF P
  <2>2. Cat(Cat(P, f), X) = Cat(P, Q)
    BY <1>3, <1>9, CatAssoc
  <2>3. QED
    BY <1>8, <2>1, <2>2
<1>11. Flat(qs) = Cat(Cat(P, s), Q)
  <2>1. Cat(U, r) = Cat(Cat(U, Cat(b, s)), f)
    BY <1>1, <1>3, CatAssoc DEF r
  <2>2. Cat(U, Cat(b, s)) = Cat(P, s)
    BY <1>1, <1>3, CatAssoc
  <2> HIDE DEF P
  <2>3. Cat(P, s) \in Seq(Bytes)
    BY <1>3, <1>9, CatSound
  <2>4. Cat(Cat(Cat(P, s), f), X) = Cat(Cat(P, s), Q)
    BY <1>3, <2>3, CatAssoc
  <2>5. QED
    BY <1>8, <2>1, <2>2, <2>4
<1>12. Pos(rs, l, c) = Len(P) /\ Pos(qs, l, d) \in Len(P) + 1 .. Len(P) + Len(s)
  <2>1. Len(P) = Len(U) + c
    BY <1>2, <1>9
  <2>2. Pos(rs, l, c) = Len(U) + c
    BY DEF Pos, U
  <2>3. Len(s) \in Nat /\ d \in Nat /\ c \in Nat
    BY <1>1
  <2> HIDE DEF P
  <2>4. Pos(qs, l, d) = Len(U) + d
    BY <1>7
  <2>5. QED
    BY <1>1, <2>1, <2>2, <2>3, <2>4
<1> HIDE DEF P, Q
<1>13. Inserted(Cat(P, Q), Len(P), Cat(Cat(P, s), Q), Pos(qs, l, d))
  BY <1>3, <1>9, <1>12, TextInserted
<1>14. QED
  BY <1>7, <1>10, <1>11, <1>12, <1>13

(* The character before or behind the cursor taken out. *)
LEMMA KeyErases ==
  ASSUME NEW rs, NEW l, NEW c, Placed(rs, l, c), NEW e \in 0 .. Len(rs[l]) - 1, e = c \/ e = c - 1,
         NEW qs, qs = [rs EXCEPT ![l] = Before(@, e) \o From(@, e + 1)]
  PROVE  Placed(qs, l, e) /\ Erased(Flat(rs), Pos(rs, l, c), Flat(qs), Pos(qs, l, e))
<1> DEFINE U == Above(rs)[l]
           b == Before(rs[l], e)
           x == <<rs[l][e + 1]>>
           f == From(rs[l], e + 1)
           r == Cat(b, f)
<1>1. /\ rs \in Sheets /\ l \in 1 .. Len(rs) /\ rs[l] \in Seq(Chars) /\ Len(rs[l]) \in Nat /\ Len(rs[l]) < MaxCols
      /\ c \in 0 .. Len(rs[l]) /\ U \in Seq(Bytes) /\ Len(U) \in Nat /\ MaxCols \in Nat
  BY PlaceSound
<1>2. e \in 0 .. Len(rs[l]) /\ e + 1 \in 0 .. Len(rs[l]) /\ e + 1 \in 1 .. Len(rs[l]) /\ Len(rs[l]) \in e + 1 .. Len(rs[l])
  BY <1>1
<1>3. /\ b \in Seq(Chars) /\ Len(b) = e /\ rs[l] = Cat(b, From(rs[l], e))
      /\ f \in Seq(Chars) /\ Len(f) = Len(rs[l]) - (e + 1)
  BY <1>1, <1>2, RowCut
<1>4. From(rs[l], e) = Cat(x, f)
  BY <1>1, <1>2, SubSeqRecursiveFirst DEF From, Cat
<1>5. x \in Seq(Chars) /\ Len(x) = 1
  <2>1. rs[l][e + 1] \in Chars
    BY <1>1, <1>2, ElementOfSeq
  <2>2. QED
    BY <2>1
<1> HIDE DEF b, f, U, x
<1>6. b \in Seq(Bytes) /\ f \in Seq(Bytes) /\ x \in Seq(Bytes) /\ r \in Seq(Chars)
  BY <1>3, <1>5, CharsText
<1>7. e \in 0 .. Len(r) /\ Len(r) < MaxCols
  <2>1. Len(r) = Len(b) + Len(f)
    BY <1>6, CatSound
  <2> HIDE DEF r
  <2>2. PICK n \in Nat : n = Len(rs[l])
    BY <1>1
  <2>3. Len(r) = e + (n - (e + 1)) /\ e \in 0 .. n - 1 /\ n < MaxCols
    BY <1>1, <1>3, <2>1, <2>2
  <2>4. QED
    BY <1>1, <2>3
<1>8. qs = Put(rs, l, r)
  <2>1. qs = [rs EXCEPT ![l] = Before(rs[l], e) \o From(rs[l], e + 1)]
    OBVIOUS
  <2>2. QED
    BY <2>1 DEF Put, Cat, b, f
<1> HIDE DEF r
<1>9. /\ Placed(qs, l, e) /\ Pos(qs, l, e) = Len(U) + e
      /\ \E X \in Seq(Bytes) : Flat(rs) = Cat(Cat(U, rs[l]), X) /\ Flat(qs) = Cat(Cat(U, r), X)
  <2>1. /\ Placed(Put(rs, l, r), l, e) /\ Pos(Put(rs, l, r), l, e) = Len(Above(rs)[l]) + e
        /\ \E X \in Seq(Bytes) :
             Flat(rs) = Cat(Cat(Above(rs)[l], rs[l]), X) /\ Flat(Put(rs, l, r)) = Cat(Cat(Above(rs)[l], r), X)
    <3>1. r \in Seq(Chars)
      BY <1>6
    <3>2. QED
      BY <1>7, <3>1, RowRewritten
  <2>2. QED
    BY <1>8, <2>1 DEF U
<1>10. PICK X \in Seq(Bytes) : Flat(rs) = Cat(Cat(U, rs[l]), X) /\ Flat(qs) = Cat(Cat(U, r), X)
  BY <1>9
<1> DEFINE P == Cat(U, b)
           Q == Cat(f, X)
<1>11. P \in Seq(Bytes) /\ Q \in Seq(Bytes) /\ Len(P) = Len(U) + e
  BY <1>1, <1>3, <1>6, CatSound
<1>12. Flat(rs) = Cat(Cat(P, x), Q)
  <2>1. Cat(x, f) \in Seq(Bytes) /\ rs[l] = Cat(b, Cat(x, f))
    BY <1>3, <1>4, <1>6, CatSound
  <2>2. Cat(U, rs[l]) = Cat(P, Cat(x, f))
    BY <1>1, <1>6, <2>1, CatAssoc
  <2> HIDE DEF P
  <2>3. Cat(P, Cat(x, f)) = Cat(Cat(P, x), f) /\ Cat(P, x) \in Seq(Bytes)
    BY <1>6, <1>11, CatAssoc, CatSound
  <2>4. Cat(Cat(Cat(P, x), f), X) = Cat(Cat(P, x), Q)
    BY <1>6, <2>3, CatAssoc
  <2>5. QED
    BY <1>10, <2>2, <2>3, <2>4
<1>13. Flat(qs) = Cat(P, Q)
  <2>1. Cat(U, r) = Cat(P, f)
    BY <1>1, <1>6, CatAssoc DEF r
  <2> HIDE DEF P
  <2>2. Cat(Cat(P, f), X) = Cat(P, Q)
    BY <1>6, <1>11, CatAssoc
  <2>3. QED
    BY <1>10, <2>1, <2>2
<1> HIDE DEF P, Q
<1>14. Pos(rs, l, c) \in {Len(P), Len(P) + 1} /\ Pos(qs, l, e) = Len(P)
  <2>1. Pos(rs, l, c) = Len(U) + c
    BY DEF Pos, U
  <2>2. c \in Nat /\ e \in Nat /\ Len(U) \in Nat
    BY <1>1, <1>2
  <2>3. Len(U) + c = Len(U) + e \/ Len(U) + c = Len(U) + e + 1
    BY <2>2
  <2>4. QED
    BY <1>9, <1>11, <2>1, <2>2, <2>3
<1>15. Erased(Cat(Cat(P, x), Q), Pos(rs, l, c), Cat(P, Q), Len(P))
  BY <1>5, <1>6, <1>11, <1>14, TextErased
<1>16. QED
  BY <1>9, <1>12, <1>13, <1>14, <1>15

(* A row divided at the cursor. *)
SplitRows(rs, l, c) ==
  [i \in 1 .. Len(rs) + 1 |->
     IF i < l THEN rs[i] ELSE IF i = l THEN Before(rs[l], c)
     ELSE IF i = l + 1 THEN From(rs[l], c) ELSE rs[i - 1]]

LEMMA KeySplits ==
  ASSUME NEW rs, NEW l, NEW c, Placed(rs, l, c), Len(rs) < MaxLines
  PROVE  /\ Placed(SplitRows(rs, l, c), l + 1, 0)
         /\ Inserted(Flat(rs), Pos(rs, l, c), Flat(SplitRows(rs, l, c)), Pos(SplitRows(rs, l, c), l + 1, 0))
<1> DEFINE U == Above(rs)[l]
           b == Before(rs[l], c)
           f == From(rs[l], c)
           qs == SplitRows(rs, l, c)
<1>1. /\ rs \in Sheets /\ Len(rs) \in Nat \ {0} /\ l \in 1 .. Len(rs) /\ l \in Nat /\ rs[l] \in Seq(Chars)
      /\ Len(rs[l]) \in Nat /\ Len(rs[l]) < MaxCols
      /\ c \in 0 .. Len(rs[l]) /\ U \in Seq(Bytes) /\ Len(U) \in Nat /\ MaxCols \in Nat /\ MaxLines \in Nat
  <2>1. MaxLines \in Nat
    BY EditorAssumption
  <2>2. QED
    BY <2>1, PlaceSound
<1>2. b \in Seq(Chars) /\ f \in Seq(Chars) /\ Len(b) = c /\ Len(f) = Len(rs[l]) - c /\ rs[l] = Cat(b, f)
  BY <1>1, RowCut
<1>3. b \in Seq(Bytes) /\ f \in Seq(Bytes)
  BY <1>2, CharsText
<1>4. b \in RowSet /\ f \in RowSet
  <2>1. PICK n \in Nat : n = Len(rs[l])
    BY <1>1
  <2>2. c < MaxCols /\ n - c < MaxCols
    BY <1>1, <2>1
  <2>3. QED
    BY <1>2, <2>1, <2>2 DEF RowSet
<1>5. qs \in Sheets /\ Len(qs) = Len(rs) + 1
  <2>1. Len(rs) + 1 \in Nat \ {0}
    BY <1>1
  <2>2. \A i \in 1 .. Len(rs) : rs[i] \in RowSet
    BY <1>1, SheetSound
  <2> HIDE DEF b, f
  <2>3. qs = [i \in 1 .. Len(rs) + 1 |->
                IF i < l THEN rs[i] ELSE IF i = l THEN b ELSE IF i = l + 1 THEN f ELSE rs[i - 1]]
    BY DEF SplitRows, b, f
  <2> HIDE DEF qs
  <2>4. qs \in [1 .. Len(rs) + 1 -> RowSet]
    BY <1>1, <1>4, <2>2, <2>3
  <2>5. QED
    BY <2>1, <2>4, MadeSheet
<1>6. /\ l + 1 \in 1 .. Len(rs) + 1 /\ l \in 1 .. Len(qs) - 1 /\ l + 1 \in 1 .. Len(qs) /\ l <= Len(qs)
      /\ Len(qs) - (l + 1) = Len(rs) - l
  BY <1>1, <1>5
<1>7. qs[l] = b /\ qs[l + 1] = f /\ \A i \in 1 .. l - 1 : rs[i] = qs[i]
  BY <1>1, <1>6 DEF SplitRows
<1>8. \A i \in 1 .. Len(rs) - l : qs[(l + 1) + i] = rs[l + i]
  <2> SUFFICES ASSUME NEW i \in 1 .. Len(rs) - l PROVE qs[(l + 1) + i] = rs[l + i]
    OBVIOUS
  <2>1. /\ (l + 1) + i \in 1 .. Len(rs) + 1 /\ ~((l + 1) + i < l) /\ (l + 1) + i # l /\ (l + 1) + i # l + 1
        /\ ((l + 1) + i) - 1 = l + i
    BY <1>1
  <2>2. QED
    BY <2>1 DEF SplitRows
<1> HIDE DEF qs, b, f, U
<1>9. Above(qs)[l] = U
  BY <1>1, <1>5, <1>6, <1>7, SameAbove DEF U
<1>10. Above(qs)[l + 1] = Cat(Cat(U, b), EndOfLine)
  BY <1>5, <1>6, <1>7, <1>9, AboveNext
<1>11. PICK X \in Seq(Bytes) :
         /\ Flat(rs) = Cat(Cat(Above(rs)[l], rs[l]), X)
         /\ Flat(qs) = Cat(Cat(Above(qs)[l + 1], qs[l + 1]), X)
         /\ Behind(X, l = Len(rs))
  BY <1>1, <1>5, <1>6, <1>8, SameBehind
<1> DEFINE P == Cat(U, b)
           Q == Cat(f, X)
<1>12. P \in Seq(Bytes) /\ Q \in Seq(Bytes) /\ Len(P) = Len(U) + c
  BY <1>1, <1>2, <1>3, CatSound
<1>13. Flat(rs) = Cat(P, Q)
  <2>1. Cat(U, rs[l]) = Cat(P, f)
    BY <1>1, <1>2, <1>3, CatAssoc
  <2> HIDE DEF P
  <2>2. Cat(Cat(P, f), X) = Cat(P, Q)
    BY <1>3, <1>12, CatAssoc
  <2>3. QED
    BY <1>11, <2>1, <2>2 DEF U
<1>14. Flat(qs) = Cat(Cat(P, EndOfLine), Q)
  <2>1. Flat(qs) = Cat(Cat(Cat(P, EndOfLine), f), X)
    BY <1>7, <1>10, <1>11
  <2> HIDE DEF P
  <2>2. Cat(P, EndOfLine) \in Seq(Bytes)
    BY <1>12, EndOfLineSound, CatSound
  <2>3. Cat(Cat(Cat(P, EndOfLine), f), X) = Cat(Cat(P, EndOfLine), Q)
    BY <1>3, <2>2, CatAssoc
  <2>4. QED
    BY <2>1, <2>3
<1>15. Pos(rs, l, c) = Len(P) /\ Pos(qs, l + 1, 0) = Len(P) + 1
  <2>1. Len(Cat(P, EndOfLine)) = Len(P) + Len(EndOfLine)
    BY <1>12, EndOfLineSound, CatSound
  <2>2. Pos(rs, l, c) = Len(U) + c /\ Pos(qs, l + 1, 0) = Len(Cat(P, EndOfLine)) + 0
    BY <1>10 DEF Pos, U
  <2>3. Len(P) \in Nat
    BY <1>12, TextLen
  <2>4. QED
    BY <1>12, <2>1, <2>2, <2>3, EndOfLineSound
<1> HIDE DEF P, Q
<1>16. Inserted(Cat(P, Q), Len(P), Cat(Cat(P, EndOfLine), Q), Pos(qs, l + 1, 0))
  <2>1. Len(P) \in Nat
    BY <1>12, TextLen
  <2>2. Len(EndOfLine) \in 1 .. 3 /\ Pos(qs, l + 1, 0) \in Len(P) + 1 .. Len(P) + Len(EndOfLine)
    BY <1>15, <2>1, EndOfLineSound
  <2>3. QED
    BY <1>12, <2>2, EndOfLineSound, TextInserted
<1>17. Placed(qs, l + 1, 0)
  <2>1. Len(qs[l + 1]) \in Nat
    BY <1>3, <1>7, TextLen
  <2>2. QED
    BY <1>1, <1>5, <1>6, <2>1 DEF Placed
<1>18. QED
  BY <1>13, <1>14, <1>15, <1>16, <1>17 DEF qs

(* A row joined to the one above it, up to the room there. *)
JoinedRows(rs, l) ==
  [i \in 1 .. Len(rs) - 1 |->
     IF i < l - 1 THEN rs[i]
     ELSE IF i > l - 1 THEN rs[i + 1]
     ELSE rs[i] \o Before(rs[l], Least(Len(rs[l]), RoomIn(rs[i])))]

LEMMA KeyJoins ==
  ASSUME NEW rs \in Sheets, Len(rs) <= MaxLines, NEW l \in 2 .. Len(rs),
         NEW p \in {Pos(rs, l, 0), Pos(rs, l - 1, Len(rs[l - 1]))}
  PROVE  /\ Placed(JoinedRows(rs, l), l - 1, Len(rs[l - 1]))
         /\ JoinedText(Flat(rs), p, Flat(JoinedRows(rs, l)), Pos(JoinedRows(rs, l), l - 1, Len(rs[l - 1])))
<1> DEFINE g == l - 1
           U == Above(rs)[g]
           k == Least(Len(rs[l]), RoomIn(rs[g]))
           b == Before(rs[l], k)
           f == From(rs[l], k)
           r == Cat(rs[g], b)
           qs == JoinedRows(rs, l)
<1>1. /\ Len(rs) \in Nat \ {0} /\ l \in 1 .. Len(rs) /\ g \in 1 .. Len(rs) /\ g \in 1 .. Len(rs) - 1 /\ g + 1 = l
      /\ g \in Nat /\ MaxLines \in Nat
  BY SheetSound, EditorAssumption
<1>2. /\ rs[l] \in Seq(Chars) /\ rs[l] \in Seq(Bytes) /\ Len(rs[l]) \in Nat
      /\ rs[g] \in Seq(Chars) /\ rs[g] \in Seq(Bytes) /\ Len(rs[g]) \in Nat /\ Len(rs[g]) < MaxCols
      /\ U \in Seq(Bytes) /\ Len(U) \in Nat /\ MaxCols \in Nat
  <2>1. U \in Seq(Bytes)
    BY <1>1, AboveIs
  <2>2. QED
    BY <1>1, <2>1, SheetSound, TextLen, EditorAssumption
<1>3. k \in 0 .. Len(rs[l]) /\ Len(rs[g]) + k < MaxCols /\ k \in Nat
  <2>1. PICK n \in Nat : n = Len(rs[l])
    BY <1>2
  <2>2. PICK m \in Nat : m = Len(rs[g])
    BY <1>2
  <2>3. k = IF n < MaxCols - 1 - m THEN n ELSE MaxCols - 1 - m
    BY <2>1, <2>2 DEF Least, RoomIn
  <2>4. m < MaxCols
    BY <1>2, <2>2
  <2> HIDE DEF k
  <2>5. k \in 0 .. n /\ m + k < MaxCols /\ k \in Nat
    BY <1>2, <2>3, <2>4
  <2>6. QED
    BY <2>1, <2>2, <2>5
<1> HIDE DEF k
<1>4. b \in Seq(Chars) /\ f \in Seq(Chars) /\ Len(b) = k /\ rs[l] = Cat(b, f)
  BY <1>2, <1>3, RowCut
<1>5. b \in Seq(Bytes) /\ f \in Seq(Bytes) /\ r \in Seq(Chars)
  BY <1>2, <1>4, CharsText
<1> HIDE DEF b, f, U
<1>6. Len(r) = Len(rs[g]) + k /\ r \in RowSet
  <2>1. Len(r) = Len(rs[g]) + Len(b)
    BY <1>2, <1>5, CatSound
  <2> HIDE DEF r
  <2>2. QED
    BY <1>3, <1>4, <1>5, <2>1 DEF RowSet
<1>7. qs = [i \in 1 .. Len(rs) - 1 |-> IF i < g THEN rs[i] ELSE IF i > g THEN rs[i + 1] ELSE r]
  <2>1. qs = [i \in 1 .. Len(rs) - 1 |->
                IF i < g THEN rs[i] ELSE IF i > g THEN rs[i + 1]
                ELSE rs[i] \o Before(rs[l], Least(Len(rs[l]), RoomIn(rs[i])))]
    BY DEF JoinedRows
  <2>2. ASSUME NEW i \in 1 .. Len(rs) - 1, ~(i < g), ~(i > g)
        PROVE  rs[i] \o Before(rs[l], Least(Len(rs[l]), RoomIn(rs[i]))) = r
    <3>1. i = g
      BY <1>1, <2>2
    <3>2. QED
      BY <3>1 DEF Cat, b, k
  <2> HIDE DEF qs, r, g
  <2>3. QED
    BY <2>1, <2>2, Zenon
<1> HIDE DEF r, qs
<1>8. qs \in Sheets /\ Len(qs) = Len(rs) - 1
  <2>1. Len(rs) - 1 \in Nat \ {0}
    <3>1. PICK n \in Nat : n = Len(rs)
      BY <1>1
    <3>2. l \in 2 .. n
      BY <3>1
    <3>3. n - 1 \in Nat \ {0}
      BY <3>2
    <3>4. QED
      BY <3>1, <3>3
  <2>2. \A i \in 1 .. Len(rs) : rs[i] \in RowSet
    BY <1>1, SheetSound
  <2> HIDE DEF g
  <2>3. qs \in [1 .. Len(rs) - 1 -> RowSet]
    BY <1>1, <1>6, <1>7, <2>2
  <2>4. QED
    BY <2>1, <2>3, MadeSheet
<1> HIDE DEF g
<1>9. qs[g] = r /\ \A i \in 1 .. g - 1 : rs[i] = qs[i]
  BY <1>1, <1>7
<1>10. g \in 1 .. Len(qs) /\ g <= Len(qs) /\ Len(qs) - g = Len(rs) - l
  BY <1>1, <1>8
<1>11. \A i \in 1 .. Len(rs) - l : qs[g + i] = rs[l + i]
  <2> SUFFICES ASSUME NEW i \in 1 .. Len(rs) - l PROVE qs[g + i] = rs[l + i]
    OBVIOUS
  <2>1. g + i \in 1 .. Len(rs) - 1 /\ ~(g + i < g) /\ g + i > g /\ (g + i) + 1 = l + i
    <3>1. g \in Nat /\ l = g + 1 /\ Len(rs) \in Nat
      BY <1>1
    <3>2. i \in Nat \ {0} /\ i <= Len(rs) - (g + 1)
      BY <3>1
    <3>3. QED
      BY <3>1, <3>2
  <2>2. QED
    BY <1>7, <2>1
<1>12. Above(qs)[g] = U
  BY <1>1, <1>8, <1>9, <1>10, SameAbove DEF U
<1>13. PICK X \in Seq(Bytes) :
         /\ Flat(rs) = Cat(Cat(Above(rs)[l], rs[l]), X)
         /\ Flat(qs) = Cat(Cat(Above(qs)[g], qs[g]), X)
         /\ Behind(X, l = Len(rs))
  <2>1. \E X \in Seq(Bytes) :
         /\ Flat(rs) = Cat(Cat(Above(rs)[l], rs[l]), X)
         /\ Flat(qs) = Cat(Cat(Above(qs)[g], qs[g]), X)
         /\ Behind(X, l = Len(rs))
    <3>1. qs \in Sheets /\ l \in 1 .. Len(rs) /\ g \in 1 .. Len(qs) /\ Len(qs) - g = Len(rs) - l
      BY <1>1, <1>8, <1>10
    <3>2. QED
      BY <1>11, <3>1, SameBehind
  <2>2. QED
    BY <2>1
<1> DEFINE P == Cat(U, rs[g])
<1>14. P \in Seq(Bytes) /\ Len(P) = Len(U) + Len(rs[g]) /\ Len(P) \in Nat
  BY <1>2, CatSound, TextLen
<1>15. Above(rs)[l] = Cat(P, EndOfLine)
  <2>1. Above(rs)[g + 1] = Cat(Cat(Above(rs)[g], rs[g]), EndOfLine)
    BY <1>1, AboveNext
  <2>2. QED
    BY <1>1, <2>1 DEF U
<1>16. Flat(rs) = Cat(Cat(Cat(P, EndOfLine), Cat(b, f)), X)
  BY <1>4, <1>13, <1>15
<1>17. Flat(qs) = Cat(Cat(P, b), X)
  <2>1. Cat(U, r) = Cat(P, b)
    BY <1>2, <1>5, CatAssoc DEF r
  <2>2. QED
    BY <1>9, <1>12, <1>13, <2>1
<1>18. X = <<>> \/ X[1] = NL
  BY <1>13 DEF Behind
<1> HIDE DEF P
<1>19. Pos(qs, g, Len(rs[g])) = Len(P)
  BY <1>12, <1>14 DEF Pos
<1>20. p \in {Len(P), Len(P) + 1}
  <2>1. Pos(rs, g, Len(rs[g])) = Len(P)
    BY <1>14 DEF Pos, U
  <2>2. Pos(rs, l, 0) = Len(P) + 1
    <3>1. Len(Cat(P, EndOfLine)) = Len(P) + Len(EndOfLine)
      BY <1>14, EndOfLineSound, CatSound
    <3>2. Pos(rs, l, 0) = Len(Cat(P, EndOfLine)) + 0
      BY <1>15 DEF Pos
    <3>3. QED
      BY <1>14, <3>1, <3>2, EndOfLineSound
  <2>3. QED
    BY <2>1, <2>2 DEF g
<1>21. JoinedText(Flat(rs), p, Flat(qs), Len(P))
  BY <1>4, <1>14, <1>16, <1>17, <1>18, <1>20, TextJoined
<1>22. Placed(qs, g, Len(rs[g]))
  <2>1. Len(rs[g]) \in 0 .. Len(qs[g])
    BY <1>2, <1>3, <1>6, <1>9
  <2>2. QED
    BY <1>1, <1>8, <1>10, <2>1 DEF Placed
<1>23. QED
  BY <1>19, <1>21, <1>22 DEF g, qs



---------------------------------------------------------------------------
(* Keys *)

(* What every key keeps and does: the cursor stays in the rows, the text   *)
(* changes as TextBuffer lets it, and a changed text is marked.            *)
KeyKeeps ==
  /\ Placed(lines', curLine', curCol')
  /\ Changed(Flat(lines), Pos(lines, curLine, curCol), Flat(lines'), Pos(lines', curLine', curCol'))
  /\ dirty' = TRUE \/ (lines' = lines /\ dirty' = dirty)

LEMMA MoveKeeps ==
  ASSUME Placed(lines, curLine, curCol), NEW l \in 1 .. Len(lines), NEW c \in 0 .. Len(lines[l]), At(l, c)
  PROVE  KeyKeeps
<1>1. lines' = lines /\ curLine' = l /\ curCol' = c /\ dirty' = dirty
  BY DEF At
<1>2. Placed(lines, l, c) /\ lines \in Sheets
  BY DEF Placed
<1>3. Pos(lines, l, c) \in 0 .. Len(Flat(lines))
  BY <1>2, PosInText DEF Pos
<1>4. Changed(Flat(lines), Pos(lines, curLine, curCol), Flat(lines), Pos(lines, l, c))
  BY <1>3 DEF Changed, Moved
<1>5. QED
  BY <1>1, <1>2, <1>4, Zenon DEF KeyKeeps

(* Facts about the place of the cursor, with its row under its name. *)
LEMMA RowSound ==
  ASSUME Placed(lines, curLine, curCol)
  PROVE  /\ lines \in Sheets /\ Len(lines) \in Nat \ {0} /\ curLine \in 1 .. Len(lines) /\ curLine \in Nat
         /\ Row \in Seq(Chars) /\ Row \in Seq(Bytes) /\ Len(Row) \in Nat /\ Len(Row) < MaxCols
         /\ curCol \in 0 .. Len(Row) /\ curCol \in Nat /\ MaxCols \in Nat
         /\ \A l \in 1 .. Len(lines) : Len(lines[l]) \in Nat
BY PlaceSound, SheetSound DEF Row

(* The arrows, Home and End. *)
LEMMA ArrowsKeep ==
  ASSUME Placed(lines, curLine, curCol), Left \/ Right \/ Up \/ Down \/ Home \/ End
  PROVE  KeyKeeps
<1>1. PICK n \in Nat \ {0} : n = Len(lines)
  BY RowSound
<1>2. curLine \in 1 .. n /\ curLine \in Nat /\ curCol \in 0 .. Len(Row) /\ curCol \in Nat /\ Len(Row) \in Nat
  BY <1>1, RowSound
<1>3. \A l \in 1 .. n : Len(lines[l]) \in Nat /\ Len(lines[l]) \in 0 .. Len(lines[l]) /\ 0 \in 0 .. Len(lines[l])
                        /\ Clamped(l) \in 0 .. Len(lines[l])
  <2> SUFFICES ASSUME NEW l \in 1 .. n
               PROVE  Len(lines[l]) \in Nat /\ Len(lines[l]) \in 0 .. Len(lines[l]) /\ 0 \in 0 .. Len(lines[l])
                      /\ Clamped(l) \in 0 .. Len(lines[l])
    OBVIOUS
  <2>1. Len(lines[l]) \in Nat
    BY <1>1, RowSound
  <2>2. PICK m \in Nat : m = Len(lines[l])
    BY <2>1
  <2>3. QED
    BY <1>2, <2>2 DEF Clamped, Least
<1>4. ASSUME NEW l \in 1 .. n, NEW c \in 0 .. Len(lines[l]), At(l, c) PROVE KeyKeeps
  BY <1>1, <1>4, MoveKeeps
<1>5. At(curLine, curCol) => KeyKeeps
  BY <1>2, <1>4 DEF Row
<1>6. CASE Left
  <2>1. CASE curCol > 0
    <3>1. At(curLine, curCol - 1) /\ curCol - 1 \in 0 .. Len(lines[curLine])
      BY <1>2, <1>6, <2>1 DEF Left, Row
    <3>2. QED
      BY <1>2, <1>4, <3>1
  <2>2. CASE ~(curCol > 0) /\ curLine > 1
    <3>1. At(curLine - 1, Len(lines[curLine - 1])) /\ curLine - 1 \in 1 .. n
      BY <1>2, <1>6, <2>2 DEF Left
    <3>2. QED
      BY <1>3, <1>4, <3>1
  <2>3. QED
    BY <1>5, <1>6, <2>1, <2>2 DEF Left
<1>7. CASE Right
  <2>1. CASE curCol < Len(Row)
    <3>1. At(curLine, curCol + 1) /\ curCol + 1 \in 0 .. Len(lines[curLine])
      BY <1>2, <1>7, <2>1 DEF Right, Row
    <3>2. QED
      BY <1>2, <1>4, <3>1
  <2>2. CASE ~(curCol < Len(Row)) /\ curLine < n
    <3>1. At(curLine + 1, 0) /\ curLine + 1 \in 1 .. n
      BY <1>1, <1>2, <1>7, <2>2 DEF Right
    <3>2. QED
      BY <1>3, <1>4, <3>1
  <2>3. QED
    BY <1>1, <1>5, <1>7, <2>1, <2>2 DEF Right
<1>8. CASE Up
  <2>1. CASE curLine > 1
    <3>1. At(curLine - 1, Clamped(curLine - 1)) /\ curLine - 1 \in 1 .. n
      BY <1>2, <1>8, <2>1 DEF Up
    <3>2. QED
      BY <1>3, <1>4, <3>1
  <2>2. QED
    BY <1>5, <1>8, <2>1 DEF Up
<1>9. CASE Down
  <2>1. CASE curLine < n
    <3>1. At(curLine + 1, Clamped(curLine + 1)) /\ curLine + 1 \in 1 .. n
      BY <1>1, <1>2, <1>9, <2>1 DEF Down
    <3>2. QED
      BY <1>3, <1>4, <3>1
  <2>2. QED
    BY <1>1, <1>5, <1>9, <2>1 DEF Down
<1>10. CASE Home
  BY <1>2, <1>3, <1>4, <1>10 DEF Home
<1>11. CASE End
  BY <1>2, <1>3, <1>4, <1>11 DEF End, Row
<1>12. QED
  BY <1>6, <1>7, <1>8, <1>9, <1>10, <1>11

(* Characters for which there may be room. *)
LEMMA InsertKeeps ==
  ASSUME Placed(lines, curLine, curCol), NEW cs \in Seq(Chars), Len(cs) \in 1 .. 3,
         NEW back \in 0 .. Len(cs) - 1, InsertChars(cs, back)
  PROVE  KeyKeeps
<1> DEFINE n == Least(Len(cs), RoomIn(Row))
           s == SubSeq(cs, 1, n)
           d == curCol + n - (IF n = Len(cs) THEN back ELSE 0)
<1>1. PICK len \in 1 .. 3 : len = Len(cs)
  OBVIOUS
<1>2. PICK m \in Nat : m = Len(Row)
  BY RowSound
<1>3. m < MaxCols /\ curCol \in 0 .. m /\ curCol \in Nat /\ MaxCols \in Nat
  BY <1>2, RowSound
<1>4. n = IF len < MaxCols - 1 - m THEN len ELSE MaxCols - 1 - m
  BY <1>1, <1>2 DEF Least, RoomIn
<1>5. n \in 0 .. len /\ m + n < MaxCols
  <2> HIDE DEF n
  <2>1. QED
    BY <1>3, <1>4
<1>6. CASE n = 0
  <2>1. At(curLine, curCol)
    BY <1>6 DEF InsertChars
  <2>2. curLine \in 1 .. Len(lines) /\ curCol \in 0 .. Len(lines[curLine])
    BY RowSound DEF Row
  <2>3. QED
    BY <2>1, <2>2, MoveKeeps
<1>7. CASE n # 0
  <2>1. /\ lines' = [lines EXCEPT ![curLine] = Before(@, curCol) \o s \o From(@, curCol)]
        /\ curLine' = curLine /\ curCol' = d /\ dirty' = TRUE
    BY <1>7, Zenon DEF InsertChars, Edited
  <2>2. s \in Seq(Chars) /\ Len(s) = n
    <3> HIDE DEF n
    <3>1. \A i \in 1 .. n : cs[i] \in Chars
      BY <1>1, <1>5, ElementOfSeq
    <3>2. QED
      BY <1>1, <1>5, <3>1, SubSeqProperties
  <2> HIDE DEF s
  <2>3. d \in curCol + 1 .. curCol + n
    <3> HIDE DEF n
    <3>1. n \in Nat \ {0} /\ back \in 0 .. len - 1
      BY <1>1, <1>5, <1>7
    <3>2. QED
      BY <1>1, <1>3, <3>1
  <2> HIDE DEF d
  <2>4. Len(s) \in 1 .. 3 /\ Len(lines[curLine]) + Len(s) < MaxCols /\ d \in curCol + 1 .. curCol + Len(s)
    <3> HIDE DEF n
    <3>1. QED
      BY <1>2, <1>5, <1>7, <2>2, <2>3 DEF Row
  <2> HIDE DEF n
  <2>5. Placed(lines', curLine, d) /\ Inserted(Flat(lines), Pos(lines, curLine, curCol), Flat(lines'), Pos(lines', curLine, d))
    BY <2>1, <2>2, <2>4, KeyInserts
  <2>6. QED
    BY <2>1, <2>5, Zenon DEF KeyKeeps, Changed
<1>8. QED
  BY <1>6, <1>7

(* A closing bracket: typed, or passed over. *)
LEMMA BracketKeeps ==
  ASSUME Placed(lines, curLine, curCol), NEW c \in Chars, Bracket(c)
  PROVE  KeyKeeps
<1>1. CASE curCol < Len(Row) /\ Row[curCol + 1] = c
  <2>1. At(curLine, curCol + 1)
    BY <1>1 DEF Bracket
  <2>2. curLine \in 1 .. Len(lines) /\ curCol + 1 \in 0 .. Len(lines[curLine])
    <3>1. PICK m \in Nat : m = Len(Row)
      BY RowSound
    <3>2. curCol \in 0 .. m /\ curCol < m
      BY <1>1, <3>1, RowSound
    <3>3. curCol + 1 \in 0 .. m
      BY <3>2
    <3>4. QED
      BY <3>1, <3>3, RowSound DEF Row
  <2>3. QED
    BY <2>1, <2>2, MoveKeeps
<1>2. CASE ~(curCol < Len(Row) /\ Row[curCol + 1] = c)
  <2>1. InsertChars(<<c>>, 0)
    BY <1>2, Zenon DEF Bracket
  <2>2. <<c>> \in Seq(Chars) /\ Len(<<c>>) \in 1 .. 3 /\ 0 \in 0 .. Len(<<c>>) - 1
    OBVIOUS
  <2>3. QED
    BY <2>1, <2>2, InsertKeeps
<1>3. QED
  BY <1>1, <1>2

(* A row joined to the one above: the cursor is at its start, or at the    *)
(* end of the one above.                                                   *)
LEMMA JoinKeeps ==
  ASSUME Placed(lines, curLine, curCol), NEW l \in 2 .. Len(lines), JoinLine(l),
         Pos(lines, curLine, curCol) \in {Pos(lines, l, 0), Pos(lines, l - 1, Len(lines[l - 1]))}
  PROVE  KeyKeeps
<1>1. lines' = JoinedRows(lines, l) /\ curLine' = l - 1 /\ curCol' = Len(lines[l - 1]) /\ dirty' = TRUE
  BY DEF JoinLine, Edited, Joined, JoinedRows
<1>2. lines \in Sheets /\ Len(lines) <= MaxLines
  BY DEF Placed
<1>3. /\ Placed(JoinedRows(lines, l), l - 1, Len(lines[l - 1]))
      /\ JoinedText(Flat(lines), Pos(lines, curLine, curCol), Flat(JoinedRows(lines, l)),
                    Pos(JoinedRows(lines, l), l - 1, Len(lines[l - 1])))
  BY <1>2, KeyJoins
<1>4. QED
  BY <1>1, <1>3, Zenon DEF KeyKeeps, Changed

(* A character of the row taken out. *)
LEMMA RemoveKeeps ==
  ASSUME Placed(lines, curLine, curCol), NEW e \in 0 .. Len(Row) - 1, e = curCol \/ e = curCol - 1,
         Edited(RemoveAt0(e), curLine, e)
  PROVE  KeyKeeps
<1>1. lines' = RemoveAt0(e) /\ curLine' = curLine /\ curCol' = e /\ dirty' = TRUE
  BY DEF Edited
<1>2. lines' = [lines EXCEPT ![curLine] = Before(@, e) \o From(@, e + 1)]
  BY <1>1, Zenon DEF RemoveAt0
<1>3. e \in 0 .. Len(lines[curLine]) - 1
  BY DEF Row
<1>4. Placed(lines', curLine, e) /\ Erased(Flat(lines), Pos(lines, curLine, curCol), Flat(lines'), Pos(lines', curLine, e))
  BY <1>2, <1>3, KeyErases
<1>5. QED
  BY <1>1, <1>4, Zenon DEF KeyKeeps, Changed

LEMMA BackSpaceKeeps ==
  ASSUME Placed(lines, curLine, curCol), BackSpace
  PROVE  KeyKeeps
<1>1. PICK m \in Nat : m = Len(Row)
  BY RowSound
<1>2. curCol \in 0 .. m
  BY <1>1, RowSound
<1>3. CASE curCol > 0
  <2>1. curCol - 1 \in 0 .. m - 1
    BY <1>2, <1>3
  <2>2. Edited(RemoveAt0(curCol - 1), curLine, curCol - 1)
    BY <1>3 DEF BackSpace
  <2>3. QED
    BY <1>1, <2>1, <2>2, RemoveKeeps
<1>4. CASE ~(curCol > 0) /\ curLine > 1
  <2>1. JoinLine(curLine)
    BY <1>4 DEF BackSpace
  <2>2. curLine \in 2 .. Len(lines) /\ curCol = 0
    BY <1>2, <1>4, RowSound
  <2>3. QED
    BY <2>1, <2>2, JoinKeeps
<1>5. CASE ~(curCol > 0) /\ ~(curLine > 1)
  <2>1. At(curLine, curCol)
    BY <1>5 DEF BackSpace
  <2>2. curLine \in 1 .. Len(lines) /\ curCol \in 0 .. Len(lines[curLine])
    BY RowSound DEF Row
  <2>3. QED
    BY <2>1, <2>2, MoveKeeps
<1>6. QED
  BY <1>3, <1>4, <1>5

LEMMA DeleteKeeps ==
  ASSUME Placed(lines, curLine, curCol), Delete
  PROVE  KeyKeeps
<1>1. PICK m \in Nat : m = Len(Row)
  BY RowSound
<1>2. curCol \in 0 .. m
  BY <1>1, RowSound
<1>3. CASE curCol < m
  <2>1. curCol \in 0 .. m - 1
    BY <1>2, <1>3
  <2>2. Edited(RemoveAt0(curCol), curLine, curCol)
    BY <1>1, <1>3 DEF Delete
  <2>3. QED
    BY <1>1, <2>1, <2>2, RemoveKeeps
<1>4. CASE ~(curCol < m) /\ curLine < Len(lines)
  <2>1. JoinLine(curLine + 1)
    BY <1>1, <1>4 DEF Delete
  <2>2. PICK n \in Nat : n = Len(lines)
    BY RowSound
  <2>3. curLine + 1 \in 2 .. n /\ (curLine + 1) - 1 = curLine
    BY <1>4, <2>2, RowSound
  <2>4. curCol = Len(lines[curLine])
    BY <1>1, <1>2, <1>4 DEF Row
  <2>5. Pos(lines, curLine, curCol) = Pos(lines, (curLine + 1) - 1, Len(lines[(curLine + 1) - 1]))
    BY <2>3, <2>4
  <2>6. QED
    BY <2>1, <2>2, <2>3, <2>5, JoinKeeps
<1>5. CASE ~(curCol < m) /\ ~(curLine < Len(lines))
  <2>1. At(curLine, curCol)
    BY <1>1, <1>5 DEF Delete
  <2>2. curLine \in 1 .. Len(lines) /\ curCol \in 0 .. Len(lines[curLine])
    BY RowSound DEF Row
  <2>3. QED
    BY <2>1, <2>2, MoveKeeps
<1>6. QED
  BY <1>3, <1>4, <1>5

LEMMA SplitKeeps ==
  ASSUME Placed(lines, curLine, curCol), SplitLine
  PROVE  KeyKeeps
<1>1. CASE Len(lines) >= MaxLines
  <2>1. At(curLine, curCol)
    BY <1>1 DEF SplitLine
  <2>2. curLine \in 1 .. Len(lines) /\ curCol \in 0 .. Len(lines[curLine])
    BY RowSound DEF Row
  <2>3. QED
    BY <2>1, <2>2, MoveKeeps
<1>2. CASE ~(Len(lines) >= MaxLines)
  <2>1. lines' = SplitRows(lines, curLine, curCol) /\ curLine' = curLine + 1 /\ curCol' = 0 /\ dirty' = TRUE
    BY <1>2, Zenon DEF SplitLine, Edited, SplitRows, Row
  <2>2. Len(lines) < MaxLines
    BY <1>2, RowSound, EditorAssumption
  <2>3. /\ Placed(SplitRows(lines, curLine, curCol), curLine + 1, 0)
        /\ Inserted(Flat(lines), Pos(lines, curLine, curCol), Flat(SplitRows(lines, curLine, curCol)),
                    Pos(SplitRows(lines, curLine, curCol), curLine + 1, 0))
    BY <2>2, KeySplits
  <2>4. QED
    BY <2>1, <2>3, Zenon DEF KeyKeeps, Changed
<1>3. QED
  BY <1>1, <1>2

(* Every key. *)
LEMMA EveryKeyKeeps ==
  ASSUME Placed(lines, curLine, curCol), KeyDone
  PROVE  KeyKeeps
<1>1. /\ " " \in Chars /\ "(" \in Chars /\ ")" \in Chars /\ "{" \in Chars /\ "}" \in Chars
      /\ \A c \in Plain : c \in Chars
  BY BytesAssumption, Zenon
<1>2. CASE Left \/ Right \/ Up \/ Down \/ Home \/ End
  BY <1>2, ArrowsKeep
<1>3. CASE BackSpace \/ Delete \/ SplitLine
  BY <1>3, BackSpaceKeeps, DeleteKeeps, SplitKeeps
<1>4. CASE InsertChars([i \in 1 .. TabWidth |-> " "], 0)
  <2>1. PICK blank \in Chars : blank = " "
    BY <1>1, Zenon
  <2> DEFINE tab == [i \in 1 .. TabWidth |-> blank]
  <2>2. tab = [i \in 1 .. TabWidth |-> " "]
    BY <2>1, Zenon
  <2>3. tab \in Seq(Chars) /\ Len(tab) = 3
    BY DEF TabWidth
  <2> HIDE DEF tab
  <2>4. Len(tab) \in 1 .. 3 /\ 0 \in 0 .. Len(tab) - 1
    BY <2>3
  <2>5. InsertChars(tab, 0)
    BY <1>4, <2>2, Zenon
  <2>6. QED
    BY <2>3, <2>4, <2>5, InsertKeeps
<1>5. ASSUME NEW c \in DOMAIN Closing, InsertChars(<<c, Closing[c]>>, 1) PROVE KeyKeeps
  <2>1. c \in Chars /\ Closing[c] \in Chars
    <3>1. c \in {"(", "{"} /\ Closing[c] = IF c = "(" THEN ")" ELSE "}"
      BY Zenon DEF Closing
    <3>2. QED
      BY <1>1, <3>1, Zenon
  <2>2. <<c, Closing[c]>> \in Seq(Chars) /\ Len(<<c, Closing[c]>>) \in 1 .. 3 /\ 1 \in 0 .. Len(<<c, Closing[c]>>) - 1
    BY <2>1
  <2>3. QED
    BY <1>5, <2>2, InsertKeeps
<1>6. ASSUME NEW c \in {")", "}"}, Bracket(c) PROVE KeyKeeps
  <2>1. c \in Chars
    BY <1>1, Zenon
  <2>2. QED
    BY <1>6, <2>1, BracketKeeps, Zenon
<1>7. ASSUME NEW c \in Plain, InsertChars(<<c>>, 0) PROVE KeyKeeps
  <2>1. c \in Chars
    BY <1>1, Zenon
  <2>2. <<c>> \in Seq(Chars) /\ Len(<<c>>) \in 1 .. 3 /\ 0 \in 0 .. Len(<<c>>) - 1
    BY <2>1
  <2>3. QED
    BY <1>7, <2>2, InsertKeeps
<1>8. QED
  BY <1>2, <1>3, <1>4, <1>5, <1>6, <1>7, Zenon DEF KeyDone

---------------------------------------------------------------------------
(* What is saved is read again *)

(* No CR is ever in the rows: what a file without CR is made of. *)
Clean == Bytes \ {CR}

LEMMA CleanText ==
  /\ \A s \in Seq(Chars) : s \in Seq(Clean)
  /\ EndOfLine \in Seq(Clean)
  /\ \A s, t \in Seq(Clean) : Cat(s, t) \in Seq(Clean)
<1>1. Chars \subseteq Clean
  BY DEF Chars, Clean
<1>2. NL \in Clean
  <2>1. NL # CR
    BY DEF CR, NL
  <2>2. QED
    BY EndOfLineSound, <2>1 DEF Clean
<1>3. \A s \in Seq(Chars) : s \in Seq(Clean)
  BY <1>1, SeqMonotonic
<1>4. EndOfLine \in Seq(Clean)
  BY <1>2 DEF EndOfLine
<1>5. \A s, t \in Seq(Clean) : Cat(s, t) \in Seq(Clean)
  BY DEF Cat
<1>6. QED
  BY <1>3, <1>4, <1>5

LEMMA FlatClean ==
  ASSUME NEW rs \in Sheets
  PROVE  Flat(rs) \in Seq(Clean)
<1> DEFINE S == {l \in 1 .. Len(rs) : Above(rs)[l] \in Seq(Clean)}
<1>1. PICK n \in Nat \ {0} : n = Len(rs)
  BY SheetSound
<1>2. \A l \in 1 .. n : rs[l] \in Seq(Clean)
  BY <1>1, SheetSound, CleanText
<1>3. 1 \in S
  <2>1. 1 \in 1 .. Len(rs)
    BY <1>1
  <2>2. Above(rs)[1] \in Seq(Clean)
    <3>1. Above(rs)[1] = <<>>
      BY AboveIs
    <3>2. QED
      BY <3>1, EmptySeq
  <2>3. QED
    BY <2>1, <2>2
<1>4. ASSUME NEW l \in 1 .. n - 1, l \in S PROVE l + 1 \in S
  <2>1. l \in 1 .. Len(rs) - 1 /\ l \in 1 .. n /\ l + 1 \in 1 .. Len(rs)
    BY <1>1
  <2>2. Above(rs)[l + 1] = Cat(Cat(Above(rs)[l], rs[l]), EndOfLine)
    BY <2>1, AboveNext
  <2>3. Above(rs)[l] \in Seq(Clean) /\ rs[l] \in Seq(Clean)
    BY <1>2, <1>4, <2>1
  <2>4. Cat(Above(rs)[l], rs[l]) \in Seq(Clean)
    BY <2>3, CleanText
  <2>5. Above(rs)[l + 1] \in Seq(Clean)
    BY <2>2, <2>4, CleanText
  <2>6. QED
    BY <2>1, <2>5
<1>5. \A l \in 1 .. n : l \in S
  <2> HIDE DEF S
  <2>1. 1 \in Nat /\ n \in Nat
    OBVIOUS
  <2>2. QED
    BY <1>3, <1>4, <2>1, UptoInd, ZenonT(30)
<1>6. n \in 1 .. n
  OBVIOUS
<1>7. Above(rs)[Len(rs)] \in Seq(Clean) /\ rs[Len(rs)] \in Seq(Clean)
  BY <1>1, <1>2, <1>5, <1>6
<1>8. QED
  BY <1>7, FlatIs, CleanText

(* The first characters of a text. *)
First(s, k) == SubSeq(s, 1, k)

LEMMA FirstSound ==
  ASSUME NEW s \in Seq(Bytes)
  PROVE  /\ First(s, 0) = <<>>
         /\ First(s, Len(s)) = s
         /\ \A k \in 1 .. Len(s) : Append(First(s, k - 1), s[k]) = First(s, k)
         /\ \A k \in 0 .. Len(s) : First(s, k) \in Seq(Bytes) /\ Len(First(s, k)) = k
<1>1. PICK n \in Nat : n = Len(s)
  BY TextLen
<1>2. \A k \in 1 .. n : s[k] \in Bytes
  BY <1>1, ElementOfSeq
<1>3. \A k \in 0 .. n : First(s, k) \in Seq(Bytes) /\ Len(First(s, k)) = k /\ First(s, k) = [i \in 1 .. k |-> s[i]]
  BY <1>1, <1>2, SubSeqProperties DEF First
<1>4. First(s, 0) = <<>>
  BY <1>1 DEF First
<1>5. First(s, n) = s
  BY <1>1, <1>3
<1>6. ASSUME NEW k \in 1 .. n PROVE Append(First(s, k - 1), s[k]) = First(s, k)
  <2>1. k - 1 \in 0 .. n /\ k \in 0 .. n
    OBVIOUS
  <2> DEFINE u == First(s, k - 1)
             v == First(s, k)
  <2>2. u \in Seq(Bytes) /\ Len(u) = k - 1 /\ v \in Seq(Bytes) /\ Len(v) = k /\ s[k] \in Bytes
    BY <1>2, <1>3, <2>1
  <2>3. \A i \in 1 .. k - 1 : u[i] = s[i]
    BY <1>3, <2>1
  <2>4. \A i \in 1 .. k : v[i] = s[i]
    BY <1>3, <2>1
  <2> HIDE DEF u, v
  <2> DEFINE w == Append(u, s[k])
  <2>5. w \in Seq(Bytes) /\ Len(w) = k /\ \A i \in 1 .. k : w[i] = IF i < k THEN u[i] ELSE s[k]
    BY <2>2, AppendProperties
  <2> HIDE DEF w
  <2>6. \A i \in 1 .. k : w[i] = v[i]
    BY <2>3, <2>4, <2>5
  <2>7. w = v
    BY <2>2, <2>5, <2>6, SeqEqual
  <2>8. QED
    BY <2>7 DEF u, v, w
<1>7. QED
  BY <1>1, <1>3, <1>4, <1>5, <1>6

(* A text without CR is left as it is. *)
LEMMA WithoutCRIs ==
  ASSUME NEW s \in Seq(Clean)
  PROVE  WithoutCR(s) = s
<1> DEFINE n == Len(s)
           Is(g) == g = [k \in 0 .. n |->
                           IF k = 0 THEN <<>> ELSE IF s[k] = CR THEN g[k - 1] ELSE Append(g[k - 1], s[k])]
           f == [k \in 0 .. n |-> First(s, k)]
           g == CHOOSE h : Is(h)
<1>1. s \in Seq(Bytes) /\ n \in Nat
  <2>1. Clean \subseteq Bytes
    BY DEF Clean
  <2>2. QED
    BY <2>1, SeqMonotonic, LenProperties
<1>2. \A k \in 1 .. n : s[k] # CR
  BY ElementOfSeq DEF Clean
<1>3. ASSUME NEW k \in 0 .. n
      PROVE  f[k] = IF k = 0 THEN <<>> ELSE IF s[k] = CR THEN f[k - 1] ELSE Append(f[k - 1], s[k])
  <2>1. CASE k = 0
    BY <1>1, <2>1, FirstSound
  <2>2. CASE k # 0
    <3>1. k \in 1 .. n /\ k - 1 \in 0 .. n
      BY <1>1, <2>2
    <3>2. f[k] = First(s, k) /\ f[k - 1] = First(s, k - 1)
      BY <3>1
    <3>3. Append(First(s, k - 1), s[k]) = First(s, k)
      BY <1>1, <3>1, FirstSound
    <3>4. QED
      BY <1>2, <2>2, <3>1, <3>2, <3>3
  <2>3. QED
    BY <2>1, <2>2
<1>4. Is(f)
  <2>1. f = [k \in 0 .. n |-> f[k]]
    OBVIOUS
  <2>2. QED
    BY <1>3, <2>1
<1>5. Is(g)
  <2> HIDE DEF Is
  <2>1. QED
    BY <1>4
<1>6. WithoutCR(s) = g[n]
  BY DEF WithoutCR, KeptAfter
<1> HIDE DEF g
<1> DEFINE S == {k \in 0 .. n : g[k] = First(s, k)}
<1>7. 0 \in S
  <2>1. 0 \in 0 .. n /\ g[0] = <<>>
    BY <1>1, <1>5
  <2>2. QED
    BY <1>1, <2>1, FirstSound
<1>8. ASSUME NEW k \in 0 .. n - 1, k \in S PROVE k + 1 \in S
  <2>1. k + 1 \in 1 .. n /\ k + 1 \in 0 .. n /\ k + 1 # 0 /\ (k + 1) - 1 = k
    BY <1>1
  <2>2. g[k + 1] = Append(g[k], s[k + 1])
    BY <1>2, <1>5, <2>1
  <2>3. Append(First(s, k), s[k + 1]) = First(s, k + 1)
    BY <1>1, <2>1, FirstSound
  <2>4. QED
    BY <1>8, <2>1, <2>2, <2>3
<1>9. \A k \in 0 .. n : k \in S
  <2> HIDE DEF S
  <2>1. 0 \in Nat
    OBVIOUS
  <2>2. QED
    BY <1>1, <1>7, <1>8, <2>1, UptoInd, ZenonT(30)
<1>10. g[n] = First(s, n)
  <2>1. n \in 0 .. n
    BY <1>1
  <2>2. QED
    BY <1>9, <2>1
<1>11. QED
  BY <1>1, <1>6, <1>10, FirstSound

(* The rows of a text that has been read up to column j of row l. *)
Begun(rs, l, j) == [i \in 1 .. l |-> IF i < l THEN rs[i] ELSE First(rs[l], j)]

LEMMA BegunSound ==
  ASSUME NEW rs \in Sheets, NEW l \in 1 .. Len(rs), NEW j \in 0 .. Len(rs[l])
  PROVE  /\ Begun(rs, l, j) \in Seq(Seq(Bytes)) /\ Len(Begun(rs, l, j)) = l /\ l \in Nat \ {0}
         /\ Begun(rs, l, j)[l] = First(rs[l], j)
         /\ \A i \in 1 .. l - 1 : Begun(rs, l, j)[i] = rs[i]
<1>1. PICK n \in Nat \ {0} : n = Len(rs)
  BY SheetSound
<1>2. l \in 1 .. n /\ l \in Nat \ {0}
  BY <1>1
<1>3. \A i \in 1 .. l : rs[i] \in Seq(Bytes)
  BY <1>1, <1>2, SheetSound
<1>4. First(rs[l], j) \in Seq(Bytes)
  BY <1>2, <1>3, FirstSound
<1>5. Begun(rs, l, j) \in [1 .. l -> Seq(Bytes)]
  BY <1>3, <1>4 DEF Begun
<1>6. QED
  BY <1>2, <1>5 DEF Begun

(* A character of the row is taken into it. *)
LEMMA TakesChar ==
  ASSUME NEW rs \in Sheets, NEW l \in 1 .. Len(rs), NEW j \in 1 .. Len(rs[l])
  PROVE  Taken(Begun(rs, l, j - 1), rs[l][j]) = Begun(rs, l, j)
<1> DEFINE b == Begun(rs, l, j - 1)
           e == Begun(rs, l, j)
           c == rs[l][j]
<1>1. PICK m \in Nat : m = Len(rs[l])
  BY SheetSound
<1>2. j \in 1 .. m /\ j - 1 \in 0 .. Len(rs[l]) /\ j \in 0 .. Len(rs[l]) /\ m < MaxCols /\ MaxCols \in Nat
  BY <1>1, SheetSound, EditorAssumption
<1>3. c # CR /\ c # NL
  <2>1. rs[l] \in Seq(Chars)
    BY SheetSound
  <2>2. c \in Chars
    BY <1>1, <2>1, ElementOfSeq
  <2>3. QED
    BY <2>2 DEF Chars
<1>4. /\ b \in Seq(Seq(Bytes)) /\ Len(b) = l /\ l \in Nat \ {0} /\ b[l] = First(rs[l], j - 1)
      /\ \A i \in 1 .. l - 1 : b[i] = rs[i]
  BY <1>2, BegunSound
<1>5. /\ e \in Seq(Seq(Bytes)) /\ Len(e) = l /\ l \in Nat \ {0} /\ e[l] = First(rs[l], j)
      /\ \A i \in 1 .. l - 1 : e[i] = rs[i]
  BY <1>2, BegunSound
<1>6. Append(First(rs[l], j - 1), c) = First(rs[l], j) /\ Len(First(rs[l], j - 1)) = j - 1
  BY <1>2, SheetSound, FirstSound
<1> HIDE DEF b, e, c
<1>7. RoomIn(b[Len(b)]) > 0
  <2>1. RoomIn(b[Len(b)]) = MaxCols - 1 - (j - 1)
    BY <1>4, <1>6 DEF RoomIn
  <2>2. MaxCols - 1 - (j - 1) > 0
    BY <1>2
  <2>3. QED
    BY <2>1, <2>2
<1>8. Taken(b, c) = [b EXCEPT ![Len(b)] = Append(@, c)]
  BY <1>3, <1>7, Zenon DEF Taken
<1>9. PICK r : r = First(rs[l], j)
  OBVIOUS
<1>10. Taken(b, c) = [b EXCEPT ![l] = r]
  <2>1. Append(b[l], c) = r
    BY <1>4, <1>6, <1>9
  <2>2. [b EXCEPT ![l] = Append(@, c)] = [b EXCEPT ![l] = r]
    BY <2>1
  <2>3. QED
    BY <1>4, <1>8, <2>2
<1>11. [b EXCEPT ![l] = r] = e
  <2>1. b \in [1 .. l -> Seq(Bytes)] /\ e \in [1 .. l -> Seq(Bytes)]
    BY <1>4, <1>5
  <2>2. ASSUME NEW i \in 1 .. l PROVE [b EXCEPT ![l] = r][i] = e[i]
    <3>1. CASE i = l
      <4>1. [b EXCEPT ![l] = r][l] = r
        BY <2>1, <3>1
      <4>2. QED
        BY <1>5, <1>9, <3>1, <4>1
    <3>2. CASE i # l
      <4>1. [b EXCEPT ![l] = r][i] = b[i]
        BY <2>1, <3>2
      <4>2. i \in 1 .. l - 1
        BY <1>4, <3>2
      <4>3. QED
        BY <1>4, <1>5, <4>1, <4>2
    <3>3. QED
      BY <3>1, <3>2
  <2>3. QED
    BY <2>1, <2>2
<1>12. QED
  BY <1>10, <1>11 DEF b, e, c

(* An end of line starts the next row. *)
LEMMA TakesEnd ==
  ASSUME NEW rs \in Sheets, NEW l \in 1 .. Len(rs) - 1
  PROVE  Taken(Begun(rs, l, Len(rs[l])), NL) = Begun(rs, l + 1, 0)
<1> DEFINE b == Begun(rs, l, Len(rs[l]))
           e == Begun(rs, l + 1, 0)
<1>1. PICK n \in Nat \ {0} : n = Len(rs)
  BY SheetSound
<1>2. l \in 1 .. n /\ l + 1 \in 1 .. n /\ (l + 1) - 1 = l
  BY <1>1
<1>3. /\ Len(rs[l]) \in 0 .. Len(rs[l]) /\ 0 \in 0 .. Len(rs[l + 1])
      /\ rs[l] \in Seq(Bytes) /\ rs[l + 1] \in Seq(Bytes)
  BY <1>1, <1>2, SheetSound
<1>4. First(rs[l], Len(rs[l])) = rs[l] /\ First(rs[l + 1], 0) = <<>>
  BY <1>3, FirstSound
<1>5. b \in Seq(Seq(Bytes)) /\ Len(b) = l /\ l \in Nat \ {0} /\ b[l] = rs[l] /\ \A i \in 1 .. l - 1 : b[i] = rs[i]
  BY <1>1, <1>2, <1>3, <1>4, BegunSound
<1>6. e \in Seq(Seq(Bytes)) /\ Len(e) = l + 1 /\ e[l + 1] = <<>> /\ \A i \in 1 .. l : e[i] = rs[i]
  <2>1. l + 1 \in 1 .. Len(rs)
    BY <1>1, <1>2
  <2>2. /\ e \in Seq(Seq(Bytes)) /\ Len(e) = l + 1 /\ e[l + 1] = First(rs[l + 1], 0)
        /\ \A i \in 1 .. (l + 1) - 1 : e[i] = rs[i]
    BY <1>3, <2>1, BegunSound
  <2> HIDE DEF e
  <2>3. QED
    BY <1>2, <1>4, <2>2
<1> HIDE DEF b, e
<1>7. Taken(b, NL) = Append(b, <<>>)
  BY DEF Taken, CR, NL
<1>8. Append(b, <<>>) = e
  <2> DEFINE w == Append(b, <<>>)
  <2>1. <<>> \in Seq(Bytes)
    BY EmptySeq
  <2>2. w \in Seq(Seq(Bytes)) /\ Len(w) = l + 1 /\ \A i \in 1 .. l + 1 : w[i] = IF i <= l THEN b[i] ELSE <<>>
    BY <1>5, <2>1, AppendProperties
  <2> HIDE DEF w
  <2>3. \A i \in 1 .. l + 1 : w[i] = e[i]
    <3> SUFFICES ASSUME NEW i \in 1 .. l + 1 PROVE w[i] = e[i]
      OBVIOUS
    <3>1. CASE i \in 1 .. l - 1
      <4>1. i \in 1 .. l /\ i <= l
        BY <3>1, <1>5
      <4>2. QED
        BY <1>5, <1>6, <2>2, <3>1, <4>1
    <3>2. CASE i = l
      <4>1. l \in 1 .. l /\ l <= l
        BY <1>5
      <4>2. QED
        BY <1>5, <1>6, <2>2, <3>2, <4>1
    <3>3. CASE i = l + 1
      <4>1. ~(l + 1 <= l)
        BY <1>5
      <4>2. QED
        BY <1>6, <2>2, <3>3, <4>1
    <3>4. QED
      BY <1>5, <3>1, <3>2, <3>3
  <2>4. w = e
    BY <1>6, <2>2, <2>3, SeqEqual
  <2>5. QED
    BY <2>4 DEF w
<1>9. QED
  BY <1>7, <1>8 DEF b, e

(* The characters of the text, row by row. *)
LEMMA FlatAt ==
  ASSUME NEW rs \in Sheets, NEW l \in 1 .. Len(rs)
  PROVE  /\ Len(Above(rs)[l]) \in Nat /\ Len(rs[l]) \in Nat /\ Len(Flat(rs)) \in Nat
         /\ Len(Above(rs)[l]) + Len(rs[l]) <= Len(Flat(rs))
         /\ \A j \in 1 .. Len(rs[l]) : Flat(rs)[Len(Above(rs)[l]) + j] = rs[l][j]
         /\ l < Len(rs) => /\ Len(Above(rs)[l]) + Len(rs[l]) + 1 <= Len(Flat(rs))
                           /\ Flat(rs)[Len(Above(rs)[l]) + Len(rs[l]) + 1] = NL
<1> DEFINE U == Above(rs)[l]
           r == rs[l]
           t == Flat(rs)
<1>1. PICK X \in Seq(Bytes) : t = Cat(Cat(U, r), X) /\ Behind(X, l = Len(rs))
  BY SameBehind
<1>2. U \in Seq(Bytes) /\ r \in Seq(Bytes)
  BY AboveIs, SheetSound
<1> HIDE DEF U, r, t
<1> DEFINE V == Cat(U, r)
<1>3. V \in Seq(Bytes) /\ Len(V) = Len(U) + Len(r) /\ Len(U) \in Nat /\ Len(r) \in Nat /\ Len(X) \in Nat
  BY <1>1, <1>2, CatSound, TextLen
<1>4. \A j \in 1 .. Len(U) + Len(r) : V[j] = IF j <= Len(U) THEN U[j] ELSE r[j - Len(U)]
  BY <1>2, CatAt
<1> HIDE DEF V
<1>5. t = Cat(V, X) /\ Len(t) = Len(V) + Len(X)
  BY <1>1, <1>3, CatSound DEF V
<1>6. \A j \in 1 .. Len(V) + Len(X) : t[j] = IF j <= Len(V) THEN V[j] ELSE X[j - Len(V)]
  BY <1>1, <1>3, <1>5, CatAt
<1>7. PICK x \in Nat, y \in Nat, z \in Nat : x = Len(U) /\ y = Len(r) /\ z = Len(X)
  BY <1>3
<1>8. Len(V) = x + y /\ Len(t) = x + y + z
  BY <1>3, <1>5, <1>7
<1>9. ASSUME NEW j \in 1 .. y PROVE t[x + j] = r[j]
  <2>1. x + j \in 1 .. x + y /\ x + j \in 1 .. x + y + z /\ x + j <= x + y /\ ~(x + j <= x) /\ (x + j) - x = j
    OBVIOUS
  <2>2. t[x + j] = V[x + j]
    BY <1>6, <1>7, <1>8, <2>1
  <2>3. V[x + j] = r[j]
    BY <1>4, <1>7, <2>1
  <2>4. QED
    BY <2>2, <2>3
<1>10. ASSUME l < Len(rs) PROVE x + y + 1 <= Len(t) /\ t[x + y + 1] = NL
  <2>1. X # <<>> /\ X[1] = NL
    <3>1. l # Len(rs)
      BY <1>10, SheetSound
    <3>2. QED
      BY <1>1, <3>1 DEF Behind
  <2>2. z >= 1
    BY <1>1, <1>7, <2>1, TextLen
  <2>3. x + y + 1 \in 1 .. x + y + z /\ ~(x + y + 1 <= x + y) /\ (x + y + 1) - (x + y) = 1
    BY <2>2
  <2>4. t[x + y + 1] = X[1]
    BY <1>6, <1>7, <1>8, <2>3
  <2>5. QED
    BY <1>8, <2>1, <2>3, <2>4
<1>11. QED
  <2>1. x + y <= Len(t) /\ Len(t) \in Nat
    BY <1>8
  <2>2. QED
    BY <1>3, <1>7, <1>9, <1>10, <2>1 DEF U, r, t

(* A row of the text is read up to its end. *)
LEMMA RowRead ==
  ASSUME NEW rs \in Sheets, NEW l \in 1 .. Len(rs),
         RowsAfter(Flat(rs))[Len(Above(rs)[l])] = Begun(rs, l, 0)
  PROVE  RowsAfter(Flat(rs))[Len(Above(rs)[l]) + Len(rs[l])] = Begun(rs, l, Len(rs[l]))
<1> DEFINE t == Flat(rs)
           R == RowsAfter(t)
<1>1. PICK x \in Nat, y \in Nat, n \in Nat :
        /\ x = Len(Above(rs)[l]) /\ y = Len(rs[l]) /\ n = Len(t) /\ x + y <= n
        /\ \A j \in 1 .. y : t[x + j] = rs[l][j]
  BY FlatAt
<1>2. t \in Seq(Bytes)
  BY FlatSound
<1>3. \A k \in 1 .. n : R[k] = Taken(R[k - 1], t[k])
  BY <1>1, <1>2, RowsAfterIs
<1>4. R[x] = Begun(rs, l, 0)
  BY <1>1
<1> HIDE DEF t, R
<1> DEFINE S == {j \in 0 .. y : R[x + j] = Begun(rs, l, j)}
<1>5. 0 \in S
  <2>1. x + 0 = x /\ 0 \in 0 .. y
    OBVIOUS
  <2>2. QED
    BY <1>4, <2>1
<1>6. ASSUME NEW j \in 0 .. y - 1, j \in S PROVE j + 1 \in S
  <2>1. x + (j + 1) \in 1 .. n /\ (x + (j + 1)) - 1 = x + j /\ j + 1 \in 1 .. y /\ j + 1 \in 0 .. y /\ (j + 1) - 1 = j
    <3>1. x + y <= n
      BY <1>1
    <3>2. QED
      BY <3>1
  <2>2. R[x + (j + 1)] = Taken(R[x + j], t[x + (j + 1)])
    BY <1>3, <2>1
  <2>3. R[x + j] = Begun(rs, l, j) /\ t[x + (j + 1)] = rs[l][j + 1]
    BY <1>1, <1>6, <2>1
  <2>4. Taken(Begun(rs, l, j), rs[l][j + 1]) = Begun(rs, l, j + 1)
    <3>1. j + 1 \in 1 .. Len(rs[l])
      BY <1>1, <2>1
    <3>2. Taken(Begun(rs, l, (j + 1) - 1), rs[l][j + 1]) = Begun(rs, l, j + 1)
      BY <3>1, TakesChar
    <3>3. QED
      BY <2>1, <3>2
  <2>5. QED
    BY <2>1, <2>2, <2>3, <2>4
<1>7. \A j \in 0 .. y : j \in S
  <2> HIDE DEF S
  <2>1. 0 \in Nat
    OBVIOUS
  <2>2. QED
    BY <1>5, <1>6, <2>1, UptoInd, ZenonT(30)
<1>8. y \in 0 .. y
  OBVIOUS
<1>9. R[x + y] = Begun(rs, l, y)
  BY <1>7, <1>8
<1>10. QED
  BY <1>1, <1>9 DEF R, t

(* The text of a sheet is read as the sheet. *)
LEMMA Reopens ==
  ASSUME NEW rs \in Sheets, Len(rs) <= MaxLines
  PROVE  Rows(Flat(rs)) = rs
<1> DEFINE t == Flat(rs)
           R == RowsAfter(t)
           S == {l \in 1 .. Len(rs) : R[Len(Above(rs)[l])] = Begun(rs, l, 0)}
<1>1. PICK n \in Nat \ {0} : n = Len(rs)
  BY SheetSound
<1>2. t \in Seq(Bytes)
  BY FlatSound
<1>3. R[0] = << <<>> >> /\ \A k \in 1 .. Len(t) : R[k] = Taken(R[k - 1], t[k])
  BY <1>2, RowsAfterIs
<1> HIDE DEF t, R
<1>4. 1 \in S
  <2>1. 1 \in 1 .. Len(rs)
    BY <1>1
  <2>2. Len(Above(rs)[1]) = 0
    <3>1. Above(rs)[1] = <<>>
      BY AboveIs
    <3>2. QED
      BY <3>1
  <2>3. 0 \in 0 .. Len(rs[1]) /\ First(rs[1], 0) = <<>>
    BY <2>1, SheetSound, FirstSound
  <2>4. Begun(rs, 1, 0) = << <<>> >>
    <3>1. Begun(rs, 1, 0) = [i \in 1 .. 1 |-> IF i < 1 THEN rs[i] ELSE First(rs[1], 0)]
      BY DEF Begun
    <3>2. [i \in 1 .. 1 |-> IF i < 1 THEN rs[i] ELSE First(rs[1], 0)] = [i \in 1 .. 1 |-> <<>>]
      BY <2>3
    <3>3. [i \in 1 .. 1 |-> <<>>] = << <<>> >>
      OBVIOUS
    <3>4. QED
      BY <3>1, <3>2, <3>3
  <2>5. QED
    BY <1>3, <2>1, <2>2, <2>4
<1>5. ASSUME NEW l \in 1 .. n - 1, l \in S PROVE l + 1 \in S
  <2>1. l \in 1 .. Len(rs) - 1 /\ l \in 1 .. Len(rs) /\ l + 1 \in 1 .. Len(rs) /\ l < Len(rs)
    BY <1>1
  <2>2. PICK x \in Nat, y \in Nat : x = Len(Above(rs)[l]) /\ y = Len(rs[l])
    BY <2>1, FlatAt
  <2>3. x + y + 1 <= Len(t) /\ t[x + y + 1] = NL /\ Len(t) \in Nat
    BY <2>1, <2>2, FlatAt DEF t
  <2>4. R[x + y] = Begun(rs, l, Len(rs[l]))
    BY <1>5, <2>1, <2>2, RowRead DEF R, t
  <2>5. x + y + 1 \in 1 .. Len(t) /\ (x + y + 1) - 1 = x + y
    BY <2>3
  <2>6. R[x + y + 1] = Taken(R[x + y], NL)
    BY <1>3, <2>3, <2>5
  <2>7. Taken(Begun(rs, l, Len(rs[l])), NL) = Begun(rs, l + 1, 0)
    BY <2>1, TakesEnd
  <2>8. Len(Above(rs)[l + 1]) = x + y + 1
    BY <2>1, <2>2, AboveNext
  <2>9. QED
    BY <2>1, <2>4, <2>6, <2>7, <2>8
<1>6. \A l \in 1 .. n : l \in S
  <2> HIDE DEF S
  <2>1. 1 \in Nat /\ n \in Nat
    OBVIOUS
  <2>2. QED
    BY <1>4, <1>5, <2>1, UptoInd, ZenonT(30)
<1>7. n \in 1 .. n /\ Len(rs) \in 1 .. Len(rs)
  BY <1>1
<1>8. R[Len(Above(rs)[Len(rs)])] = Begun(rs, Len(rs), 0)
  BY <1>1, <1>6, <1>7
<1>9. R[Len(Above(rs)[Len(rs)]) + Len(rs[Len(rs)])] = Begun(rs, Len(rs), Len(rs[Len(rs)]))
  BY <1>7, <1>8, RowRead DEF R, t
<1>10. Len(t) = Len(Above(rs)[Len(rs)]) + Len(rs[Len(rs)])
  <2>1. Above(rs)[Len(rs)] \in Seq(Bytes) /\ rs[Len(rs)] \in Seq(Bytes)
    BY <1>7, AboveIs, SheetSound
  <2>2. QED
    BY <2>1, FlatIs, CatSound DEF t
<1>11. Begun(rs, Len(rs), Len(rs[Len(rs)])) = rs
  <2> DEFINE e == Begun(rs, Len(rs), Len(rs[Len(rs)]))
  <2>1. Len(rs[Len(rs)]) \in 0 .. Len(rs[Len(rs)]) /\ rs[Len(rs)] \in Seq(Bytes)
    BY <1>7, SheetSound
  <2>2. First(rs[Len(rs)], Len(rs[Len(rs)])) = rs[Len(rs)]
    BY <2>1, FirstSound
  <2>3. /\ e \in Seq(Seq(Bytes)) /\ Len(e) = Len(rs) /\ Len(rs) \in Nat \ {0}
        /\ e[Len(rs)] = First(rs[Len(rs)], Len(rs[Len(rs)])) /\ \A i \in 1 .. Len(rs) - 1 : e[i] = rs[i]
    BY <1>7, <2>1, BegunSound
  <2> HIDE DEF e
  <2>4. \A i \in 1 .. n : rs[i] \in Seq(Bytes)
    BY <1>1, SheetSound
  <2>5. \A i \in 1 .. n : e[i] = rs[i]
    BY <1>1, <2>2, <2>3
  <2>6. DOMAIN rs = 1 .. n /\ rs \in Seq(RowSet)
    BY <1>1, SheetSound DEF Sheets
  <2>7. e = rs
    <3>1. rs \in Seq(Seq(Bytes))
      <4>1. rs = [i \in 1 .. n |-> rs[i]]
        BY <1>1, <2>6
      <4>2. [i \in 1 .. n |-> rs[i]] \in Seq(Seq(Bytes))
        BY <2>4
      <4>3. QED
        BY <4>1, <4>2
    <3>2. QED
      BY <1>1, <2>3, <2>5, <3>1, SeqEqual
  <2>8. QED
    BY <2>7 DEF e
<1>12. R[Len(t)] = rs
  BY <1>9, <1>10, <1>11
<1>13. QED
  BY <1>12 DEF Rows, R, t

(* The text of the rows above has room for each of them, end of line       *)
(* included.                                                               *)
LEMMA AboveFits ==
  ASSUME NEW rs \in Sheets
  PROVE  \A l \in 1 .. Len(rs) : Len(Above(rs)[l]) <= (l - 1) * MaxCols
<1> DEFINE S == {l \in 1 .. Len(rs) : Len(Above(rs)[l]) <= (l - 1) * MaxCols}
<1>1. PICK n \in Nat \ {0} : n = Len(rs)
  BY SheetSound
<1>2. MaxCols \in Nat
  BY EditorAssumption
<1>3. 1 \in S
  <2>1. Above(rs)[1] = <<>>
    BY AboveIs
  <2>2. Len(Above(rs)[1]) = 0
    BY <2>1
  <2>3. (1 - 1) * MaxCols = 0
    BY <1>2
  <2>4. 1 \in 1 .. Len(rs)
    BY <1>1
  <2>5. QED
    BY <2>2, <2>3, <2>4
<1>4. ASSUME NEW l \in 1 .. n - 1, l \in S PROVE l + 1 \in S
  <2>1. l \in 1 .. Len(rs) - 1 /\ l \in 1 .. Len(rs) /\ l + 1 \in 1 .. Len(rs) /\ (l + 1) - 1 = l
    BY <1>1
  <2>2. PICK x \in Nat, y \in Nat : x = Len(Above(rs)[l]) /\ y = Len(rs[l])
    BY <2>1, FlatAt
  <2>3. Len(Above(rs)[l + 1]) = x + y + 1
    BY <2>1, <2>2, AboveNext
  <2>4. x <= (l - 1) * MaxCols /\ y < MaxCols
    BY <1>4, <2>1, <2>2, SheetSound
  <2>5. (l - 1) * MaxCols + MaxCols = l * MaxCols
    BY <1>2
  <2>6. (l - 1) * MaxCols \in Int /\ l * MaxCols \in Int
    BY <1>2
  <2>7. x + y + 1 <= l * MaxCols
    BY <1>2, <2>4, <2>5, <2>6
  <2>8. QED
    BY <2>1, <2>3, <2>7
<1>5. \A l \in 1 .. n : l \in S
  <2> HIDE DEF S
  <2>1. 1 \in Nat /\ n \in Nat
    OBVIOUS
  <2>2. QED
    BY <1>3, <1>4, <2>1, UptoInd, ZenonT(30)
<1>6. QED
  BY <1>1, <1>5

(* What Save writes fits the buffer. *)
LEMMA FlatFits ==
  ASSUME NEW rs \in Sheets, Len(rs) <= MaxLines
  PROVE  Len(Flat(rs)) <= FileMax
<1>1. PICK n \in Nat \ {0} : n = Len(rs)
  BY SheetSound
<1>2. n \in 1 .. Len(rs) /\ MaxCols \in Nat /\ MaxLines \in Nat /\ n <= MaxLines
  BY <1>1, EditorAssumption
<1>3. Above(rs)[n] \in Seq(Bytes) /\ rs[n] \in Seq(Bytes)
  BY <1>2, AboveIs, SheetSound
<1>4. PICK x \in Nat, y \in Nat : x = Len(Above(rs)[n]) /\ y = Len(rs[n])
  BY <1>2, FlatAt
<1>5. Len(Flat(rs)) = x + y
  BY <1>1, <1>3, <1>4, FlatIs, CatSound
<1>6. x <= (n - 1) * MaxCols /\ y < MaxCols
  BY <1>2, <1>4, AboveFits, SheetSound
<1>7. (n - 1) * MaxCols + MaxCols = n * MaxCols /\ (n - 1) * MaxCols \in Int /\ n * MaxCols \in Int
  BY <1>2
<1>8. n * MaxCols <= MaxLines * MaxCols /\ MaxLines * MaxCols \in Int
  <2>1. PICK more \in Nat : MaxLines = n + more
    <3>1. MaxLines - n \in Nat /\ MaxLines = n + (MaxLines - n)
      BY <1>2
    <3>2. QED
      BY <3>1
  <2>2. PICK cols \in Nat : cols = MaxCols
    BY <1>2
  <2>3. (n + more) * cols = n * cols + more * cols
    OBVIOUS
  <2>4. more * cols \in Nat /\ n * cols \in Nat
    OBVIOUS
  <2>5. n * cols <= n * cols + more * cols /\ n * cols + more * cols \in Int
    BY <2>4
  <2>6. QED
    BY <2>1, <2>2, <2>3, <2>5
<1>9. x + y <= MaxLines * MaxCols
  BY <1>2, <1>6, <1>7, <1>8
<1>10. QED
  BY <1>5, <1>9 DEF FileMax

(* A text is not what stands for a file that cannot be read. *)
LEMMA TextReadable ==
  ASSUME NEW s \in Seq(Bytes)
  PROVE  s # Unreadable
<1>1. SUFFICES ASSUME s = Unreadable PROVE FALSE
  OBVIOUS
<1>2. Len(s) = 1 /\ s[1] = "unreadable"
  BY <1>1 DEF Unreadable
<1>3. s[1] \in Bytes
  <2>1. 1 \in 1 .. Len(s)
    BY <1>2
  <2>2. QED
    BY <2>1, ElementOfSeq
<1>4. QED
  BY <1>2, <1>3, BytesAssumption, Zenon

---------------------------------------------------------------------------
(* A file within the limits is shown whole *)

(* What is left without CR, character by character. *)
LEMMA KeptIs ==
  ASSUME NEW chars \in Seq(Bytes)
  PROVE  /\ KeptAfter(chars)[0] = <<>>
         /\ \A k \in 1 .. Len(chars) :
              KeptAfter(chars)[k] = IF chars[k] = CR THEN KeptAfter(chars)[k - 1]
                                    ELSE Append(KeptAfter(chars)[k - 1], chars[k])
         /\ \A k \in 0 .. Len(chars) : KeptAfter(chars)[k] \in Seq(Bytes)
<1> DEFINE n == Len(chars)
           More(t, c) == IF c = CR THEN t ELSE Append(t, c)
           Is(g) == g = [k \in 0 .. n |->
                           IF k = 0 THEN <<>> ELSE IF chars[k] = CR THEN g[k - 1] ELSE Append(g[k - 1], chars[k])]
           step == [k \in 1 .. n |-> [t \in Seq(Bytes) |-> More(t, chars[k])]]
<1>1. n \in Nat /\ \A k \in 1 .. n : chars[k] \in Bytes
  BY LenProperties, ElementOfSeq
<1>2. step \in [1 .. n -> [Seq(Bytes) -> Seq(Bytes)]]
  BY <1>1, AppendProperties
<1>3. <<>> \in Seq(Bytes)
  BY EmptySeq
<1>4. PICK f \in [0 .. n -> Seq(Bytes)] : f[0] = <<>> /\ \A k \in 1 .. n : f[k] = step[k][f[k - 1]]
  <2>1. Runs(n, Seq(Bytes), <<>>, step) # {}
    <3> HIDE DEF step, n
    <3>1. QED
      BY <1>1, <1>2, <1>3, Recursion
  <2>2. QED
    BY <2>1 DEF Runs
<1>5. ASSUME NEW k \in 0 .. n
      PROVE  f[k] = IF k = 0 THEN <<>> ELSE IF chars[k] = CR THEN f[k - 1] ELSE Append(f[k - 1], chars[k])
  <2>1. CASE k = 0
    BY <1>4, <2>1
  <2>2. CASE k # 0
    <3>1. k \in 1 .. n /\ k - 1 \in 0 .. n
      BY <1>1, <2>2
    <3>2. f[k - 1] \in Seq(Bytes) /\ f[k] = step[k][f[k - 1]]
      BY <1>4, <3>1
    <3>3. f[k] = More(f[k - 1], chars[k])
      BY <3>1, <3>2
    <3>4. QED
      BY <2>2, <3>3
  <2>3. QED
    BY <2>1, <2>2
<1>6. Is(f)
  <2>1. f = [k \in 0 .. n |-> f[k]]
    OBVIOUS
  <2>2. QED
    BY <1>5, <2>1
<1> DEFINE g == CHOOSE h : Is(h)
<1>7. Is(g)
  <2> HIDE DEF Is
  <2>1. QED
    BY <1>6
<1>8. KeptAfter(chars) = g
  BY DEF KeptAfter
<1> HIDE DEF g
<1>9. /\ g[0] = <<>>
      /\ \A k \in 1 .. n : g[k] = IF chars[k] = CR THEN g[k - 1] ELSE Append(g[k - 1], chars[k])
  <2>1. g[0] = <<>>
    BY <1>1, <1>7
  <2>2. ASSUME NEW k \in 1 .. n PROVE g[k] = IF chars[k] = CR THEN g[k - 1] ELSE Append(g[k - 1], chars[k])
    <3>1. k \in 0 .. n /\ k # 0
      BY <1>1
    <3>2. QED
      BY <1>7, <3>1
  <2>3. QED
    BY <2>1, <2>2
<1>10. \A k \in 0 .. n : g[k] \in Seq(Bytes)
  <2> DEFINE A == {k \in 0 .. n : g[k] \in Seq(Bytes)}
  <2>1. 0 \in A
    <3>1. 0 \in 0 .. n /\ g[0] \in Seq(Bytes)
      BY <1>1, <1>3, <1>9
    <3>2. QED
      BY <3>1
  <2>2. ASSUME NEW k \in 0 .. n - 1, k \in A PROVE k + 1 \in A
    <3>1. k + 1 \in 1 .. n /\ k + 1 \in 0 .. n /\ g[k] \in Seq(Bytes) /\ chars[k + 1] \in Bytes
      BY <1>1, <2>2
    <3>2. g[k + 1] = IF chars[k + 1] = CR THEN g[k] ELSE Append(g[k], chars[k + 1])
      BY <1>9, <3>1
    <3>3. g[k + 1] \in Seq(Bytes)
      BY <3>1, <3>2, AppendProperties
    <3>4. QED
      BY <3>1, <3>3
  <2> HIDE DEF A
  <2>3. \A k \in 0 .. n : k \in A
    BY <1>1, <2>1, <2>2, UptoInd, ZenonT(30)
  <2>4. QED
    BY <2>3 DEF A
<1>11. QED
  BY <1>8, <1>9, <1>10

(* A character more in the last row is one more in the text. *)
LEMMA FlatChar ==
  ASSUME NEW rs \in Sheets, NEW c \in Chars, Len(rs[Len(rs)]) < MaxCols - 1
  PROVE  Flat([rs EXCEPT ![Len(rs)] = Append(@, c)]) = Append(Flat(rs), c)
<1> DEFINE r == Append(rs[Len(rs)], c)
           qs == [rs EXCEPT ![Len(rs)] = r]
<1>1. PICK n \in Nat \ {0} : n = Len(rs)
  BY SheetSound
<1>2. n \in 1 .. Len(rs) /\ rs[n] \in Seq(Chars) /\ rs[n] \in Seq(Bytes) /\ Len(rs[n]) \in Nat
  BY <1>1, SheetSound
<1>3. rs \in Seq(RowSet) /\ c \in Bytes
  BY DEF Sheets, Chars
<1>4. r \in RowSet
  <2>1. r \in Seq(Chars) /\ Len(r) = Len(rs[n]) + 1
    BY <1>1, <1>2, AppendProperties
  <2>2. MaxCols \in Nat /\ Len(rs[n]) < MaxCols - 1
    BY <1>1, EditorAssumption
  <2> HIDE DEF r
  <2>3. QED
    BY <1>2, <2>1, <2>2 DEF RowSet
<1>5. r = Cat(rs[n], <<c>>) /\ <<c>> \in Seq(Bytes)
  <2>1. r = rs[n] \o <<c>>
    BY <1>1, <1>2, <1>3, AppendIsConcat
  <2>2. QED
    BY <1>3, <2>1 DEF Cat
<1> HIDE DEF r
<1>6. qs \in Sheets /\ Len(qs) = n /\ qs[n] = r /\ \A i \in 1 .. n - 1 : qs[i] = rs[i]
  <2>1. rs \in [1 .. n -> RowSet]
    BY <1>1, <1>3
  <2>2. qs \in [1 .. n -> RowSet]
    BY <1>4, <2>1
  <2>3. qs[n] = r /\ \A i \in 1 .. n - 1 : qs[i] = rs[i]
    BY <1>1, <2>1
  <2> HIDE DEF qs
  <2>4. QED
    BY <2>2, <2>3, MadeSheet
<1> HIDE DEF qs
<1>7. Above(qs)[n] = Above(rs)[n] /\ Above(rs)[n] \in Seq(Bytes)
  <2>1. n \in 1 .. Len(qs) /\ n <= Len(rs) /\ n \in 1 .. Len(rs)
    BY <1>1, <1>6
  <2>2. QED
    BY <1>6, <2>1, SameAbove, AboveIs
<1>8. Flat(qs) = Cat(Above(rs)[n], Cat(rs[n], <<c>>))
  BY <1>5, <1>6, <1>7, FlatIs
<1>9. Flat(qs) = Cat(Cat(Above(rs)[n], rs[n]), <<c>>)
  BY <1>2, <1>5, <1>7, <1>8, CatAssoc
<1>10. Flat(rs) = Cat(Above(rs)[n], rs[n]) /\ Flat(rs) \in Seq(Bytes)
  BY <1>1, FlatIs, FlatSound
<1>11. Append(Flat(rs), c) = Cat(Flat(rs), <<c>>)
  BY <1>3, <1>10, AppendIsConcat DEF Cat
<1>12. QED
  BY <1>9, <1>10, <1>11 DEF qs, r

(* An end of line more, and an empty row behind it. *)
LEMMA FlatEnd ==
  ASSUME NEW rs \in Sheets
  PROVE  Flat(Append(rs, <<>>)) = Append(Flat(rs), NL)
<1> DEFINE qs == Append(rs, <<>>)
<1>1. PICK n \in Nat \ {0} : n = Len(rs)
  BY SheetSound
<1>2. rs \in Seq(RowSet) /\ <<>> \in RowSet /\ NL \in Bytes
  BY EmptySheet, EndOfLineSound DEF Sheets
<1>3. /\ qs \in Seq(RowSet) /\ Len(qs) = n + 1 /\ qs[n + 1] = <<>>
      /\ \A i \in 1 .. n : qs[i] = rs[i]
  BY <1>1, <1>2, AppendProperties
<1> HIDE DEF qs
<1>4. qs \in Sheets
  BY <1>3, EmptySeq DEF Sheets
<1>5. Above(qs)[n] = Above(rs)[n]
  <2>1. n \in 1 .. Len(qs) /\ n <= Len(rs) /\ \A i \in 1 .. n - 1 : qs[i] = rs[i]
    BY <1>1, <1>3
  <2>2. QED
    BY <1>4, <2>1, SameAbove
<1>6. n \in 1 .. Len(qs) - 1 /\ n \in 1 .. n /\ qs[n] = rs[n]
  BY <1>3
<1>7. Above(qs)[n + 1] = Cat(Cat(Above(rs)[n], rs[n]), EndOfLine)
  BY <1>4, <1>5, <1>6, AboveNext
<1>8. Flat(rs) = Cat(Above(rs)[n], rs[n]) /\ Flat(rs) \in Seq(Bytes)
  BY <1>1, FlatIs, FlatSound
<1>9. Cat(Flat(rs), EndOfLine) \in Seq(Bytes)
  BY <1>8, EndOfLineSound, CatSound
<1>10. Flat(qs) = Cat(Cat(Flat(rs), EndOfLine), <<>>)
  BY <1>3, <1>4, <1>7, <1>8, FlatIs
<1>11. Flat(qs) = Cat(Flat(rs), EndOfLine)
  BY <1>9, <1>10, CatEmpty
<1>12. Append(Flat(rs), NL) = Cat(Flat(rs), EndOfLine)
  BY <1>2, <1>8, AppendIsConcat DEF Cat, EndOfLine
<1>13. QED
  BY <1>11, <1>12 DEF qs

(* A file that is not longer than the buffer is read to its end; of any    *)
(* other, what is read is a text too.                                      *)
LEMMA ReadAll ==
  ASSUME NEW chars \in Seq(Bytes)
  PROVE  Read(chars) \in Seq(Bytes) /\ (Len(chars) <= FileMax => Read(chars) = chars)
<1>1. Len(chars) \in Nat /\ FileMax \in Nat
  BY LenProperties, EditorAssumption DEF FileMax
<1> DEFINE n == IF Len(chars) < FileMax THEN Len(chars) ELSE FileMax
<1>2. n \in 0 .. Len(chars) /\ Read(chars) = First(chars, n)
  BY <1>1 DEF Read, First
<1>3. Read(chars) \in Seq(Bytes)
  BY <1>2, FirstSound
<1>4. ASSUME Len(chars) <= FileMax PROVE Read(chars) = chars
  <2>1. n = Len(chars)
    BY <1>1, <1>4
  <2>2. QED
    BY <1>2, <2>1, FirstSound
<1>5. QED
  BY <1>3, <1>4

(* The ends of line among the first characters, and what is there besides  *)
(* CR from one character to another.                                       *)
EndsIn(chars, k) == {i \in 1 .. k : chars[i] = NL}
Inked(chars, i, k) == {m \in i .. k : chars[m] # CR}

LEMMA EndsNext ==
  ASSUME NEW chars \in Seq(Bytes), NEW k \in Nat
  PROVE  /\ Cardinality(EndsIn(chars, k)) \in Nat
         /\ Cardinality(EndsIn(chars, k + 1)) =
              Cardinality(EndsIn(chars, k)) + (IF chars[k + 1] = NL THEN 1 ELSE 0)
<1>1. IsFiniteSet(EndsIn(chars, k))
  <2>1. IsFiniteSet(1 .. k) /\ EndsIn(chars, k) \in SUBSET (1 .. k)
    BY FS_Interval DEF EndsIn
  <2>2. QED
    BY <2>1, FS_Subset
<1>2. Cardinality(EndsIn(chars, k)) \in Nat
  BY <1>1, FS_CardinalityType
<1>3. CASE chars[k + 1] = NL
  <2>1. EndsIn(chars, k + 1) = EndsIn(chars, k) \cup {k + 1} /\ k + 1 \notin EndsIn(chars, k)
    BY <1>3 DEF EndsIn
  <2>2. QED
    BY <1>1, <1>2, <1>3, <2>1, FS_AddElement
<1>4. CASE chars[k + 1] # NL
  <2>1. EndsIn(chars, k + 1) = EndsIn(chars, k)
    BY <1>4 DEF EndsIn
  <2>2. QED
    BY <1>2, <1>4, <2>1
<1>5. QED
  BY <1>3, <1>4

LEMMA InkedNext ==
  ASSUME NEW chars \in Seq(Bytes), NEW k \in Nat, NEW i \in 1 .. k + 1
  PROVE  /\ Cardinality(Inked(chars, i, k)) \in Nat
         /\ Cardinality(Inked(chars, i, k + 1)) =
              Cardinality(Inked(chars, i, k)) + (IF chars[k + 1] # CR THEN 1 ELSE 0)
<1>1. IsFiniteSet(Inked(chars, i, k))
  <2>1. IsFiniteSet(i .. k) /\ Inked(chars, i, k) \in SUBSET (i .. k)
    BY FS_Interval DEF Inked
  <2>2. QED
    BY <2>1, FS_Subset
<1>2. Cardinality(Inked(chars, i, k)) \in Nat
  BY <1>1, FS_CardinalityType
<1>3. CASE chars[k + 1] # CR
  <2>1. Inked(chars, i, k + 1) = Inked(chars, i, k) \cup {k + 1} /\ k + 1 \notin Inked(chars, i, k)
    BY <1>3 DEF Inked
  <2>2. QED
    BY <1>1, <1>2, <1>3, <2>1, FS_AddElement
<1>4. CASE chars[k + 1] = CR
  <2>1. Inked(chars, i, k + 1) = Inked(chars, i, k)
    BY <1>4 DEF Inked
  <2>2. QED
    BY <1>2, <1>4, <2>1
<1>5. QED
  BY <1>3, <1>4

(* The first k characters are all in the rows, but for CR; the last row is *)
(* what stands behind the last end of line.                                *)
ReadUpto(chars, k) ==
  LET rs == RowsAfter(chars)[k]
  IN  /\ Flat(rs) = KeptAfter(chars)[k]
      /\ Len(rs) = Cardinality(EndsIn(chars, k)) + 1
      /\ \E i \in 1 .. k + 1 :
           /\ \A m \in i .. k : chars[m] # NL
           /\ Len(rs[Len(rs)]) = Cardinality(Inked(chars, i, k))

LEMMA ReadNext ==
  ASSUME NEW chars \in Seq(Bytes), FitsWidth(chars), NEW k \in 0 .. Len(chars) - 1, ReadUpto(chars, k)
  PROVE  ReadUpto(chars, k + 1)
<1> DEFINE rs == RowsAfter(chars)[k]
           qs == RowsAfter(chars)[k + 1]
           t == KeptAfter(chars)[k]
           u == KeptAfter(chars)[k + 1]
           c == chars[k + 1]
<1>1. Len(chars) \in Nat /\ k \in Nat /\ k \in 0 .. Len(chars) /\ k + 1 \in 1 .. Len(chars) /\ (k + 1) - 1 = k
  BY LenProperties
<1>2. rs \in Sheets /\ qs = Taken(rs, c)
  BY <1>1, RowsAfterIs
<1>3. u = IF c = CR THEN t ELSE Append(t, c)
  BY <1>1, KeptIs
<1>4. c \in Bytes
  BY <1>1, ElementOfSeq
<1>5. Flat(rs) = t /\ Len(rs) = Cardinality(EndsIn(chars, k)) + 1
  BY DEF ReadUpto
<1>6. PICK i \in 1 .. k + 1 :
        (\A m \in i .. k : chars[m] # NL) /\ Len(rs[Len(rs)]) = Cardinality(Inked(chars, i, k))
  BY DEF ReadUpto
<1>7. SUFFICES /\ Flat(qs) = u
               /\ Len(qs) = Cardinality(EndsIn(chars, k + 1)) + 1
               /\ \E j \in 1 .. (k + 1) + 1 :
                    /\ \A m \in j .. k + 1 : chars[m] # NL
                    /\ Len(qs[Len(qs)]) = Cardinality(Inked(chars, j, k + 1))
  BY DEF ReadUpto
<1>8. i \in 1 .. (k + 1) + 1 /\ CR # NL
  BY <1>1 DEF CR, NL
<1>9. /\ Cardinality(EndsIn(chars, k)) \in Nat
      /\ Cardinality(EndsIn(chars, k + 1)) = Cardinality(EndsIn(chars, k)) + (IF c = NL THEN 1 ELSE 0)
  BY <1>1, EndsNext
<1>10. /\ Cardinality(Inked(chars, i, k)) \in Nat
       /\ Cardinality(Inked(chars, i, k + 1)) = Cardinality(Inked(chars, i, k)) + (IF c # CR THEN 1 ELSE 0)
  BY <1>1, InkedNext
<1> HIDE DEF rs, qs, t, u, c
<1>11. /\ rs \in Seq(RowSet) /\ Len(rs) \in Nat \ {0} /\ Len(rs) \in 1 .. Len(rs)
       /\ rs[Len(rs)] \in Seq(Chars) /\ MaxCols \in Nat
  <2>1. rs \in Seq(RowSet)
    BY <1>2 DEF Sheets
  <2>2. Len(rs) \in Nat \ {0}
    BY <1>2, SheetSound
  <2>3. Len(rs) \in 1 .. Len(rs)
    BY <2>2
  <2>4. rs[Len(rs)] \in Seq(Chars)
    BY <1>2, <2>3, SheetSound
  <2>5. QED
    BY <2>1, <2>2, <2>3, <2>4, EditorAssumption
<1>12. c # NL => \A m \in i .. k + 1 : chars[m] # NL
  BY <1>1, <1>6 DEF c
<1>13. CASE c = CR
  <2>1. qs = rs
    BY <1>2, <1>13 DEF Taken, CR, NL
  <2>2. u = t /\ c # NL
    BY <1>3, <1>8, <1>13
  <2>3. Cardinality(EndsIn(chars, k + 1)) = Cardinality(EndsIn(chars, k))
    BY <1>9, <2>2
  <2>4. Cardinality(Inked(chars, i, k + 1)) = Cardinality(Inked(chars, i, k))
    BY <1>10, <1>13
  <2>5. QED
    BY <1>5, <1>6, <1>8, <1>12, <2>1, <2>2, <2>3, <2>4
<1>14. CASE c = NL
  <2>1. c # CR
    BY <1>8, <1>14
  <2>2. qs = Append(rs, <<>>) /\ u = Append(t, NL)
    BY <1>2, <1>3, <1>14, <2>1 DEF Taken
  <2>3. Flat(qs) = u
    BY <1>2, <1>5, <2>2, FlatEnd
  <2>4. Len(qs) = Len(rs) + 1 /\ qs[Len(qs)] = <<>>
    <3>1. Len(qs) = Len(rs) + 1 /\ qs[Len(rs) + 1] = <<>>
      BY <1>11, <2>2, EmptySheet, AppendProperties
    <3>2. QED
      BY <3>1
  <2>5. Len(qs) = Cardinality(EndsIn(chars, k + 1)) + 1
    BY <1>5, <1>9, <1>14, <2>4
  <2>6. Inked(chars, k + 2, k + 1) = {} /\ (k + 2) .. (k + 1) = {}
    BY <1>1 DEF Inked
  <2>7. Len(qs[Len(qs)]) = Cardinality(Inked(chars, k + 2, k + 1))
    BY <2>4, <2>6, FS_EmptySet
  <2>8. k + 2 \in 1 .. (k + 1) + 1
    BY <1>1
  <2>9. QED
    BY <2>3, <2>5, <2>6, <2>7, <2>8
<1>15. CASE c # CR /\ c # NL
  <2>1. c \in Chars
    BY <1>4, <1>15 DEF Chars
  <2>2. Len(rs[Len(rs)]) < MaxCols - 1
    <3>1. Len(rs[Len(rs)]) \in Nat
      BY <1>11, LenProperties
    <3>2. ~(Cardinality(Inked(chars, i, k + 1)) >= MaxCols)
      <4>1. SUFFICES ASSUME Cardinality(Inked(chars, i, k + 1)) >= MaxCols PROVE FALSE
        OBVIOUS
      <4>2. i \in DOMAIN chars /\ k + 1 \in DOMAIN chars
        BY <1>1, <1>6, LenProperties
      <4>3. \E m \in i .. k + 1 : chars[m] = NL
        BY <4>1, <4>2 DEF FitsWidth, Inked
      <4>4. QED
        BY <1>12, <1>15, <4>3
    <3>3. Cardinality(Inked(chars, i, k + 1)) = Len(rs[Len(rs)]) + 1
      BY <1>6, <1>10, <1>15
    <3>4. PICK n \in Nat : n = Len(rs[Len(rs)])
      BY <3>1
    <3>5. ~(n + 1 >= MaxCols)
      BY <3>2, <3>3, <3>4
    <3>6. n < MaxCols - 1
      BY <1>11, <3>5
    <3>7. QED
      BY <3>4, <3>6
  <2>3. RoomIn(rs[Len(rs)]) > 0
    <3>1. PICK n \in Nat : n = Len(rs[Len(rs)])
      BY <1>11, LenProperties
    <3>2. n < MaxCols - 1 /\ MaxCols \in Nat
      BY <1>11, <2>2, <3>1
    <3>3. MaxCols - 1 - n > 0
      BY <3>2
    <3>4. QED
      BY <3>1, <3>3 DEF RoomIn
  <2>4. qs = [rs EXCEPT ![Len(rs)] = Append(@, c)]
    BY <1>2, <1>15, <2>3 DEF Taken
  <2>5. u = Append(t, c)
    BY <1>3, <1>15
  <2>6. Flat(qs) = u
    BY <1>2, <1>5, <2>1, <2>2, <2>4, <2>5, FlatChar
  <2>7. Len(qs) = Len(rs) /\ qs[Len(qs)] = Append(rs[Len(rs)], c)
    BY <1>11, <2>4
  <2>8. Len(qs) = Cardinality(EndsIn(chars, k + 1)) + 1
    BY <1>5, <1>9, <1>15, <2>7
  <2>9. Len(qs[Len(qs)]) = Len(rs[Len(rs)]) + 1
    BY <1>11, <2>1, <2>7, AppendProperties
  <2>10. Len(qs[Len(qs)]) = Cardinality(Inked(chars, i, k + 1))
    BY <1>6, <1>10, <1>15, <2>9
  <2>11. QED
    BY <1>8, <1>12, <1>15, <2>6, <2>8, <2>10
<1>16. QED
  BY <1>13, <1>14, <1>15

(* Within the limits nothing is cut off. *)
LEMMA FitsWhole ==
  ASSUME NEW chars \in Seq(Bytes), Fits(chars)
  PROVE  Flat(Shown(chars)) = WithoutCR(chars)
<1> DEFINE n == Len(chars)
           S == {k \in 0 .. n : ReadUpto(chars, k)}
<1>1. n \in Nat /\ FitsWidth(chars) /\ n <= FileMax /\ chars # Unreadable
  BY LenProperties DEF Fits
<1>2. 0 \in S
  <2>1. RowsAfter(chars)[0] = << <<>> >> /\ KeptAfter(chars)[0] = <<>>
    BY RowsAfterIs, KeptIs
  <2>2. EndsIn(chars, 0) = {} /\ Inked(chars, 1, 0) = {} /\ 1 .. 0 = {}
    BY DEF EndsIn, Inked
  <2>3. Len(<< <<>> >>) = 1 /\ << <<>> >>[1] = <<>> /\ Len(<<>>) = 0
    OBVIOUS
  <2>4. Flat(<< <<>> >>) = <<>>
    <3>1. << <<>> >> \in Sheets
      BY EmptySheet
    <3>2. Above(<< <<>> >>)[1] = <<>>
      BY <3>1, AboveIs
    <3>3. Flat(<< <<>> >>) = Cat(<<>>, <<>>)
      BY <2>3, <3>1, <3>2, FlatIs
    <3>4. QED
      BY <3>3, EmptySeq, CatEmpty
  <2>5. Cardinality({}) = 0
    BY FS_EmptySet
  <2>6. ReadUpto(chars, 0)
    <3>1. Cardinality(EndsIn(chars, 0)) = 0 /\ Cardinality(Inked(chars, 1, 0)) = 0
      BY <2>2, <2>5, Zenon
    <3>2. 1 \in 1 .. 0 + 1 /\ \A m \in 1 .. 0 : chars[m] # NL
      BY <2>2
    <3>3. QED
      BY <2>1, <2>3, <2>4, <3>1, <3>2 DEF ReadUpto
  <2>7. QED
    BY <1>1, <2>6
<1>3. ASSUME NEW k \in 0 .. n - 1, k \in S PROVE k + 1 \in S
  BY <1>1, <1>3, ReadNext
<1>4. \A k \in 0 .. n : k \in S
  <2> HIDE DEF S
  <2>1. 0 \in Nat
    OBVIOUS
  <2>2. QED
    BY <1>1, <1>2, <1>3, <2>1, UptoInd, ZenonT(30)
<1>5. ReadUpto(chars, n)
  BY <1>1, <1>4
<1>6. Flat(RowsAfter(chars)[n]) = WithoutCR(chars)
  BY <1>5 DEF ReadUpto, WithoutCR
<1>7. Len(RowsAfter(chars)[n]) <= MaxLines
  <2>1. DOMAIN chars = 1 .. n
    BY LenProperties
  <2>2. Cardinality(EndsIn(chars, n)) < MaxLines
    BY <2>1 DEF Fits, EndsIn
  <2>3. Len(RowsAfter(chars)[n]) = Cardinality(EndsIn(chars, n)) + 1
    BY <1>5 DEF ReadUpto
  <2>4. Cardinality(EndsIn(chars, n)) \in Nat /\ MaxLines \in Nat
    BY <1>1, EndsNext, EditorAssumption
  <2>5. QED
    BY <2>2, <2>3, <2>4
<1>8. Rows(chars) = RowsAfter(chars)[n]
  BY <1>7 DEF Rows
<1>9. Shown(chars) = Rows(chars)
  BY <1>1, ReadAll DEF Shown
<1>10. QED
  BY <1>6, <1>8, <1>9

---------------------------------------------------------------------------
(* The inductive invariant *)

(* Rows and cursor fit, the row of the cursor is on the screen, and what   *)
(* is not marked as changed is in the file, if that is within the limits   *)
(* and no failed write has changed it.                                     *)
IInv ==
  /\ Placed(lines, curLine, curCol)
  /\ scrollTop \in Nat \ {0}
  /\ active => curLine \in scrollTop .. scrollTop + Visible - 1
  /\ file \in Seq(Bytes) \cup {Unreadable}
  /\ {dirty, active, damaged} \subseteq BOOLEAN
  /\ CleanIsSaved

(* What is shown of a file. *)
LEMMA ShownPlaced ==
  ASSUME NEW chars \in Seq(Bytes) \cup {Unreadable}
  PROVE  Placed(Shown(chars), 1, 0)
<1>1. Shown(chars) \in Sheets /\ Len(Shown(chars)) <= MaxLines
  <2>1. CASE chars # Unreadable
    <3>1. Read(chars) \in Seq(Bytes)
      BY <2>1, ReadAll
    <3>2. Shown(chars) = Rows(Read(chars))
      BY <2>1 DEF Shown
    <3>3. QED
      BY <3>1, <3>2, RowsFit
  <2>2. CASE chars = Unreadable
    <3>1. Shown(chars) = << <<>> >>
      BY <2>2 DEF Shown
    <3>2. Len(<< <<>> >>) = 1 /\ 1 <= MaxLines
      BY EditorAssumption
    <3>3. QED
      BY <3>1, <3>2, EmptySheet
  <2>3. QED
    BY <2>1, <2>2
<1>2. 1 \in 1 .. Len(Shown(chars))
  BY <1>1, SheetSound
<1>3. 0 \in 0 .. Len(Shown(chars)[1])
  BY <1>1, <1>2, SheetSound
<1>4. QED
  BY <1>1, <1>2, <1>3 DEF Placed

LEMMA InitHolds == Init => IInv
<1> SUFFICES ASSUME Init PROVE IInv
  OBVIOUS
<1>1. /\ lines = << <<>> >> /\ curLine = 1 /\ curCol = 0 /\ scrollTop = 1
      /\ dirty = FALSE /\ active = FALSE /\ damaged = FALSE /\ file = <<>>
  BY DEF Init
<1>2. Placed(lines, curLine, curCol)
  <2>1. << <<>> >>[1] = <<>> /\ Len(<< <<>> >>) = 1 /\ Len(<<>>) = 0
    OBVIOUS
  <2>2. 1 <= MaxLines
    BY EditorAssumption
  <2>3. 1 \in 1 .. 1 /\ 0 \in 0 .. 0
    OBVIOUS
  <2>4. QED
    BY <1>1, <2>1, <2>2, <2>3, EmptySheet DEF Placed
<1>3. file \in Seq(Bytes)
  BY <1>1, EmptySeq
<1>4. CleanIsSaved
  BY <1>1 DEF CleanIsSaved
<1>5. {dirty, active, damaged} \subseteq BOOLEAN
  BY <1>1, Zenon
<1>6. scrollTop \in Nat \ {0} /\ ~active
  BY <1>1
<1>7. QED
  BY <1>2, <1>3, <1>4, <1>5, <1>6 DEF IInv

LEMMA OpenKeeps ==
  ASSUME IInv, NEW chars \in Files \cup {file}, Open(chars)
  PROVE  IInv'
<1>1. /\ file' = chars /\ lines' = Shown(chars)
      /\ curLine' = 1 /\ curCol' = 0 /\ scrollTop' = 1 /\ dirty' = FALSE /\ active' = TRUE
      /\ damaged' = FALSE
  BY DEF Open
<1>2. chars \in Seq(Bytes) \cup {Unreadable}
  BY BytesAssumption, Zenon DEF IInv
<1>3. Placed(lines', curLine', curCol')
  BY <1>1, <1>2, ShownPlaced
<1>4. scrollTop' \in Nat \ {0} /\ curLine' \in scrollTop' .. scrollTop' + Visible - 1
  BY <1>1, EditorAssumption
<1>5. {dirty', active', damaged'} \subseteq BOOLEAN
  BY <1>1
<1>6. Fits(file') => WithoutCR(file') = Flat(lines')
  <2>1. SUFFICES ASSUME Fits(chars) PROVE WithoutCR(chars) = Flat(Shown(chars))
    BY <1>1
  <2>2. chars \in Seq(Bytes)
    BY <1>2, <2>1 DEF Fits
  <2>3. QED
    BY <2>1, <2>2, FitsWhole
<1>7. QED
  BY <1>1, <1>2, <1>3, <1>4, <1>5, <1>6 DEF IInv, CleanIsSaved

LEMMA KeysKeep ==
  ASSUME IInv, Key
  PROVE  IInv'
<1>1. KeyDone /\ scrollTop' = Scrolled(curLine') /\ active /\ UNCHANGED <<active, file, damaged>>
  BY DEF Key
<1>2. Placed(lines, curLine, curCol)
  BY DEF IInv
<1>3. KeyKeeps
  BY <1>1, <1>2, EveryKeyKeeps
<1>4. Placed(lines', curLine', curCol') /\ (dirty' = TRUE \/ (lines' = lines /\ dirty' = dirty))
  BY <1>3 DEF KeyKeeps
<1>5. scrollTop' \in Nat \ {0} /\ curLine' \in scrollTop' .. scrollTop' + Visible - 1
  <2>1. PICK n \in Nat \ {0} : n = Len(lines')
    BY <1>4, PlaceSound
  <2>2. curLine' \in 1 .. n
    BY <1>4, <2>1 DEF Placed
  <2>3. scrollTop \in Nat \ {0} /\ Visible \in Nat \ {0}
    BY EditorAssumption DEF IInv
  <2>4. PICK l \in Nat \ {0} : l = curLine'
    BY <2>2
  <2>5. PICK top \in Nat \ {0} : top = scrollTop
    BY <2>3
  <2>6. scrollTop' = IF l < top THEN l ELSE IF l >= top + Visible THEN l - Visible + 1 ELSE top
    BY <1>1, <2>4, <2>5 DEF Scrolled
  <2>7. CASE l < top
    <3>1. scrollTop' = l
      BY <2>6, <2>7
    <3>2. l \in l .. l + Visible - 1
      BY <2>3
    <3>3. QED
      BY <2>4, <3>1, <3>2
  <2>8. CASE ~(l < top) /\ l >= top + Visible
    <3>1. scrollTop' = l - Visible + 1
      BY <2>6, <2>8
    <3>2. l \in (l - Visible + 1) .. (l - Visible + 1) + Visible - 1 /\ l - Visible + 1 \in Nat \ {0}
      BY <2>3, <2>8
    <3>3. QED
      BY <2>4, <3>1, <3>2
  <2>9. CASE ~(l < top) /\ ~(l >= top + Visible)
    BY <2>3, <2>4, <2>6, <2>9
  <2>10. QED
    BY <2>7, <2>8, <2>9
<1>6. {dirty', active', damaged'} \subseteq BOOLEAN /\ file' \in Seq(Bytes) \cup {Unreadable}
  BY <1>1, <1>4 DEF IInv
<1>7. CleanIsSaved'
  <2>1. CASE dirty' = TRUE
    BY <2>1 DEF CleanIsSaved
  <2>2. CASE lines' = lines /\ dirty' = dirty
    BY <1>1, <2>2 DEF IInv, CleanIsSaved
  <2>3. QED
    BY <1>4, <2>1, <2>2
<1>8. QED
  BY <1>4, <1>5, <1>6, <1>7 DEF IInv

LEMMA CtrlSKeeps ==
  ASSUME IInv, CtrlS
  PROVE  IInv'
<1>1. PICK ok \in BOOLEAN :
        /\ file' \in (IF ok THEN {Flat(lines)} ELSE Files \cup {file, Flat(lines), Unreadable})
        /\ dirty' = SavedDirty(ok)
        /\ damaged' = (~ok /\ (damaged \/ file' # file))
        /\ UNCHANGED <<lines, place, scrollTop, active>>
  BY DEF CtrlS, Save
<1>2. lines' = lines /\ curLine' = curLine /\ curCol' = curCol /\ scrollTop' = scrollTop /\ active' = active
  BY <1>1 DEF place
<1>3. lines \in Sheets
  BY DEF IInv, Placed
<1>4. Flat(lines) \in Seq(Bytes) /\ WithoutCR(Flat(lines)) = Flat(lines)
  BY <1>3, FlatSound, FlatClean, WithoutCRIs
<1>5. CASE ok
  <2>1. file' = Flat(lines) /\ dirty' = FALSE /\ damaged' = FALSE
    <3>1. file' \in {Flat(lines)}
      BY <1>1, <1>5
    <3>2. dirty' = (dirty /\ ~ok) /\ damaged' = (~ok /\ (damaged \/ file' # file))
      BY <1>1, Zenon DEF SavedDirty
    <3>3. QED
      BY <1>5, <3>1, <3>2
  <2>2. CleanIsSaved'
    BY <1>2, <1>4, <2>1 DEF CleanIsSaved
  <2>3. QED
    BY <1>2, <1>4, <2>1, <2>2 DEF IInv
<1>6. CASE ~ok
  <2>1. /\ file' \in Files \cup {file, Flat(lines), Unreadable}
        /\ dirty' = dirty /\ damaged' = (damaged \/ file' # file)
    BY <1>1, <1>6 DEF SavedDirty, IInv
  <2>2. CleanIsSaved'
    BY <1>2, <2>1 DEF CleanIsSaved, IInv
  <2>3. file' \in Seq(Bytes) \cup {Unreadable} /\ {dirty', active', damaged'} \subseteq BOOLEAN
    BY <1>2, <1>4, <2>1, BytesAssumption DEF IInv
  <2>4. QED
    BY <1>2, <2>2, <2>3 DEF IInv
<1>7. QED
  BY <1>5, <1>6

LEMMA StepHolds == IInv /\ [Next]_vars => IInv'
<1> SUFFICES ASSUME IInv, [Next]_vars PROVE IInv'
  OBVIOUS
<1>1. ASSUME NEW chars \in Files \cup {file}, Open(chars) PROVE IInv'
  BY <1>1, OpenKeeps
<1>2. CASE Key
  BY <1>2, KeysKeep
<1>3. CASE CtrlS
  BY <1>3, CtrlSKeeps
<1>4. CASE Quit
  <2>1. /\ lines' = lines /\ curLine' = curLine /\ curCol' = curCol /\ scrollTop' = scrollTop
        /\ dirty' = dirty /\ active' = FALSE /\ file' = file /\ damaged' = damaged
    BY <1>4 DEF Quit, place
  <2>2. QED
    BY <2>1 DEF IInv, CleanIsSaved
<1>5. CASE UNCHANGED vars
  <2>1. /\ lines' = lines /\ curLine' = curLine /\ curCol' = curCol /\ scrollTop' = scrollTop
        /\ dirty' = dirty /\ active' = active /\ file' = file /\ damaged' = damaged
    BY <1>5 DEF vars
  <2>2. QED
    BY <2>1 DEF IInv, CleanIsSaved
<1>6. QED
  BY <1>1, <1>2, <1>3, <1>4, <1>5, Zenon DEF Next

LEMMA Inductive == Spec => []IInv
<1>1. QED
  BY InitHolds, StepHolds, PTL DEF Spec

---------------------------------------------------------------------------
(* Theorems *)

(* However many rows and columns there are, and whatever is opened and     *)
(* typed: the rows stay within ED_MAX_LINES and ED_MAX_COLS, the cursor in *)
(* them, and its row on the screen.                                        *)
THEOREM TypeCorrect == Spec => []TypeOK
<1>1. IInv => TypeOK
  <2> SUFFICES ASSUME IInv PROVE TypeOK
    OBVIOUS
  <2>1. Placed(lines, curLine, curCol) /\ (active => curLine \in scrollTop .. scrollTop + Visible - 1)
    BY DEF IInv
  <2>2. /\ lines \in Sheets /\ Len(lines) \in Nat \ {0} /\ Len(lines) <= MaxLines /\ MaxLines \in Nat
        /\ curLine \in 1 .. Len(lines) /\ curCol \in 0 .. Len(lines[curLine])
    BY <2>1, SheetSound, EditorAssumption DEF Placed
  <2>3. DOMAIN lines = 1 .. Len(lines) /\ \A l \in 1 .. Len(lines) : Len(lines[l]) < MaxCols
    BY <2>2, SheetSound
  <2>4. Len(lines) \in 1 .. MaxLines
    BY <2>2
  <2>5. QED
    BY <2>1, <2>2, <2>3, <2>4, Zenon DEF TypeOK, Row
<1>2. QED
  BY Inductive, <1>1, PTL

(* A text without the mark for unsaved changes is in the file, if that is  *)
(* within the limits (Fits) and no failed write has changed it: Open cuts  *)
(* nothing off such a file, and a failed Save keeps the mark.  And what    *)
(* Save writes fits its buffer, and Open shows it again: every row, whole, *)
(* in its place.                                                           *)
THEOREM AlwaysSaved == Spec => []SavedIsKept
<1>1. IInv => SavedIsKept
  <2> SUFFICES ASSUME IInv PROVE SavedIsKept
    OBVIOUS
  <2>1. lines \in Sheets /\ Len(lines) <= MaxLines
    BY DEF IInv, Placed
  <2>2. Rows(Flat(lines)) = lines
    BY <2>1, Reopens
  <2>3. Len(Flat(lines)) <= FileMax /\ Flat(lines) # Unreadable
    BY <2>1, FlatFits, FlatSound, TextReadable
  <2>4. Shown(Flat(lines)) = lines
    <3>1. Read(Flat(lines)) = Flat(lines)
      BY <2>1, <2>3, FlatSound, ReadAll
    <3>2. QED
      BY <2>2, <2>3, <3>1 DEF Shown
  <2>5. QED
    BY <2>3, <2>4 DEF IInv, SavedIsKept, ReopensAsSaved
<1>2. QED
  BY Inductive, <1>1, PTL

(* The first state is that of an empty text. *)
LEMMA AbstractInit == Init => Abstract!Init
<1> SUFFICES ASSUME Init PROVE Abstract!Init
  OBVIOUS
<1>1. lines = << <<>> >> /\ curLine = 1 /\ curCol = 0 /\ active = FALSE
  BY DEF Init
<1>2. lines \in Sheets /\ Len(lines) = 1 /\ lines[1] = <<>>
  BY <1>1, EmptySheet
<1>3. Above(lines)[1] = <<>>
  BY <1>2, AboveIs
<1>4. Flat(lines) = Cat(<<>>, <<>>)
  BY <1>2, <1>3, FlatIs
<1>5. Flat(lines) = <<>>
  BY <1>4, EmptySeq, CatEmpty
<1>6. Len(Above(lines)[curLine]) + curCol = 0
  BY <1>1, <1>3
<1>7. QED
  BY <1>1, <1>5, <1>6 DEF Abstract!Init

(* A key changes the text as TextBuffer says. *)
LEMMA AbstractKey ==
  ASSUME IInv, Key
  PROVE  Abstract!Next
<1> DEFINE t == Flat(lines)
           p == Len(Above(lines)[curLine]) + curCol
           u == Flat(lines')
           q == Len(Above(lines')[curLine']) + curCol'
<1>1. active /\ active' = active /\ KeyDone /\ Placed(lines, curLine, curCol)
  BY DEF Key, IInv
<1>2. Changed(t, p, u, q)
  BY <1>1, EveryKeyKeeps DEF KeyKeeps, Pos
<1>3. CASE Moved(t, p, u, q)
  BY <1>1, <1>3, Zenon DEF Moved, Abstract!Next, Abstract!Move
<1>4. CASE Inserted(t, p, u, q)
  BY <1>1, <1>4, Zenon DEF Inserted, Abstract!Next, Abstract!Insert, Abstract!Upto, Abstract!Behind
<1>5. CASE Erased(t, p, u, q)
  <2>1. PICK e \in {p - 1, p} \cap (0 .. Len(t) - 1) :
          u = SubSeq(t, 1, e) \o SubSeq(t, e + 2, Len(t)) /\ q = e
    BY <1>5 DEF Erased
  <2> HIDE DEF t, p, u, q
  <2>2. (e + 1) + 1 = e + 2
    OBVIOUS
  <2>3. u = SubSeq(t, 1, e) \o SubSeq(t, (e + 1) + 1, Len(t)) /\ q = e
    BY <2>1, <2>2, Zenon
  <2>4. QED
    BY <1>1, <2>3, Zenon DEF Abstract!Next, Abstract!Erase, Abstract!Upto, Abstract!Behind, t, p, u, q
<1>6. CASE JoinedText(t, p, u, q)
  BY <1>1, <1>6, Zenon DEF JoinedText, Abstract!Next, Abstract!Join, Abstract!Upto, Abstract!Behind
<1>7. QED
  BY <1>2, <1>3, <1>4, <1>5, <1>6 DEF Changed

LEMMA AbstractStep == IInv /\ [Next]_vars => [Abstract!Next]_(Abstract!vars)
<1> SUFFICES ASSUME IInv, [Next]_vars PROVE [Abstract!Next]_(Abstract!vars)
  OBVIOUS
<1>1. ASSUME NEW chars \in Files \cup {file}, Open(chars) PROVE Abstract!Next
  <2>1. lines' = Shown(chars) /\ curLine' = 1 /\ curCol' = 0 /\ active' = TRUE /\ ~active
    BY <1>1 DEF Open
  <2>2. chars \in Seq(Bytes) \cup {Unreadable}
    BY BytesAssumption, Zenon DEF IInv
  <2>3. Shown(chars) \in Sheets
    BY <2>2, ShownPlaced DEF Placed
  <2>4. Above(Shown(chars))[1] = <<>>
    BY <2>3, AboveIs
  <2>5. Len(Above(lines')[curLine']) + curCol' = 0
    BY <2>1, <2>4
  <2>6. QED
    BY <2>1, <2>5 DEF Abstract!Next, Abstract!Show
<1>2. CASE Key
  BY <1>2, AbstractKey
<1>3. CASE CtrlS
  <2>1. lines' = lines /\ curLine' = curLine /\ curCol' = curCol /\ active' = active
    BY <1>3 DEF CtrlS, Save, place
  <2>2. QED
    BY <2>1 DEF Abstract!vars
<1>4. CASE Quit
  <2>1. lines' = lines /\ curLine' = curLine /\ curCol' = curCol /\ active' = FALSE /\ active
    BY <1>4 DEF Quit, place
  <2>2. QED
    BY <2>1 DEF Abstract!Next, Abstract!Hide
<1>5. CASE UNCHANGED vars
  BY <1>5 DEF vars, Abstract!vars
<1>6. QED
  BY <1>1, <1>2, <1>3, <1>4, <1>5, Zenon DEF Next

(* The editor works on its rows as on one text with a position in it: each *)
(* key moves the position, inserts there, or takes out the character (or   *)
(* the end of line) next to it, and nothing else in the text changes, but  *)
(* for the end of a line that has no room where it is joined.              *)
THEOREM AlwaysAText == Spec => ImplementsTextBuffer
<1>1. QED
  BY Inductive, AbstractInit, AbstractStep, PTL DEF Spec, ImplementsTextBuffer, Abstract!Spec

=============================================================================

------------------------------- MODULE Editor -------------------------------
(***************************************************************************)
(* The editor neenor (src/Editor/Editor.cc): rows of bounded length, a     *)
(* cursor, and the file they are read from and saved to.                   *)
(***************************************************************************)
EXTENDS Integers, Sequences, FiniteSets

CONSTANTS
  MaxLines,   \* ED_MAX_LINES
  MaxCols,    \* ED_MAX_COLS
  Visible,    \* ED_VISIBLE
  Bytes,      \* what a file is made of
  Files,      \* what a file may hold when it is opened, or after a failed write
  Plain,      \* characters without a meaning of their own
  MaxKeys     \* bound on the keys pressed

ASSUME EditorAssumption ==
  /\ {MaxLines, Visible} \subseteq Nat \ {0} /\ MaxCols \in Nat \ {0, 1}
  /\ MaxKeys \in Nat

CR == "\r"
NL == "\n"

(* ED_BUFFER_BYTES: of a longer file no more is read, and Save must not    *)
(* write one.                                                              *)
FileMax == MaxLines * MaxCols

Unreadable == <<"unreadable">>

(* What a row is made of. *)
Chars == Bytes \ {CR, NL}

ASSUME BytesAssumption ==
  /\ "unreadable" \notin Bytes
  /\ {CR, NL} \subseteq Bytes
  /\ {" ", "(", ")", "{", "}"} \cup Plain \subseteq Chars
  /\ Files \subseteq Seq(Bytes) \cup {Unreadable}

VARIABLES
  lines,      \* the rows, up to lineCount, each up to its length
  curLine, curCol, scrollTop, dirty, active,
  file,       \* what the file holds: characters, or <<"unreadable">>
  damaged,    \* history: since Open or a good Save, a Save failed and changed the file
  keys        \* how many keys were pressed

place == <<curLine, curCol>>
vars == <<lines, curLine, curCol, scrollTop, dirty, active, file, damaged, keys>>

TabWidth == 3

Row == lines[curLine]
Before(row, col) == SubSeq(row, 1, col)
From(row, col) == SubSeq(row, col + 1, Len(row))
RoomIn(row) == MaxCols - 1 - Len(row)

---------------------------------------------------------------------------
(* Files *)

(* The rows of a file: \r is left out, what is behind the last column too; *)
(* if there are more ends of line than rows, the last row is left empty.   *)
Taken(rs, c) ==
  CASE c = CR -> rs
    [] c = NL -> Append(rs, <<>>)
    [] OTHER -> IF RoomIn(rs[Len(rs)]) > 0 THEN [rs EXCEPT ![Len(rs)] = Append(@, c)] ELSE rs

(* The rows after each of the characters. *)
RowsAfter(chars) ==
  LET rs[k \in 0 .. Len(chars)] == IF k = 0 THEN << <<>> >> ELSE Taken(rs[k - 1], chars[k])
  IN  rs

Rows(chars) ==
  LET rs == RowsAfter(chars)[Len(chars)]
  IN  IF Len(rs) <= MaxLines THEN rs ELSE Append(SubSeq(rs, 1, MaxLines - 1), <<>>)

(* What Save writes before each row: those above it, each with its end of line. *)
Above(rs) ==
  LET text[l \in 1 .. Len(rs)] == IF l = 1 THEN <<>> ELSE text[l - 1] \o rs[l - 1] \o <<NL>>
  IN  text

(* The rows with an end of line between them: what Save writes. *)
Flat(rs) == Above(rs)[Len(rs)] \o rs[Len(rs)]

(* What is left of the first characters without CR. *)
KeptAfter(chars) ==
  LET kept[k \in 0 .. Len(chars)] ==
        IF k = 0 THEN <<>> ELSE IF chars[k] = CR THEN kept[k - 1] ELSE Append(kept[k - 1], chars[k])
  IN  kept

WithoutCR(chars) == KeptAfter(chars)[Len(chars)]

(* ReadFile into the buffer: the end of a longer file is cut off, and      *)
(* nothing is said of it.                                                  *)
Read(chars) == SubSeq(chars, 1, IF Len(chars) < FileMax THEN Len(chars) ELSE FileMax)

(* A file that cannot be read or is not there: an empty row. *)
Shown(chars) == IF chars = Unreadable THEN << <<>> >> ELSE Rows(Read(chars))

(* CmdEditor and Open.  Between two edits anything may happen to the file. *)
Open(chars) ==
  /\ ~active /\ keys < MaxKeys
  /\ file' = chars
  /\ lines' = Shown(chars)
  /\ curLine' = 1 /\ curCol' = 0 /\ scrollTop' = 1
  /\ dirty' = FALSE /\ active' = TRUE
  /\ damaged' = FALSE
  /\ keys' = keys + 1

(* Faulty variant of SavedDirty: a failed write counts as saved. *)
SavedDirtyAlways(ok) == FALSE

SavedDirty(ok) == dirty /\ ~ok

(* Save.  A WriteFile that fails leaves the file as it was, or written but *)
(* not in the table, or it has cost it: it cannot be read, or it holds     *)
(* rows of both or what else the drive held there, which is any file.      *)
Save ==
  \E ok \in BOOLEAN :
    /\ file' \in (IF ok THEN {Flat(lines)} ELSE Files \cup {file, Flat(lines), Unreadable})
    /\ dirty' = SavedDirty(ok)
    /\ damaged' = (~ok /\ (damaged \/ file' # file))
    /\ UNCHANGED <<lines, place, scrollTop, active>>

---------------------------------------------------------------------------
(* Keys.  Each operator is what lines, cursor and dirty are afterwards.    *)

At(l, c) == /\ curLine' = l /\ curCol' = c
            /\ UNCHANGED <<lines, dirty>>
Edited(rs, l, c) == lines' = rs /\ curLine' = l /\ curCol' = c /\ dirty' = TRUE
Least(i, j) == IF i < j THEN i ELSE j

(* Faulty variant of Clamped: the column is kept. *)
ClampedNot(l) == curCol

(* ClampCursor *)
Clamped(l) == Least(curCol, Len(lines[l]))

Left == IF curCol > 0 THEN At(curLine, curCol - 1)
        ELSE IF curLine > 1 THEN At(curLine - 1, Len(lines[curLine - 1])) ELSE At(curLine, curCol)
Right == IF curCol < Len(Row) THEN At(curLine, curCol + 1)
         ELSE IF curLine < Len(lines) THEN At(curLine + 1, 0) ELSE At(curLine, curCol)
Up == IF curLine > 1 THEN At(curLine - 1, Clamped(curLine - 1)) ELSE At(curLine, curCol)
Down == IF curLine < Len(lines) THEN At(curLine + 1, Clamped(curLine + 1)) ELSE At(curLine, curCol)
Home == At(curLine, 0)
End == At(curLine, Len(Row))

(* InsertChar, for a few characters one after the other: those for which   *)
(* there is room.  The cursor goes back over "back" of them.               *)
InsertChars(cs, back) ==
  LET n == Least(Len(cs), RoomIn(Row))
  IN  IF n = 0 THEN At(curLine, curCol)
      ELSE Edited([lines EXCEPT ![curLine] = Before(@, curCol) \o SubSeq(cs, 1, n) \o From(@, curCol)],
                  curLine, curCol + n - (IF n = Len(cs) THEN back ELSE 0))

(* Faulty variant of Joined: the lines below are not moved up. *)
JoinedOver(l) ==
  [i \in 1 .. Len(lines) - 1 |->
     IF i = l - 1 THEN lines[i] \o Before(lines[l], Least(Len(lines[l]), RoomIn(lines[i]))) ELSE lines[i]]

(* JoinLine of line l to the one above: what has room there. *)
Joined(l) ==
  [i \in 1 .. Len(lines) - 1 |->
     IF i < l - 1 THEN lines[i]
     ELSE IF i > l - 1 THEN lines[i + 1]
     ELSE lines[i] \o Before(lines[l], Least(Len(lines[l]), RoomIn(lines[i])))]

JoinLine(l) == Edited(Joined(l), l - 1, Len(lines[l - 1]))

(* The character at col, counted from 0, of the row of the cursor is taken out. *)
RemoveAt0(col) == [lines EXCEPT ![curLine] = Before(@, col) \o From(@, col + 1)]

BackSpace == IF curCol > 0 THEN Edited(RemoveAt0(curCol - 1), curLine, curCol - 1)
             ELSE IF curLine > 1 THEN JoinLine(curLine) ELSE At(curLine, curCol)
Delete == IF curCol < Len(Row) THEN Edited(RemoveAt0(curCol), curLine, curCol)
          ELSE IF curLine < Len(lines) THEN JoinLine(curLine + 1) ELSE At(curLine, curCol)

SplitLine ==
  IF Len(lines) >= MaxLines THEN At(curLine, curCol)
  ELSE Edited([i \in 1 .. Len(lines) + 1 |->
                 IF i < curLine THEN lines[i] ELSE IF i = curLine THEN Before(Row, curCol)
                 ELSE IF i = curLine + 1 THEN From(Row, curCol) ELSE lines[i - 1]],
              curLine + 1, 0)

Closing == [c \in {"(", "{"} |-> IF c = "(" THEN ")" ELSE "}"]

(* A closing bracket that stands there already is passed over. *)
Bracket(c) == IF curCol < Len(Row) /\ Row[curCol + 1] = c THEN At(curLine, curCol + 1)
              ELSE InsertChars(<<c>>, 0)

KeyDone ==
  \/ Left \/ Right \/ Up \/ Down \/ Home \/ End \/ BackSpace \/ Delete \/ SplitLine
  \/ InsertChars([i \in 1 .. TabWidth |-> " "], 0)
  \/ \E c \in DOMAIN Closing : InsertChars(<<c, Closing[c]>>, 1)
  \/ \E c \in {")", "}"} : Bracket(c)
  \/ \E c \in Plain : InsertChars(<<c>>, 0)

(* ScrollToCursor *)
Scrolled(l) ==
  IF l < scrollTop THEN l ELSE IF l >= scrollTop + Visible THEN l - Visible + 1 ELSE scrollTop

(* Update *)
Key ==
  /\ active /\ keys < MaxKeys
  /\ KeyDone
  /\ scrollTop' = Scrolled(curLine')
  /\ keys' = keys + 1
  /\ UNCHANGED <<active, file, damaged>>

CtrlS == active /\ keys < MaxKeys /\ Save /\ keys' = keys + 1

(* ^Q and ESC: without saving, and without asking. *)
Quit == active /\ active' = FALSE
        /\ UNCHANGED <<lines, place, scrollTop, dirty, file, damaged, keys>>

Init ==
  /\ lines = << <<>> >> /\ curLine = 1 /\ curCol = 0 /\ scrollTop = 1
  /\ dirty = FALSE /\ active = FALSE /\ damaged = FALSE /\ keys = 0
  /\ file = <<>>

Next == (\E chars \in Files \cup {file} : Open(chars)) \/ Key \/ CtrlS \/ Quit \/ (keys = MaxKeys /\ UNCHANGED vars)

Spec == Init /\ [][Next]_vars

---------------------------------------------------------------------------
(* The buffers are never overrun, and the row of the cursor is on the      *)
(* screen: what Draw and InsertChar rely on.                               *)
TypeOK ==
  /\ Len(lines) \in 1 .. MaxLines
  /\ \A l \in DOMAIN lines : Len(lines[l]) < MaxCols
  /\ curLine \in DOMAIN lines /\ curCol \in 0 .. Len(Row)
  /\ active => curLine \in scrollTop .. scrollTop + Visible - 1

(* A file within the limits of the editor: no longer than the buffer, no   *)
(* more rows than there are, none of them longer than a row may be.        *)
FitsWidth(chars) ==
  \A i, j \in DOMAIN chars :
    Cardinality({k \in i .. j : chars[k] # CR}) >= MaxCols => \E k \in i .. j : chars[k] = NL

Fits(chars) ==
  /\ chars # Unreadable /\ Len(chars) <= FileMax
  /\ Cardinality({i \in DOMAIN chars : chars[i] = NL}) < MaxLines
  /\ FitsWidth(chars)

(* Without the mark for unsaved changes, a file within the limits holds    *)
(* what is shown: Open shows all of it, and a Save that failed is not      *)
(* taken for a good one.  Of a file beyond the limits Open shows a part,   *)
(* without the mark, and the next Save loses the rest; and a Save that     *)
(* fails on a text without the mark leaves it without, whatever has become *)
(* of the file.                                                            *)
CleanIsSaved == (active /\ ~dirty /\ ~damaged /\ Fits(file)) => WithoutCR(file) = Flat(lines)

(* What a save wrote fits the buffer it is put together in, and is what is *)
(* shown when the file is opened again: the limits of Open are not below   *)
(* those of Save.                                                          *)
ReopensAsSaved == active => (Len(Flat(lines)) <= FileMax /\ Shown(Flat(lines)) = lines)

(* The file, the rows and the mark between them always agree. *)
SavedIsKept == CleanIsSaved /\ ReopensAsSaved

(* The editor works on its rows as on one text: no key does more than it   *)
(* should to characters elsewhere.                                         *)
Abstract == INSTANCE TextBuffer WITH
  text <- Flat(lines), pos <- Len(Above(lines)[curLine]) + curCol, shown <- active

ImplementsTextBuffer == Abstract!Spec

=============================================================================

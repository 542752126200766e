------------------------------ MODULE Terminal ------------------------------
(***************************************************************************)
(* The console, the shell that reads its commands from it, and the main    *)
(* loop that dispatches keys (src/Console/Console.cc, src/shell/Shell.cc,  *)
(* src/kernel.cc).                                                         *)
(*                                                                         *)
(* There is no line buffer: a command is what stands in the last row of    *)
(* the console when Enter is pressed, and a handler gets a pointer into    *)
(* that row, over which the command's own output may scroll.               *)
(***************************************************************************)
EXTENDS Integers, Sequences

CONSTANTS
  MaxLine,     \* MAX_LINE
  MaxCols,     \* MAX_COLS
  NameMax,     \* room for the name of a command in Execute
  Typable,     \* characters the user types, with " "
  Commands,    \* Shell::commands: names to "echo", "clear", "help", "neenor"
  Games,       \* names of files Loader::Run runs
  GameLines    \* lines it prints: up to so many variables

ASSUME TerminalAssumption ==
  /\ MaxLine \in Nat \ {0} /\ MaxCols \in Nat \ {0, 1}
  /\ {NameMax, GameLines} \subseteq Nat

VARIABLES
  rows,     \* Console::lines up to lineCount, each up to its NUL; col is the length of the last
  active,   \* Editor::active
  typed,    \* history: what was typed since the last command, until it was too much for a row
  wrapped,  \* history: it was
  ran       \* history: the last command, and whether its handler saw the arguments typed

terminalVars == <<rows, active, typed, wrapped, ran>>

---------------------------------------------------------------------------
(* Console *)

Last_(rs) == rs[Len(rs)]
AllButLast(s) == SubSeq(s, 1, Len(s) - 1)

(* Faulty variant of NewLine: the last row is not blanked when scrolling. *)
NewLineDirty(rs) ==
  IF Len(rs) < MaxLine THEN Append(rs, <<>>) ELSE Append(Tail(rs), Last_(rs))

NewLine(rs) == Append(IF Len(rs) < MaxLine THEN rs ELSE Tail(rs), <<>>)

(* Print of a character that is neither \n nor \b *)
Put(rs, c) ==
  LET room == IF Len(Last_(rs)) >= MaxCols - 1 THEN NewLine(rs) ELSE rs
  IN  [room EXCEPT ![Len(room)] = Append(@, c)]

Back(rs) == IF Last_(rs) = <<>> THEN rs ELSE [rs EXCEPT ![Len(rs)] = AllButLast(@)]

(* The rows after each of the characters. *)
Printed(rs, text) ==
  LET after[k \in 0 .. Len(text)] == IF k = 0 THEN rs ELSE Put(after[k - 1], text[k])
  IN  after

Println(rs, text) == NewLine(Printed(rs, text)[Len(text)])

Cleared == << <<>> >>

(* A line the system prints, whatever it says. *)
Line == <<"=">>

---------------------------------------------------------------------------
(* Shell::Execute *)

(* The position of the first cell from p on in which the line has or has   *)
(* not a space.                                                            *)
From(line, p, space) ==
  LET at == {i \in p .. Len(line) : (line[i] = " ") = space}
  IN  IF at = {} THEN Len(line) + 1 ELSE CHOOSE i \in at : \A j \in at : i <= j

(* Where name and arguments begin and end; a name is cut to its room, and  *)
(* the rest of it is then the first of the arguments.                      *)
Split(line) ==
  LET name == From(line, 1, FALSE)
      stop == From(line, name, TRUE)
      end == IF stop > name + NameMax THEN name + NameMax ELSE stop
  IN  [name |-> SubSeq(line, name, end - 1), args |-> From(line, end, FALSE)]

Suffix(line, p) == SubSeq(line, p, Len(line))

(* Faulty variant of Given: the row is not looked for where it was. *)
GivenOfLast(before, after, p) == Suffix(Last_(after), p)

(* What stands behind the pointer args, once the newline is printed. *)
Given(before, after, p) == Suffix(after[Len(before)], p)

(* What a game leaves: lines for its variables. *)
Says(rs, lines) ==
  LET after[k \in 0 .. lines] == IF k = 0 THEN rs ELSE Println(after[k - 1], Line)
  IN  after[lines]

(* Enter on a blank line does nothing, not even a newline. *)
Enter ==
  /\ ~active
  /\ LET line == Last_(rows)
         cmd == Split(line)
         open == NewLine(rows)
         given == Given(rows, open, cmd.args)
         Runs(kind, after) ==
           /\ rows' = after
           /\ ran' = [kind |-> kind, arrived |-> given = Suffix(line, cmd.args),
                      full |-> Len(rows) = MaxLine]
           /\ typed' = <<>> /\ wrapped' = FALSE
         Is(kind) == cmd.name \in DOMAIN Commands /\ Commands[cmd.name] = kind
     IN  /\ cmd.name # <<>>
         /\ \/ Is("echo") /\ Runs("echo", Println(open, given)) /\ UNCHANGED active
            \/ Is("clear") /\ Runs("clear", Cleared) /\ UNCHANGED active
            \/ /\ Is("help")
               /\ Runs("help", Says(open, 2)) /\ UNCHANGED active
            \/ /\ Is("neenor")
               /\ \E mounted \in BOOLEAN : active' = (mounted /\ given # <<>>)
               /\ Runs("neenor", IF active' THEN open ELSE Println(open, Line))
            \/ /\ cmd.name \notin DOMAIN Commands /\ cmd.name \in Games
               /\ \E k \in 0 .. GameLines : Runs("game", Says(open, k))
               /\ UNCHANGED active
            \/ /\ cmd.name \notin DOMAIN Commands \cup Games
               /\ Runs("unknown", Println(open, Line \o cmd.name)) /\ UNCHANGED active

(* The main loop, with a character or \b from PollChar. *)
Type(c) ==
  /\ ~active
  /\ rows' = Put(rows, c)
  /\ wrapped' = (wrapped \/ Len(Last_(rows)) >= MaxCols - 1)
  /\ typed' = IF wrapped' THEN <<>> ELSE Append(typed, c)
  /\ UNCHANGED <<active, ran>>

Backspace ==
  /\ ~active
  /\ rows' = Back(rows)
  /\ typed' = IF typed = <<>> THEN typed ELSE AllButLast(typed)
  /\ UNCHANGED <<active, wrapped, ran>>

(* Editor::Update, until the editor is left: nothing reaches the console. *)
LeaveEditor == active /\ active' = FALSE /\ UNCHANGED <<rows, typed, wrapped, ran>>

TerminalInit ==
  /\ rows = Cleared
  /\ active = FALSE
  /\ typed = <<>>
  /\ wrapped = FALSE
  /\ ran = [kind |-> "none", arrived |-> TRUE, full |-> FALSE]

TerminalNext == Enter \/ (\E c \in Typable : Type(c)) \/ Backspace \/ LeaveEditor

TerminalSpec == TerminalInit /\ [][TerminalNext]_terminalVars

---------------------------------------------------------------------------
TerminalTypeOK ==
  /\ Len(rows) \in 1 .. MaxLine
  /\ \A i \in DOMAIN rows : Len(rows[i]) < MaxCols
  /\ active \in BOOLEAN

(* No row is overrun, and the row Enter reads is what was typed since the  *)
(* last command, as long as that fits in a row: no output is left in front *)
(* of it, and backspace takes back exactly one character.                  *)
RunsWhatWasTyped == TerminalTypeOK /\ (~wrapped => Last_(rows) = typed)

(* While the console has a free row, a handler sees the arguments that     *)
(* were typed: they stay where they are while the output begins below.     *)
ArgumentsArrive == ~ran.full => ran.arrived

=============================================================================

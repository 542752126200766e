----------------------------- MODULE ScriptLang -----------------------------
(***************************************************************************)
(* What the interpreter and the compiler of EnScript have in common: lines *)
(* with their arguments (src/Script/Script.hh), numbers of 64 bits and of  *)
(* the declared widths, and the world a game runs in.                      *)
(***************************************************************************)
EXTENDS Integers, Sequences

CONSTANTS
  Slots,       \* SCRIPT_MAX_VARS
  Half,        \* half of what a number of 1, 2, 4, 8 bytes can be: 2^7 ..
  ArenaSlots,  \* SCRIPT_ARENA_BYTES / 8
  RandNext,    \* what the xorshift steps make of the state of the generator
  Keys,        \* keys a script may ask for
  CanvasMax,   \* bound: what is drawn behind that is not told apart
  Horizon      \* from this millisecond on the player holds ESC

Var == 1 .. Slots

KEY_ESC == 263

ASSUME LangAssumption ==
  /\ {Slots, ArenaSlots, CanvasMax, Horizon} \subseteq Nat
  /\ Half \in [{1, 2, 4, 8} -> Nat \ {0}] /\ \A w \in {1, 2, 4} : Half[w] <= Half[8]
  /\ \A s \in DOMAIN RandNext : RandNext[s] \in DOMAIN RandNext /\ s \in Nat \ {0}
  /\ KEY_ESC \in Keys

---------------------------------------------------------------------------
(* Numbers *)

MinLong == -Half[8]
Long == MinLong .. Half[8] - 1

(* The value a cast to a signed number of w bytes leaves. *)
Wrap(w, v) == ((v + Half[w]) % (2 * Half[w])) - Half[w]

Unsigned(v) == v % (2 * Half[8])

(* Division of C and of idiv: towards zero. *)
Quotient(x, d) ==
  LET abs(n) == IF n < 0 THEN -n ELSE n
      q == abs(x) \div abs(d)
  IN  IF (x < 0) = (d < 0) THEN q ELSE -q

(* idiv has no result for it and traps; neither machine tests for it. *)
Traps(x, d) == x = MinLong /\ d = -1

Compare(cmp, x, y) ==
  CASE cmp = "=" -> x = y
    [] cmp = "!" -> x # y
    [] cmp = "<" -> x < y
    [] cmp = ">" -> x > y
    [] cmp = "l" -> x <= y
    [] cmp = "g" -> x >= y

---------------------------------------------------------------------------
(* Lines.  They are numbered from 1, and Len(lines) + 1 is behind the last.*)

Con(v) == [isVar |-> FALSE, value |-> v]
V(x) == [isVar |-> TRUE, value |-> x]

Arg == [isVar: {FALSE}, value: Long] \cup [isVar: {TRUE}, value: Var]

(* Script::Val *)
Val(arg, vars) == IF arg.isVar THEN vars[arg.value] ELSE arg.value

(* A line with arguments, a line with a jump, and a test with a jump. *)
Op(op, a, b, c) ==
  [op |-> op, a |-> a, b |-> b, c |-> c, d |-> Con(0), e |-> Con(0), cmp |-> "=", neg |-> FALSE, target |-> 0]
JumpTo(op, target) == [Op(op, Con(0), Con(0), Con(0)) EXCEPT !.target = target]
IfLine(a, cmp, b, neg, target) ==
  [Op("if", a, b, Con(0)) EXCEPT !.cmp = cmp, !.neg = neg, !.target = target]

(* OP_SET_BYTE .. OP_SET_LONG and OP_TRUNC: bytes of the result.  The other *)
(* operations work on whole numbers.                                        *)
WidthOf(line) ==
  CASE line.op = "set_byte" -> 1
    [] line.op = "set_short" -> 2
    [] line.op = "set_int" -> 4
    [] line.op = "trunc" -> line.b.value
    [] OTHER -> 8

(* What the parser lets through (Script::ParseStatement, ResolveLables):   *)
(* results go to variables, jumps to lines or behind the last one.         *)
Jumps == {"goto", "gosub", "if"}
Assigns == {"set", "set_byte", "set_short", "set_int", "set_long", "trunc", "add", "sub",
            "mul", "div", "rnd", "key", "screen", "millis", "alloc"}
Ops == Jumps \cup Assigns
         \cup {"return", "end", "rect", "text", "num", "wait", "flip", "poke", "peek"}

WellFormed(line, n) ==
  /\ line.op \in Ops
  /\ line.op \in Jumps => line.target \in 1 .. n + 1
  /\ line.a \in Arg /\ line.c \in Arg /\ line.d \in Arg /\ line.e \in Arg
  /\ IF line.op = "key" THEN line.b \in {Con(k) : k \in Keys} ELSE line.b \in Arg
  /\ line.op \in Assigns => line.a.isVar
  /\ line.op = "screen" => line.b.isVar
  /\ line.op = "peek" => line.c.isVar
  /\ line.op = "if" => line.cmp \in {"=", "!", "<", ">", "l", "g"}
  /\ line.op = "trunc" => line.b \in {Con(w) : w \in {1, 2, 4}}

IsScript(ls) ==
  /\ Len(ls) \in Nat /\ DOMAIN ls = 1 .. Len(ls)
  /\ \A i \in DOMAIN ls : WellFormed(ls[i], Len(ls))

---------------------------------------------------------------------------
(* The world *)

ScreenW == 3
ScreenH == 2

(* The keys held at a time: what PumpState makes of the scan codes so far. *)
HeldAt(held, now) == IF now >= Horizon THEN {KEY_ESC} ELSE held[now]

(* The back buffer, as the list of what was drawn on it. *)
Drawn(canvas, what) == IF Len(canvas) < CanvasMax THEN Append(canvas, what) ELSE canvas

(* What Frames::Alloc says, and what the frames it hands out held before.  *)
Worlds == [held: [0 .. Horizon - 1 -> SUBSET Keys], memory: BOOLEAN,
           seed: DOMAIN RandNext, residue: {MinLong}]

=============================================================================

-------------------------------- MODULE Lower -------------------------------
(***************************************************************************)
(* The two loaders of EnScript: Script::Load for its form in lines, with   *)
(* ParseStatement and ResolveLables (src/Script/Script.cc), and            *)
(* Parser::Load for its C-like form (src/Lang/Parse.cc), which lowers      *)
(* expressions and blocks to lines while it reads them, with at most ten   *)
(* temporaries in a statement.  Both start from tokens.                    *)
(*                                                                         *)
(* The state of the parser is a record; an operator that stands for a      *)
(* parsing function takes it to what the function leaves, in "out" the     *)
(* argument the function returns.                                          *)
(***************************************************************************)
EXTENDS ScriptLang, TLC

CONSTANTS
  TempNames,  \* "$0" .. "$9"
  KeyCode,    \* codes of the keys by their names
  MaxLines, MaxVars, MaxLabels,  \* SCRIPT_MAX_LINES, SCRIPT_MAX_VARS, SCRIPT_MAX_LABLES
  StringPool, NameLength         \* SCRIPT_STRING_POOL, SCRIPT_NAME_LENGHT

ASSUME LowerAssumption ==
  /\ {MaxLines, MaxVars, MaxLabels, StringPool, NameLength} \subseteq Nat /\ MaxVars <= Slots
  /\ {KeyCode[k] : k \in DOMAIN KeyCode} \subseteq Keys

---------------------------------------------------------------------------
(* Tokens: words, of which some are numbers, strings, punctuation. *)

Token(kind, text) == [kind |-> kind, text |-> text, num |-> FALSE, value |-> 0]
W(name) == Token("word", name)
Num(v) == [W(ToString(v)) EXCEPT !.num = TRUE, !.value = v]
Str(text) == Token("string", text)
P(p) == Token("punct", p)
EndTok == Token("end", "")

Reading(toks) ==
  [toks |-> toks, lines |-> <<>>, refs |-> <<>>, labels |-> <<>>, names |-> <<>>,
   widths |-> <<>>, stringUsed |-> 0, tempNext |-> 1, out |-> Con(0), why |-> "ok"]

Good(s) == s.why = "ok"
Fail(s, why) == IF Good(s) THEN [s EXCEPT !.why = why] ELSE s

(* Peek(i), Next() *)
Peeked(s, i) == IF i < Len(s.toks) THEN s.toks[i + 1] ELSE EndTok
Skip(s, k) == [s EXCEPT !.toks = SubSeq(@, k + 1, Len(@))]
Expect(s, p) == IF Good(s) /\ Peeked(s, 0) = P(p) THEN Skip(s, 1) ELSE Fail(s, "syntax")
IsType(t) == t \in {W("byte"), W("short"), W("int"), W("long")}
Here(s) == Len(s.lines) + 1

---------------------------------------------------------------------------
(* Names *)

Index(seq, e) == CHOOSE i \in DOMAIN seq : seq[i] = e
Known(seq, e) == \E i \in DOMAIN seq : seq[i] = e

(* A slot for the name: the loops of FindVarSlot and of NewTemp. *)
Named(s, name, why) ==
  IF ~Good(s) THEN s
  ELSE IF Known(s.names, name) THEN [s EXCEPT !.out = V(Index(s.names, name))]
  ELSE IF Len(s.names) >= MaxVars THEN Fail(s, why)
  ELSE [s EXCEPT !.names = Append(@, name), !.widths = Append(@, 0), !.out = V(Len(s.names) + 1)]

FindVarSlot(s, name) ==
  IF Len(name) = 0 \/ Len(name) >= NameLength THEN Fail(s, "not a valid name")
  ELSE Named(s, name, "not a valid name")

(* ParseArg, ParseVar: a number may be an argument, and one without a sign *)
(* cannot be the name of a variable.                                       *)
ParseArg(s, t) == IF t.num THEN [s EXCEPT !.out = Con(t.value)] ELSE FindVarSlot(s, t.text)
ParseVar(s, t) ==
  IF t.num /\ t.value >= 0 THEN Fail(s, "not a valid variable name") ELSE FindVarSlot(s, t.text)

NewTemp(s) ==
  IF s.tempNext > Len(TempNames) THEN Fail(s, "expression too complex")
  ELSE Named([s EXCEPT !.tempNext = @ + 1], TempNames[s.tempNext], "expression too complex")

(* Whatever name begins with a dollar counts as a temporary. *)
Dollar(name) == SubSeq(name, 1, 1) = "$"
IsTemp(s, arg) == arg.isVar /\ Dollar(s.names[arg.value])

---------------------------------------------------------------------------
(* Lines *)

(* EmitOp2, EmitOp3, EmitBare, EmitIf *)
Emit(s, line) ==
  IF ~Good(s) THEN s
  ELSE IF Len(s.lines) >= MaxLines THEN Fail(s, "script too long")
  ELSE [s EXCEPT !.lines = Append(@, line)]

(* EmitRef, and the ref an if is given: the target is found later. *)
EmitRef(s, line, name) ==
  LET e == Emit(s, line) IN [e EXCEPT !.refs = Append(@, <<Len(e.lines), name>>)]

EmitLabel(s, name) ==
  IF Len(name) >= NameLength \/ Len(s.labels) >= MaxLabels THEN Fail(s, "too many labels")
  ELSE [s EXCEPT !.labels = Append(@, [name |-> name, line |-> Here(s)])]

(* The jump at the line goes to what is emitted next. *)
PatchHere(s, at) == IF Good(s) THEN [s EXCEPT !.lines[at].target = Here(s)] ELSE s

(* ResolveLables: the first label of the name. *)
ResolveLables(s) ==
  LET found(r) == {i \in DOMAIN s.labels : s.labels[i].name = r[2]}
      first(r) == CHOOSE i \in found(r) : \A j \in found(r) : i <= j
      ref(at) == {s.refs[k] : k \in {j \in DOMAIN s.refs : s.refs[j][1] = at}}
  IN  IF ~Good(s) THEN s
      ELSE IF \E k \in DOMAIN s.refs : found(s.refs[k]) = {} THEN Fail(s, "unknown label or sub")
      ELSE [s EXCEPT !.lines = [at \in DOMAIN @ |->
              IF ref(at) = {} THEN @[at]
              ELSE [@[at] EXCEPT !.target = s.labels[first(CHOOSE r \in ref(at) : TRUE)].line]]]

---------------------------------------------------------------------------
(* Script::ParseStatement: the words of commands with what is expected     *)
(* behind them, and the fields of the line it goes to.                     *)

Var_(field) == <<field, "var">>
Arg_(field) == <<field, "arg">>

TypeBytes == ("byte" :> 1) @@ ("short" :> 2) @@ ("int" :> 4) @@ ("long" :> 8)
SetOf == ("byte" :> "set_byte") @@ ("short" :> "set_short") @@ ("int" :> "set_int") @@ ("long" :> "set_long")

Shapes ==
  [w \in {"set", "add", "sub", "mul", "div", "rnd", "alloc"} \cup DOMAIN SetOf |-> <<Var_("a"), Arg_("b")>>]
    @@ ("rect" :> <<Arg_("a"), Arg_("b"), Arg_("c"), Arg_("d"), Arg_("e")>>)
    @@ ("text" :> <<Arg_("a"), Arg_("b"), <<"c", "string">>>>)
    @@ [w \in {"num", "poke"} |-> <<Arg_("a"), Arg_("b"), Arg_("c")>>]
    @@ ("peek" :> <<Arg_("a"), Arg_("b"), Var_("c")>>) @@ ("key" :> <<<<"b", "key">>, Var_("a")>>)
    @@ ("screen" :> <<Var_("a"), Var_("b")>>) @@ ("millis" :> <<Var_("a")>>) @@ ("wait" :> <<Arg_("a")>>)
    @@ [w \in {"flip", "end", "return"} |-> <<>>]

ParseKeyName(s, t) ==
  IF t.text \in DOMAIN KeyCode THEN [s EXCEPT !.out = Con(KeyCode[t.text])] ELSE Fail(s, "no such key")

(* The string with its end goes into the pool; the line has its offset. *)
Pooled(s, t) ==
  LET used == s.stringUsed + Len(t.text) + 1
  IN  IF used > StringPool THEN Fail(s, "no room for the string")
      ELSE [s EXCEPT !.out = Con(s.stringUsed), !.stringUsed = used]

ReadAs(s, kind, t) ==
  CASE kind = "var" -> ParseVar(s, t) [] kind = "arg" -> ParseArg(s, t)
    [] kind = "key" -> ParseKeyName(s, t) [] kind = "string" -> Pooled(s, t)

RECURSIVE Filled(_, _, _, _)
Filled(s, line, shape, words) ==
  IF shape = <<>> \/ ~Good(s) THEN Emit(s, line)
  ELSE LET read == ReadAs(s, shape[1][2], words[1])
       IN  Filled(read, [line EXCEPT ![shape[1][1]] = read.out], Tail(shape), Tail(words))

(* From here on the variable set by byte, short, int or long has a width. *)
Widened(s, word) ==
  IF Good(s) /\ word \in DOMAIN SetOf
  THEN [s EXCEPT !.widths[s.lines[Len(s.lines)].a.value] = TypeBytes[word]] ELSE s

ParseCommand(s, word, args) ==
  Widened(Filled(s, Op(IF word \in DOMAIN SetOf THEN SetOf[word] ELSE word, Con(0), Con(0), Con(0)),
                 Shapes[word], args), word)

IsTest(words) == Len(words) = 6 /\ words[3].text \in {"=", "!", "<", ">"} /\ words[5].text = "goto"
ParseTest(a, words) ==
  LET b == ParseArg(a, words[4]) IN EmitRef(b, IfLine(a.out, words[3].text, b.out, FALSE, 0), words[6].text)

ParseStatement(s, words) ==
  LET op == words[1].text
      n == Len(words)
  IN  IF op = "label" /\ n = 2 THEN EmitLabel(s, words[2].text)
      ELSE IF op \in {"goto", "gosub"} /\ n = 2 THEN EmitRef(s, JumpTo(op, 0), words[2].text)
      ELSE IF op = "if" /\ IsTest(words) THEN ParseTest(ParseArg(s, words[2]), words)
      ELSE IF op \in DOMAIN Shapes /\ (n = Len(Shapes[op]) + 1 \/ op \in {"flip", "end"})
        THEN ParseCommand(s, op, Tail(words))
      ELSE Fail(s, "unknown or malformed command")

(* Script::Load: a statement in a line, of which no more than eight words  *)
(* are read.                                                               *)
RECURSIVE LinesRead(_, _)
LinesRead(s, ls) ==
  IF ~Good(s) \/ ls = <<>> THEN s
  ELSE LinesRead(IF ls[1] = <<>> THEN s
                 ELSE ParseStatement(s, SubSeq(ls[1], 1, IF Len(ls[1]) < 8 THEN Len(ls[1]) ELSE 8)), Tail(ls))
ScriptLoad(ls) == ResolveLables(LinesRead(Reading(<<>>), ls))

---------------------------------------------------------------------------
(* Expressions *)

RECURSIVE Expr(_), ExprRest(_), TermRest(_), Unary(_)

(* Faulty variant of Materialize: a variable is worked on in place. *)
MaterializeConstants(s) ==
  IF ~Good(s) \/ s.out.isVar THEN s
  ELSE LET t == NewTemp(s) IN IF Good(t) THEN Emit(t, Op("set", t.out, s.out, Con(0))) ELSE t

(* The operand on the left is copied, unless it is a temporary. *)
Materialize(s) ==
  IF ~Good(s) \/ IsTemp(s, s.out) THEN s
  ELSE LET t == NewTemp(s) IN IF Good(t) THEN Emit(t, Op("set", t.out, s.out, Con(0))) ELSE t

(* An element of a block is fetched into a temporary. *)
Fetch(to, base, index) == Emit(to, Op("peek", base, index, to.out))
Element(index, base) == Fetch(NewTemp(index), base, index.out)
Indexed(base) ==
  IF ~Good(base) \/ Peeked(base, 0) # P("[") THEN base
  ELSE Element(Expect(Expr(Skip(base, 1)), "]"), base.out)

Primary(s) ==
  IF Peeked(s, 0) = P("(") THEN Expect(Expr(Skip(s, 1)), ")")
  ELSE IF Peeked(s, 0).kind # "word" THEN Fail(s, "expected a value")
  ELSE Indexed(ParseArg(Skip(s, 1), Peeked(s, 0)))

Minus(to, v) == Emit(Emit(to, Op("set", to.out, Con(0), Con(0))), Op("sub", to.out, v, Con(0)))
Negated(v) ==
  IF ~Good(v) THEN v
  ELSE IF v.out.isVar THEN Minus(NewTemp(v), v.out)
  ELSE [v EXCEPT !.out = Con(Wrap(8, -v.out.value))]

Unary(s) ==
  IF Good(s) /\ Peeked(s, 0) = P("-") THEN Negated(Unary(Skip(s, 1)))
  ELSE IF Good(s) THEN Primary(s) ELSE s

(* left op right, in the temporary that holds left *)
Into(left, right, op) ==
  [(IF Good(right) THEN Emit(right, Op(op, left.out, right.out, Con(0))) ELSE right) EXCEPT !.out = left.out]

OpOf(t) == CASE t = P("*") -> "mul" [] t = P("/") -> "div" [] t = P("+") -> "add" [] t = P("-") -> "sub"

(* The loops of Term and Expr: operators of a level associate to the left. *)
Factor(left, op) == Into(left, Unary(left), op)
TermRest(s) ==
  IF Good(s) /\ Peeked(s, 0) \in {P("*"), P("/")}
  THEN TermRest(Factor(Materialize(Skip(s, 1)), OpOf(Peeked(s, 0)))) ELSE s
Term(s) == TermRest(Unary(s))

Summand(left, op) == Into(left, Term(left), op)
ExprRest(s) ==
  IF Good(s) /\ Peeked(s, 0) \in {P("+"), P("-")}
  THEN ExprRest(Summand(Materialize(Skip(s, 1)), OpOf(Peeked(s, 0)))) ELSE s
Expr(s) == IF Good(s) THEN ExprRest(Term(s)) ELSE s

---------------------------------------------------------------------------
(* Statements *)

RECURSIVE Statement(_), Statements(_), IfStatement(_)

Comparisons == [p \in {"<", ">"} |-> p] @@ ("==" :> "=") @@ ("!=" :> "!") @@ ("<=" :> "l") @@ (">=" :> "g")

(* Condition, and EmitIf behind it. *)
EmitIf(b, a, cmp) == Emit(b, IfLine(a, cmp, b.out, TRUE, 0))
Compared(a) ==
  IF Good(a) /\ Peeked(a, 0).text \in DOMAIN Comparisons
  THEN EmitIf(Expect(Expr(Skip(a, 1)), ")"), a.out, Comparisons[Peeked(a, 0).text])
  ELSE Fail(a, "expected a comparison operator")
TestLine(s) == Compared(Expr(Expect(s, "(")))

Block(s) == Expect(Statements(Expect(s, "{")), "}")

(* if (..) goto name; | if (..) {..} [else {..} | else if ..]               *)
(* The condition's code is the same in both; what is read behind it tells   *)
(* whether the jump is taken when it holds or when it does not.             *)
IfGoto(test, at) ==
  IF Peeked(test, 1).kind # "word" THEN Fail(test, "expected a label name after goto")
  ELSE Expect(Skip([test EXCEPT !.lines[at].neg = FALSE, !.refs = Append(@, <<at, Peeked(test, 1).text>>)], 2), ";")

OtherBlock(s) == IF Peeked(s, 0) = W("if") THEN IfStatement(s) ELSE Block(s)
Else(jmp, skip) ==
  IF Good(jmp) THEN PatchHere(OtherBlock([PatchHere(jmp, skip) EXCEPT !.tempNext = 1]), Len(jmp.lines)) ELSE jmp
BehindBlock(body, skip) ==
  IF Good(body) /\ Peeked(body, 0) = W("else") THEN Else(Emit(Skip(body, 1), JumpTo("goto", 0)), skip)
  ELSE PatchHere(body, skip)
BehindTest(test) ==
  IF ~Good(test) THEN test
  ELSE IF Peeked(test, 0) = W("goto") THEN IfGoto(test, Len(test.lines))
  ELSE BehindBlock(Block(test), Len(test.lines))
IfStatement(s) == BehindTest(TestLine(Skip(s, 1)))

(* while (..) {..} *)
Loop_(test, top) == PatchHere(Emit(Block(test), JumpTo("goto", top)), Len(test.lines))
WhileStatement(s) == Loop_(TestLine(Skip(s, 1)), Here(s))

EmitValue(s, op, a) == Emit(s, Op(op, a, s.out, Con(0)))

(* type name = expression; the width is known from here on. *)
Declared(dst, type) ==
  IF ~Good(dst) THEN dst
  ELSE EmitValue(Expect(Expr([dst EXCEPT !.widths[dst.out.value] = TypeBytes[type]]), ";"), SetOf[type], dst.out)
Declaration(s) == Declared(ParseVar(Skip(s, 3), Peeked(s, 1)), Peeked(s, 0).text)

(* name = expression; cut to the width of the variable, if it has one. *)
Cut(s, dst) ==
  IF Good(s) /\ s.widths[dst.value] \in {1, 2, 4}
  THEN Emit(s, Op("trunc", dst, Con(s.widths[dst.value]), Con(0))) ELSE s
Assigned_(dst) == IF Good(dst) THEN Cut(EmitValue(Expect(Expr(dst), ";"), "set", dst.out), dst.out) ELSE dst
Assignment(s) == Assigned_(ParseVar(Skip(s, 2), Peeked(s, 0)))

(* name[expression] = expression; *)
StoreValue(val, base, index) == Emit(val, Op("poke", base, index, val.out))
StoreAt(index, base) == StoreValue(Expect(Expr(index), ";"), base, index.out)
StoreIn(base) == StoreAt(Expect(Expect(Expr(base), "]"), "="), base.out)
Store(s) == StoreIn(ParseArg(Skip(s, 2), Peeked(s, 0)))

(* The words of a command up to the semicolon, at most eight. *)
RECURSIVE WordsOf(_)
WordsOf(s) ==
  IF Peeked(s, 0).kind \in {"word", "string"} THEN <<Peeked(s, 0)>> \o WordsOf(Skip(s, 1)) ELSE <<>>

Command(s) ==
  LET words == WordsOf(s)
  IN  IF Len(words) \in 1 .. 8 THEN ParseStatement(Expect(Skip(s, Len(words)), ";"), words)
      ELSE Fail(s, "expected a statement")

(* name(); *)
Call(s) == EmitRef(Expect(Skip(s, 3), ";"), JumpTo("gosub", 0), Peeked(s, 0).text)

Statement(s0) ==
  LET s == [s0 EXCEPT !.tempNext = 1]
      word == Peeked(s, 0).kind = "word"
      at == IsType(Peeked(s, 0))
  IN  IF ~Good(s) THEN s
      ELSE IF Peeked(s, 0) = W("if") THEN IfStatement(s)
      ELSE IF Peeked(s, 0) = W("while") THEN WhileStatement(s)
      ELSE IF word /\ Peeked(s, 1) = P("[") THEN Store(s)
      ELSE IF at /\ Peeked(s, 1).kind = "word" /\ Peeked(s, 2) = P("=") THEN Declaration(s)
      ELSE IF ~at /\ word /\ Peeked(s, 1) = P("=") THEN Assignment(s)
      ELSE IF word /\ Peeked(s, 1) = P("(") /\ Peeked(s, 2) = P(")") THEN Call(s)
      ELSE Command(s)

(* The loop of Block *)
Statements(s) ==
  IF ~Good(s) \/ Peeked(s, 0) = P("}") THEN s
  ELSE IF Peeked(s, 0) = EndTok THEN Fail(s, "unclosed '}'")
  ELSE Statements(Statement(s))

(* sub name() {..}: jumped over where it stands. *)
SubBody(skip, name) ==
  PatchHere(Emit(Block(EmitLabel(skip, name)), Op("return", Con(0), Con(0), Con(0))), Len(skip.lines))
Sub_(s) == SubBody(Emit(Expect(Expect(Skip(s, 2), "("), ")"), JumpTo("goto", 0)), Peeked(s, 1).text)

RECURSIVE Parsed(_)
Parsed(s) ==
  IF ~Good(s) \/ Peeked(s, 0) = EndTok THEN s
  ELSE IF Peeked(s, 0) = W("sub") /\ Peeked(s, 1).kind = "word" /\ Peeked(s, 2) = P("(") THEN Parsed(Sub_(s))
  ELSE Parsed(Statement(s))

(* Parser::Load *)
ParserLoad(toks) == ResolveLables(Parsed(Reading(toks)))

=============================================================================

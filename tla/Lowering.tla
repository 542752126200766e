------------------------------ MODULE Lowering ------------------------------
(***************************************************************************)
(* What a source means, for the comparison with what Lower makes of it.  A *)
(* source is a tree; Written is its text, as tokens, with no more          *)
(* parentheses than it needs, and Meaning is what it should do.  Listing   *)
(* is the text of a script in the form of lines.                           *)
(***************************************************************************)
EXTENDS Lower, FiniteSets

CONSTANT
  Patience    \* bound on how often Meaning repeats a loop

---------------------------------------------------------------------------
(* The text *)

RECURSIVE Text(_), TextOf(_), TextAll(_)

Strength(e) == IF e.e # "bin" THEN 3 ELSE IF e.op \in {"mul", "div"} THEN 2 ELSE 1
Sign == ("mul" :> P("*")) @@ ("div" :> P("/")) @@ ("add" :> P("+")) @@ ("sub" :> P("-"))

Paren(toks) == <<P("(")>> \o toks \o <<P(")")>>
At(e, least) == IF Strength(e) < least THEN Paren(Text(e)) ELSE Text(e)

Text(e) ==
  CASE e.e = "num" -> <<Num(e.v)>>
    [] e.e = "var" -> <<W(e.x)>>
    [] e.e = "neg" -> <<P("-")>> \o At(e.a, 3)
    [] e.e = "bin" -> At(e.a, Strength(e)) \o <<Sign[e.op]>> \o At(e.b, Strength(e) + 1)
    [] e.e = "at" -> <<W(e.x), P("[")>> \o Text(e.a) \o <<P("]")>>

Spelled(cmp) == CHOOSE p \in DOMAIN Comparisons : Comparisons[p] = cmp
Test(s) == Paren(Text(s.a) \o <<P(Spelled(s.cmp))>> \o Text(s.b))
Braces(toks) == <<P("{")>> \o toks \o <<P("}")>>

TextOf(s) ==
  CASE s.s = "decl" -> <<W(s.type), W(s.x), P("=")>> \o Text(s.a) \o <<P(";")>>
    [] s.s = "set" -> <<W(s.x), P("=")>> \o Text(s.a) \o <<P(";")>>
    [] s.s = "store" -> <<W(s.x), P("[")>> \o Text(s.a) \o <<P("]"), P("=")>> \o Text(s.b) \o <<P(";")>>
    [] s.s = "if" -> <<W("if")>> \o Test(s) \o Braces(TextAll(s.yes))
    [] s.s = "ifelse" -> <<W("if")>> \o Test(s) \o Braces(TextAll(s.yes)) \o <<W("else")>>
                         \o (IF Len(s.no) = 1 /\ s.no[1].s \in {"if", "ifelse"} THEN TextOf(s.no[1])
                             ELSE Braces(TextAll(s.no)))
    [] s.s = "while" -> <<W("while")>> \o Test(s) \o Braces(TextAll(s.yes))
    [] s.s = "over" -> <<W("if")>> \o Test(s) \o <<W("goto"), W(s.x), P(";")>> \o TextAll(s.yes)
                       \o <<W("label"), W(s.x), P(";")>>
    [] s.s = "call" -> <<W(s.x), P("("), P(")"), P(";")>>
    [] s.s = "command" -> s.words \o <<P(";")>>

TextAll(ss) == IF ss = <<>> THEN <<>> ELSE TextOf(ss[1]) \o TextAll(Tail(ss))

SubText(sub) == <<W("sub"), W(sub.name), P("("), P(")")>> \o Braces(TextAll(sub.body))

RECURSIVE SubsText(_)
SubsText(subs) == IF subs = <<>> THEN <<>> ELSE SubText(subs[1]) \o SubsText(Tail(subs))

Written(src) == TextAll(src.decls) \o TextAll(src.body) \o SubsText(src.subs)

---------------------------------------------------------------------------
(* The meaning: variables by name, slots of the arena, what was drawn.     *)

RECURSIVE Value(_, _), Do(_, _), ExecAll(_, _), Loop(_, _, _), WidthsAfter(_, _), WidthsBehind(_, _)

Slots_(st, s) == Wrap(8, st.v[s.x] + Value(s.a, st))

Value(e, st) ==
  CASE e.e = "num" -> e.v
    [] e.e = "var" -> st.v[e.x]
    [] e.e = "neg" -> Wrap(8, -Value(e.a, st))
    [] e.e = "at" -> IF Slots_(st, e) \in DOMAIN st.a THEN st.a[Slots_(st, e)] ELSE 0
    [] e.e = "bin" ->
         LET x == Value(e.a, st)
             y == Value(e.b, st)
         IN  Wrap(8, CASE e.op = "mul" -> x * y [] e.op = "add" -> x + y [] e.op = "sub" -> x - y
                       [] e.op = "div" -> IF y = 0 THEN 0 ELSE Quotient(x, y))

Holds(s, st) == Compare(s.cmp, Value(s.a, st), Value(s.b, st))

WordVal(t, st) == IF t.num THEN t.value ELSE st.v[t.text]

(* A declaration holds for the text behind it, carried out or not. *)
WidthsAfter(s, w) ==
  CASE s.s = "decl" -> [w EXCEPT ![s.x] = TypeBytes[s.type]]
    [] s.s \in {"if", "ifelse", "while", "over"} -> WidthsBehind(s.yes \o s.no, w)
    [] s.s = "command" /\ s.words[1].text = "byte" -> [w EXCEPT ![s.words[2].text] = 1]
    [] OTHER -> w
WidthsBehind(ss, w) == IF ss = <<>> THEN w ELSE WidthsBehind(Tail(ss), WidthsAfter(ss[1], w))

Do(s, st) ==
  CASE s.s = "decl" -> [st EXCEPT !.v[s.x] = Wrap(TypeBytes[s.type], Value(s.a, st))]
    [] s.s = "set" -> [st EXCEPT !.v[s.x] = Wrap(st.w[s.x], Value(s.a, st))]
    [] s.s = "store" ->
         IF Slots_(st, s) \in DOMAIN st.a THEN [st EXCEPT !.a[Slots_(st, s)] = Value(s.b, st)] ELSE st
    [] s.s = "if" -> IF Holds(s, st) THEN ExecAll(s.yes, st) ELSE st
    [] s.s = "ifelse" -> IF Holds(s, st) THEN ExecAll(s.yes, st)
                         ELSE ExecAll(s.no, [st EXCEPT !.w = WidthsBehind(s.yes, @)])
    [] s.s = "while" -> Loop(s, st, Patience)
    [] s.s = "over" -> IF Holds(s, st) THEN st ELSE ExecAll(s.yes, st)
    [] s.s = "call" -> ExecAll(st.subs[s.x], [st EXCEPT !.w = st.last])
    [] s.s = "command" ->
         CASE s.words[1].text = "alloc" -> [st EXCEPT !.v[s.words[2].text] = 1]
           [] s.words[1].text = "add" ->
                [st EXCEPT !.v[s.words[2].text] = Wrap(8, @ + WordVal(s.words[3], st))]
           [] s.words[1].text = "byte" ->
                [st EXCEPT !.v[s.words[2].text] = Wrap(1, WordVal(s.words[3], st))]
           [] s.words[1].text = "rect" ->
                [st EXCEPT !.drawn = Drawn(@, <<"rect">> \o [i \in 1 .. 5 |-> WordVal(s.words[i + 1], st)])]

Loop(s, st, patience) ==
  IF ~st.done \/ ~Holds(s, st) THEN st
  ELSE IF patience = 0 THEN [st EXCEPT !.done = FALSE]
  ELSE Loop(s, [ExecAll(s.yes, st) EXCEPT !.w = st.w], patience - 1)

ExecAll(ss, st) ==
  IF ss = <<>> THEN st
  ELSE ExecAll(Tail(ss), [Do(ss[1], st) EXCEPT !.w = WidthsAfter(ss[1], st.w)])

Names == {"x", "y", "z", "b", "$a"}

Wide == [x \in Names |-> 8]

(* The subs stand last. *)
Meaning(src, residue) ==
  ExecAll(src.decls \o src.body,
          [v |-> [x \in Names |-> 0], w |-> Wide, last |-> WidthsBehind(src.decls \o src.body, Wide),
           drawn |-> <<>>, done |-> TRUE,
           a |-> [i \in 1 .. 2 |-> residue],
           subs |-> [f \in {src.subs[i].name : i \in DOMAIN src.subs} |->
                      (CHOOSE sub \in {src.subs[i] : i \in DOMAIN src.subs} : sub.name = f).body]])

---------------------------------------------------------------------------
RECURSIVE Operators(_), StatementOps(_), AllOps(_)
Operators(e) ==
  CASE e.e \in {"num", "var"} -> 0
    [] e.e \in {"neg", "at"} -> 1 + Operators(e.a)
    [] e.e = "bin" -> 1 + Operators(e.a) + Operators(e.b)

(* The most operators one statement of the source has. *)
Greater(i, j) == IF i > j THEN i ELSE j
StatementOps(s) ==
  CASE s.s \in {"decl", "set"} -> Operators(s.a)
    [] s.s = "store" -> Operators(s.a) + Operators(s.b)
    [] s.s \in {"if", "while", "over"} -> Greater(Operators(s.a) + Operators(s.b), AllOps(s.yes))
    [] s.s = "ifelse" -> Greater(Operators(s.a) + Operators(s.b), Greater(AllOps(s.yes), AllOps(s.no)))
    [] s.s \in {"call", "command"} -> 0
AllOps(ss) == IF ss = <<>> THEN 0 ELSE Greater(StatementOps(ss[1]), AllOps(Tail(ss)))

(* An expression with a variable left of an operator that is taken for a   *)
(* temporary, and so is worked on in place.                                *)
RECURSIVE InPlace(_), AnyInPlace(_)
InPlace(e) ==
  CASE e.e \in {"num", "var"} -> FALSE
    [] e.e \in {"neg", "at"} -> InPlace(e.a)
    [] e.e = "bin" -> (e.a.e = "var" /\ Dollar(e.a.x)) \/ InPlace(e.a) \/ InPlace(e.b)

AnyInPlace(ss) ==
  \E i \in DOMAIN ss :
    \/ ss[i].s \notin {"call", "command"} /\ InPlace(ss[i].a)
    \/ ss[i].s \in {"store", "if", "ifelse", "while", "over"} /\ InPlace(ss[i].b)
    \/ ss[i].s \in {"if", "ifelse", "while", "over"} /\ AnyInPlace(ss[i].yes \o ss[i].no)

(* A source whose own variables are taken for temporaries. *)
Clobbers(src) ==
  \/ AnyInPlace(src.decls \o src.body) \/ \E i \in DOMAIN src.subs : AnyInPlace(src.subs[i].body)
  \/ \E i \in DOMAIN Written(src), t \in DOMAIN TempNames : Written(src)[i] = W(TempNames[t])

(* A name the loader has no room for. *)
LongNamed(src) ==
  \/ \E i \in DOMAIN src.subs : Len(src.subs[i].name) >= NameLength
  \/ \E i \in DOMAIN src.body : src.body[i].s = "set" /\ Len(src.body[i].x) >= NameLength

---------------------------------------------------------------------------
(* The text of a script in lines.  Labels stand in front of the lines that *)
(* are jumped to; every string is "hi".                                    *)

VarName(x) == "v" \o ToString(x)
ArgWord(arg) == IF arg.isVar THEN W(VarName(arg.value)) ELSE Num(arg.value)
LabelWord(at) == W(ToString(at))
KeyWord(code) == W(CHOOSE k \in DOMAIN KeyCode : KeyCode[k] = code)
CommandWord(op) == IF \E w \in DOMAIN SetOf : SetOf[w] = op THEN CHOOSE w \in DOMAIN SetOf : SetOf[w] = op ELSE op

Spoken(line, field) ==
  CASE field[2] = "key" -> KeyWord(line.b.value) [] field[2] = "string" -> Str("hi")
    [] OTHER -> ArgWord(line[field[1]])

LineWords(line) ==
  CASE line.op \in {"goto", "gosub"} -> <<W(line.op), LabelWord(line.target)>>
    [] line.op = "if" ->
         <<W("if"), ArgWord(line.a), W(line.cmp), ArgWord(line.b), W("goto"), LabelWord(line.target)>>
    [] OTHER -> LET word == CommandWord(line.op)
                IN  <<W(word)>> \o [i \in DOMAIN Shapes[word] |-> Spoken(line, Shapes[word][i])]

RECURSIVE ListingFrom(_, _)
ListingFrom(ls, i) ==
  (IF \E k \in DOMAIN ls : ls[k].op \in Jumps /\ ls[k].target = i THEN <<<<W("label"), LabelWord(i)>>>> ELSE <<>>)
    \o (IF i > Len(ls) THEN <<>> ELSE <<LineWords(ls[i])>> \o ListingFrom(ls, i + 1))
Listing(ls) == ListingFrom(ls, 1)

(* What is loaded from the listing is the script again, its variables in   *)
(* the order they are named in and its strings one behind the other.       *)
Texts(ls, i) == {k \in 1 .. i : ls[k].op = "text"}
SameArg(arg, of, names) ==
  arg.isVar = of.isVar /\ IF arg.isVar THEN names[arg.value] = VarName(of.value) ELSE arg.value = of.value
SameScript(ls, of, names) ==
  /\ Len(ls) = Len(of)
  /\ \A i \in DOMAIN ls :
       /\ ls[i].op = of[i].op /\ ls[i].cmp = of[i].cmp /\ ~ls[i].neg
       /\ ls[i].target = of[i].target
       /\ \A field \in {"a", "b", "d", "e"} : SameArg(ls[i][field], of[i][field], names)
       /\ IF ls[i].op = "text" THEN ls[i].c = Con(3 * Cardinality(Texts(ls, i - 1)))
                              ELSE SameArg(ls[i].c, of[i].c, names)

=============================================================================

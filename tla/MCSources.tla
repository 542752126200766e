------------------------------ MODULE MCSources -----------------------------
(* The sources the run of Games starts from. *)
EXTENDS Lowering

Lit(v) == [e |-> "num", v |-> v]
X(v) == [e |-> "var", x |-> v]
Neg(a) == [e |-> "neg", a |-> a]
Bin(op, a, b) == [e |-> "bin", op |-> op, a |-> a, b |-> b]
Elem(a) == [e |-> "at", x |-> "b", a |-> a]
Arith == {"add", "sub", "mul", "div"}

Grow(ops, es, fs) == {Neg(a) : a \in es} \cup {Bin(op, a, c) : op \in ops, a \in es, c \in fs}
Bigger(es, fs) == Grow(Arith, es, fs)

Leaves == {X("x"), Lit(3)}
Deep1 == Leaves \cup Grow({"sub", "div"}, Leaves, Leaves) \cup {Elem(Lit(1))}
Deep2 == Bigger(Deep1, Deep1) \cup {Elem(a) : a \in Deep1}

(* Right-nested sums hold a temporary for every operator. *)
Sum(a) == Bin("sub", X("x"), a)
Towers == {Sum(Sum(Sum(a))) : a \in {X("y"), Sum(X("y")), Sum(Sum(X("y")))}}

Let(x, e) == [s |-> "set", x |-> x, a |-> e]
Decl(t, x, e) == [s |-> "decl", type |-> t, x |-> x, a |-> e]
Cmd(ws) == [s |-> "command", words |-> ws]
Rect == Cmd(<<W("rect"), W("x"), W("y"), W("z"), Num(1), W("x")>>)
If_(s, a, cmp, c, yes) == [s |-> s, a |-> a, cmp |-> cmp, b |-> c, yes |-> yes, x |-> "skip", no |-> <<>>]
IfElse(a, cmp, c, yes, no) == [If_("ifelse", a, cmp, c, yes) EXCEPT !.no = no]
Store_(i, e) == [s |-> "store", x |-> "b", a |-> i, b |-> e]

Prologue == <<Decl("long", "x", Lit(7)), Let("y", Neg(Lit(2))), Cmd(<<W("alloc"), W("b"), Num(2)>>),
              Store_(Lit(0), Lit(4)), Store_(Lit(1), Lit(5))>>

(* Every operator on every difference, quotient and negation, assigned or   *)
(* stored.                                                                  *)
ExprSources ==
  {[decls |-> Prologue, body |-> <<Let("z", e)>>, subs |-> <<>>] : e \in Deep2 \cup Towers}
  \cup {[decls |-> Prologue, body |-> <<Store_(e, f), Let("z", Elem(Lit(1)))>>, subs |-> <<>>] :
          e \in Deep1, f \in Deep1}

(* Blocks in blocks, with every comparison. *)
Simple == {Let("z", Bin("add", X("z"), Lit(1))), Rect, Cmd(<<W("add"), W("x"), Num(1)>>), Cmd(<<W("byte"), W("x"), Num(3)>>),
           [s |-> "call", x |-> "f"]}
Tests == {<<X("x"), cmp, Lit(1)>> : cmp \in {"=", "!", "<", ">", "l", "g"}}
           \cup {<<Bin("add", X("x"), Lit(1)), "<", Bin("mul", X("y"), Lit(2))>>}
Grown(ss) ==
  {If_(k, t[1], t[2], t[3], <<s>>) : k \in {"if", "over"}, t \in Tests, s \in ss}
    \cup {IfElse(t[1], t[2], t[3], <<s>>, <<u>>) : t \in Tests, s \in ss, u \in {Rect}}
    \cup {If_("while", X("y"), cmp, Lit(2), <<s, Let("y", Bin("add", X("y"), Lit(1)))>>) :
            cmp \in {"<", "l"}, s \in ss}
Once == Grown(Simple)
Twice == {If_("over", X("x"), "<", Lit(1), <<s>>) : s \in Once}
           \cup {IfElse(X("x"), "=", Lit(1), <<s>>, <<Rect>>) : s \in Once}
           \cup {IfElse(X("x"), "=", Lit(2), <<Rect>>, <<s>>) : s \in Once}
           \cup {If_("while", X("x"), "<", Lit(2), <<s, Let("x", Bin("add", X("x"), Lit(1)))>>) :
                   s \in {u \in Once : u.s # "over"}}
Labelled(s) == s.s # "over" \/ \A i \in DOMAIN s.yes : s.yes[i].s # "over"

FlowSources ==
  {[decls |-> <<Decl(d[1], "x", Lit(d[2])), Decl("byte", "z", Lit(0))>>, body |-> <<s, Let("x", Bin("mul", X("x"), Lit(3)))>>,
    subs |-> <<[name |-> "f", body |-> <<Let("z", Bin("sub", X("z"), X("x")))>>]>>] :
     d \in {<<"byte", 1>>, <<"int", 0>>}, s \in Once \cup {u \in Twice : Labelled(u)}}

(* Variables that begin with a dollar, one of which is a temporary, and    *)
(* names that are too long.                                                *)
Dollars == {X("$a"), X("x"), Neg(X("$a")), Bin("sub", X("x"), X("$a")), Bin("add", X("$a"), Lit(1))}
NameSources ==
  {[decls |-> Prologue, body |-> <<Let("$a", Lit(2)), Let("z", e)>>, subs |-> <<>>] : e \in Bigger(Dollars, Dollars)}
  \cup {[decls |-> Prologue, body |-> <<Let(x, Lit(2)), Let("z", Bin("add", X("y"), X(x)))>>, subs |-> <<>>] :
          x \in {"$0", "$a", "longer"}}
  \cup {[decls |-> <<>>, body |-> <<>>, subs |-> <<[name |-> f, body |-> <<Let("z", Lit(1))>>]>>] :
          f \in {"f", "longer"}}

AllTrees == ExprSources \cup FlowSources \cup NameSources
=============================================================================

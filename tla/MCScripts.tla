------------------------------ MODULE MCScripts -----------------------------
(* The scripts and worlds the runs of Play and Games start from. *)
EXTENDS ScriptLang, TLC

Halves == (1 :> 2) @@ (2 :> 4) @@ (4 :> 4) @@ (8 :> 8)
Rand == (1 :> 3) @@ (3 :> 6) @@ (6 :> 1)

x == V(1)
y == V(2)

Sets == {"set", "set_byte", "set_short", "set_int", "set_long"}

(* Every operation on numbers, with every value in one variable and those  *)
(* at which something changes in the other.                                *)
Edges == {MinLong, -1, 0, 3}
ArithScripts ==
  {<<Op("set", x, Con(v), Con(0)), Op("set", y, Con(w), Con(0)), last>> :
     v \in Long, w \in Edges,
     last \in {Op(op, x, arg, Con(0)) :
                 op \in Sets \cup {"add", "sub", "mul", "div", "rnd"}, arg \in {y, Con(0), Con(-1), Con(3)}}
              \cup {Op("trunc", x, Con(b), Con(0)) : b \in {1, 2, 4}}
              \cup {IfLine(x, cmp, y, neg, 5) : cmp \in {"=", "!", "<", ">", "l", "g"}, neg \in BOOLEAN}}

RectLine(a, b, c, d, e) == [Op("rect", a, b, c) EXCEPT !.d = d, !.e = e]

(* The two ways of a test are told apart by what is drawn behind it. *)
Marked(s) == IF s[3].op = "if" THEN s \o <<RectLine(x, y, Con(0), Con(1), x), Op("end", Con(0), Con(0), Con(0))>> ELSE s

(* Control flow: every script of three lines. *)
FlowLines ==
  {JumpTo(op, t) : op \in {"goto", "gosub"}, t \in 1 .. 4}
  \cup {IfLine(x, "<", Con(2), neg, t) : neg \in BOOLEAN, t \in {1, 4}}
  \cup {Op(op, Con(0), Con(0), Con(0)) : op \in {"return", "end", "flip"}}
  \cup {Op("add", x, Con(1), Con(0)), RectLine(x, y, Con(1), Con(2), y)}

FlowScripts == [1 .. 3 -> FlowLines]

(* Calls: every script of four lines. *)
CallScripts ==
  [1 .. 4 -> {JumpTo("gosub", 3), JumpTo("gosub", 4)}
               \cup {Op(op, Con(0), Con(0), Con(0)) : op \in {"return", "end", "flip"}}]

(* The world: every straight script of three lines. *)
WorldLines ==
  {Op("key", x, Con(97), Con(0)), Op("screen", x, y, Con(0)), Op("millis", y, Con(0), Con(0)),
   Op("text", x, y, Con(0)), Op("num", x, Con(1), y), Op("flip", Con(0), Con(0), Con(0))}
  \cup {Op("wait", Con(w), Con(0), Con(0)) : w \in {-1, 0, 2}}

WorldScripts == [1 .. 3 -> WorldLines]

(* Every form a line of a script can have. *)
FormLines ==
  {Op(op, x, arg, Con(0)) : op \in Sets \cup {"add", "sub", "mul", "div", "rnd", "alloc"}, arg \in {y, Con(-1)}}
  \cup {JumpTo(op, t) : op \in {"goto", "gosub"}, t \in {1, 3}}
  \cup {IfLine(y, cmp, Con(2), FALSE, t) : cmp \in {"=", "!", "<", ">"}, t \in {2, 3}}
  \cup {RectLine(Con(1), y, x, Con(2), V(3)), Op("text", y, x, Con(0)), Op("num", y, Con(1), x),
         Op("key", y, Con(KEY_ESC), Con(0)), Op("screen", y, x, Con(0)), Op("millis", y, Con(0), Con(0)),
         Op("wait", y, Con(0), Con(0)), Op("poke", x, Con(1), y), Op("peek", y, x, V(3))}
  \cup {Op(op, Con(0), Con(0), Con(0)) : op \in {"flip", "end", "return"}}

(* About as much as there is room for in the image. *)
LongScripts ==
  {[i \in 1 .. k |-> l] : k \in 20 .. 40, l \in {u \in WorldLines : u.op \in {"screen", "text", "millis"}}}

(* The arena: two blocks, then any two accesses. *)
Accesses ==
  {Op("poke", b, Con(i), Con(5)) : b \in {x, y, Con(0)}, i \in {-1, 0, 2}}
  \cup {Op("peek", b, Con(i), V(3)) : b \in {x, y, Con(0)}, i \in {-1, 0, 2}}

ArenaScripts(sizes) ==
  {<<Op("alloc", x, Con(s), Con(0)), Op("alloc", y, Con(t), Con(0)), p, q>> :
     s \in sizes, t \in {1, 3}, p \in Accesses, q \in Accesses}

(* Keys are pressed, released or held over the first two milliseconds,     *)
(* then ESC is; or no key is touched for as long as it takes.              *)
World(held, memory) == [held |-> held, memory |-> memory, seed |-> 1, residue |-> MinLong]
Then(first, second) == [t \in 0 .. Horizon - 1 |-> IF t = 0 THEN first ELSE IF t = 1 THEN second ELSE {KEY_ESC}]
Calm == {World(Then({}, {}), TRUE)}
Poor == {World(Then({}, {}), FALSE)}
Busy == {World(Then({97}, {}), TRUE), World(Then({}, {97, KEY_ESC}), TRUE)}
Patient == {World([t \in 0 .. Horizon - 1 |-> {}], TRUE)}

(* Loops that wait, with and without a flip. *)
WaitLoops ==
  {<<Op("wait", Con(w), Con(0), Con(0)), f, JumpTo(j, t)>> :
     w \in Long, f \in {Op("flip", Con(0), Con(0), Con(0)), Op("add", x, Con(1), Con(0))},
     j \in {"goto", "gosub"}, t \in 1 .. 3}
=============================================================================

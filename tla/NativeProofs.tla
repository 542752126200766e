---------------------------- MODULE NativeProofs ----------------------------
(***************************************************************************)
(* Proofs about Native: whatever script is compiled, its code runs inside  *)
(* of itself.                                                              *)
(*                                                                         *)
(* The code of a line is a block whose skips stay in it or lead behind it  *)
(* (LineBlock), but for a gosub, whose three instructions belong together  *)
(* (GosubSound).  Code behind code is code again, entered where either was *)
(* (SoundJoin), so that all that is emitted is, and every line is entered  *)
(* where LineOffset says (EmittedSound).  With the jumps patched nothing   *)
(* leads out of it (CompiledWell).  The machine then only has to find what *)
(* the calls left on the stack (Inside).                                   *)
(***************************************************************************)
EXTENDS Native, SequenceTheorems, WellFoundedInduction, TLAPS

---------------------------------------------------------------------------
(* Numbers, and functions defined by recursion on them                     *)

LessThan == {p \in Nat \X Nat : p[1] < p[2]}

(* A set that holds the first number and each next one up to a bound holds *)
(* all of them.                                                            *)
LEMMA UptoInd ==
  ASSUME NEW lo \in Nat, NEW hi \in Nat, NEW S, lo \in S,
         \A q \in lo .. hi - 1 : q \in S => q + 1 \in S
  PROVE  \A q \in lo .. hi : q \in S
<1>1. SUFFICES ASSUME NEW bad \in lo .. hi, bad \notin S PROVE FALSE
  OBVIOUS
<1> DEFINE D == {q \in lo .. hi : q \notin S}
<1>2. D \subseteq Nat /\ D # {}
  BY <1>1
<1>3. IsWellFoundedOn(LessThan, Nat)
  BY NatLessThanWellFounded DEF OpToRel, LessThan
<1>4. PICK x \in D : \A y \in D : ~ (<<y, x>> \in LessThan)
  BY <1>2, <1>3, WFMin
<1>5. x \in lo .. hi /\ x # lo /\ x - 1 \in lo .. hi - 1
  BY <1>4
<1>6. x - 1 \notin S
  BY <1>4, <1>5
<1>7. x - 1 \in D
  BY <1>5, <1>6
<1>8. <<x - 1, x>> \in LessThan
  BY <1>5 DEF LessThan
<1>9. QED
  BY <1>4, <1>7, <1>8

(* A value for each number from 0 on: base, then what step makes of the    *)
(* one before.                                                             *)
Iterates(q, S, base, step) ==
  {f \in [0 .. q -> S] : f[0] = base /\ \A k \in 1 .. q : f[k] = step[k][f[k - 1]]}

(* There is such a function, whatever the steps are.                       *)
LEMMA Recursion ==
  ASSUME NEW hi \in Nat, NEW S, NEW base \in S, NEW step \in [1 .. hi -> [S -> S]]
  PROVE  Iterates(hi, S, base, step) # {}
<1> DEFINE Ms == {q \in 0 .. hi : \E f \in [0 .. q -> S] : f \in Iterates(q, S, base, step)}
<1>1. 0 \in Ms
  <2>1. [k \in 0 .. 0 |-> base] \in [0 .. 0 -> S]
    OBVIOUS
  <2>2. [k \in 0 .. 0 |-> base] \in Iterates(0, S, base, step)
    BY <2>1 DEF Iterates
  <2>3. 0 \in 0 .. hi
    OBVIOUS
  <2>4. QED
    BY <2>1, <2>2, <2>3
<1>2. ASSUME NEW q \in 0 .. hi - 1, q \in Ms PROVE q + 1 \in Ms
  <2>1. PICK f \in [0 .. q -> S] : f[0] = base /\ \A k \in 1 .. q : f[k] = step[k][f[k - 1]]
    BY <1>2 DEF Iterates
  <2> DEFINE g == [k \in 0 .. q + 1 |-> IF k = q + 1 THEN step[q + 1][f[q]] ELSE f[k]]
  <2>2. q + 1 \in 1 .. hi /\ q \in 0 .. q
    OBVIOUS
  <2>3. step[q + 1][f[q]] \in S
    BY <2>2
  <2>4. g \in [0 .. q + 1 -> S]
    BY <2>3
  <2>5. g[0] = base
    BY <2>1
  <2>6. ASSUME NEW k \in 1 .. q + 1 PROVE g[k] = step[k][g[k - 1]]
    <3>1. CASE k = q + 1
      BY <3>1
    <3>2. CASE k # q + 1
      <4>1. k \in 1 .. q /\ k - 1 \in 0 .. q
        BY <3>2
      <4>2. g[k] = f[k] /\ g[k - 1] = f[k - 1]
        BY <4>1
      <4>3. QED
        BY <2>1, <4>1, <4>2
    <3>3. QED
      BY <3>1, <3>2
  <2>7. g \in Iterates(q + 1, S, base, step)
    BY <2>4, <2>5, <2>6 DEF Iterates
  <2>8. q + 1 \in 0 .. hi
    OBVIOUS
  <2>9. QED
    BY <2>4, <2>7, <2>8
<1>3. hi \in Ms
  <2> HIDE DEF Ms
  <2>1. \A q \in 0 .. hi : q \in Ms
    BY <1>1, <1>2, UptoInd, ZenonT(30)
  <2>2. hi \in 0 .. hi
    OBVIOUS
  <2>3. QED
    BY <2>1, <2>2
<1>4. QED
  BY <1>3


---------------------------------------------------------------------------
(* Blocks of instructions                                                  *)

Plain == {"load", "store", "extend", "zero", "arg", "add", "sub", "imul", "idiv", "div", "random",
          "cmp", "test", "fn", "ret"}
Calling == {"pad", "call", "unpad"}
Word == {"rax", "rcx", "rdx", "always", "=", "!", "<", ">", "l", "g", "keydown", "screenw", "screenh",
         "millis", "wait", "rect", "text", "num", "flip", "alloc", "poke", "peek"}
Operand == Word \cup Int \cup Arg \cup {Con(k) : k \in Keys}
Kind == Plain \cup Calling \cup {"skip", "jump", "leave"}
Instruction == [i : Kind, x : Operand, y : Operand]

(* What is known of an instruction alone, where last lines are numbered.   *)
Formed(ins, last) ==
  /\ ins.i = "load" => ins.x \in {"rax", "rcx"}
  /\ ins.i \in {"jump", "call"} => ins.y \in 1 .. last
  /\ ins.i = "skip" => ins.y \in Nat

(* Instructions without a call, whose skips reach at most ahead behind the *)
(* end.                                                                    *)
Block(b, last, ahead) ==
  /\ b \in Seq(Instruction)
  /\ \A k \in 1 .. Len(b) :
       /\ Formed(b[k], last)
       /\ b[k].i \notin Calling
       /\ b[k].i = "skip" => k + b[k].y <= Len(b) + ahead

(* The parts of an instruction.                                            *)
LEMMA InsFields ==
  ASSUME NEW kind, NEW x, NEW y
  PROVE  Ins(kind, x, y).i = kind /\ Ins(kind, x, y).x = x /\ Ins(kind, x, y).y = y
BY DEF Ins

(* The kinds there are.                                                    *)
LEMMA KindsAre ==
  Plain \subseteq Kind /\ Calling \subseteq Kind /\ {"skip", "jump", "leave"} \subseteq Kind
BY Zenon DEF Kind

(* An instruction of known parts.                                          *)
LEMMA InsTyped ==
  ASSUME NEW kind \in Kind, NEW x \in Operand, NEW y \in Operand
  PROVE  Ins(kind, x, y) \in Instruction
<1> HIDE DEF Kind, Operand
<1>1. QED
  BY DEF Ins, Instruction

(* One instruction in front of nothing.                                    *)
LEMMA OneBlock ==
  ASSUME NEW ins \in Instruction, NEW last \in Nat, NEW ahead \in Nat,
         Formed(ins, last), ins.i \notin Calling, ins.i = "skip" => ins.y <= ahead
  PROVE  Block(<<ins>>, last, ahead) /\ Len(<<ins>>) = 1
<1> HIDE DEF Instruction, Calling
<1>1. <<ins>> \in Seq(Instruction) /\ Len(<<ins>>) = 1 /\ <<ins>>[1] = ins
  OBVIOUS
<1>2. ins.i = "skip" => 1 + ins.y <= 1 + ahead
  BY DEF Formed
<1>3. QED
  BY <1>1, <1>2 DEF Block

(* Skips that reach ahead may do so over the block behind.                 *)
LEMMA BlocksJoin ==
  ASSUME NEW s, NEW t, NEW last \in Nat, NEW a \in Nat, NEW b \in Nat,
         Block(s, last, a), Block(t, last, b), a <= Len(t) + b
  PROVE  Block(s \o t, last, b) /\ Len(s \o t) = Len(s) + Len(t)
<1>1. s \in Seq(Instruction) /\ t \in Seq(Instruction)
  BY DEF Block
<1>2. PICK p \in Nat, q \in Nat : p = Len(s) /\ q = Len(t)
  BY <1>1, LenProperties
<1>3. s \o t \in Seq(Instruction) /\ Len(s \o t) = p + q
      /\ \A k \in 1 .. p + q : (s \o t)[k] = IF k <= p THEN s[k] ELSE t[k - p]
  BY <1>1, <1>2, ConcatProperties
<1> DEFINE u == s \o t
<1> HIDE DEF u
<1>4. ASSUME NEW k \in 1 .. p + q
      PROVE  Formed(u[k], last) /\ u[k].i \notin Calling /\ (u[k].i = "skip" => k + u[k].y <= p + q + b)
  <2>1. CASE k <= p
    <3>1. u[k] = s[k] /\ k \in 1 .. Len(s)
      BY <1>2, <1>3, <2>1 DEF u
    <3>2. Formed(s[k], last) /\ s[k].i \notin Calling /\ (s[k].i = "skip" => k + s[k].y <= p + a)
      BY <1>2, <3>1 DEF Block
    <3>3. s[k].i = "skip" => s[k].y \in Nat
      BY <3>2 DEF Formed
    <3>4. s[k].i = "skip" => k + s[k].y <= p + q + b
      BY <1>2, <3>2, <3>3
    <3>5. QED
      BY <3>1, <3>2, <3>4
  <2>2. CASE ~(k <= p)
    <3>1. u[k] = t[k - p] /\ k - p \in 1 .. Len(t)
      BY <1>2, <1>3, <2>2 DEF u
    <3>2. Formed(t[k - p], last) /\ t[k - p].i \notin Calling
          /\ (t[k - p].i = "skip" => k - p + t[k - p].y <= q + b)
      BY <1>2, <3>1 DEF Block
    <3>3. t[k - p].i = "skip" => t[k - p].y \in Nat
      BY <3>2 DEF Formed
    <3>4. t[k - p].i = "skip" => k + t[k - p].y <= p + q + b
      BY <1>2, <3>2, <3>3
    <3>5. QED
      BY <3>1, <3>2, <3>4
  <2>3. QED
    BY <2>1, <2>2
<1>5. u \in Seq(Instruction) /\ Len(u) = p + q
  BY <1>3 DEF u
<1>6. Block(u, last, b)
  BY <1>4, <1>5 DEF Block
<1>7. QED
  BY <1>2, <1>5, <1>6 DEF u

(* Two blocks without skips ahead.                                         *)
LEMMA Join ==
  ASSUME NEW s, NEW t, NEW last \in Nat, Block(s, last, 0), Block(t, last, 0)
  PROVE  Block(s \o t, last, 0) /\ Len(s \o t) = Len(s) + Len(t)
<1>1. Len(t) \in Nat
  BY LenProperties DEF Block
<1>2. 0 <= Len(t) + 0 /\ 0 \in Nat
  BY <1>1
<1>3. QED
  BY <1>2, BlocksJoin

(* What may be an operand.                                                 *)
LEMMA OperandsAre ==
  /\ Int \subseteq Operand /\ 0 \in Operand
  /\ \A s \in Word : s \in Operand
  /\ Arg \subseteq Operand
  /\ \A k \in Keys : Con(k) \in Operand
  /\ Var \subseteq Operand
<1>1. Var \subseteq Int
  BY LangAssumption DEF Var
<1>2. Int \subseteq Operand /\ Arg \subseteq Operand /\ Word \subseteq Operand
  BY Zenon DEF Operand
<1>3. \A k \in Keys : Con(k) \in Operand
  BY Zenon DEF Operand
<1>4. 0 \in Int
  OBVIOUS
<1>5. QED
  BY <1>1, <1>2, <1>3, <1>4, Zenon

(* An instruction that does not jump.                                      *)
LEMMA PlainBlock ==
  ASSUME NEW kind \in Plain \ {"load"}, NEW x \in Operand, NEW y \in Operand, NEW last \in Nat
  PROVE  Block(<<Ins(kind, x, y)>>, last, 0) /\ Len(<<Ins(kind, x, y)>>) = 1
<1> DEFINE ins == Ins(kind, x, y)
<1>1. ins \in Instruction /\ ins.i = kind
  BY InsTyped, KindsAre, InsFields
<1>2. kind \notin Calling /\ kind \notin {"load", "jump", "call", "skip"}
  BY DEF Plain, Calling
<1> HIDE DEF ins
<1>3. Formed(ins, last)
  BY <1>1, <1>2 DEF Formed
<1>4. Block(<<ins>>, last, 0) /\ Len(<<ins>>) = 1
  BY <1>1, <1>2, <1>3, OneBlock
<1>5. QED
  BY <1>4 DEF ins

(* LoadReg.                                                                *)
LEMMA LoadBlock ==
  ASSUME NEW reg \in {"rax", "rcx"}, NEW arg \in Operand, NEW last \in Nat
  PROVE  Block(Load(reg, arg), last, 0) /\ Len(Load(reg, arg)) = 1
<1> DEFINE ins == Ins("load", reg, arg)
<1>1. reg \in Operand /\ "load" \in Plain
  <2>1. "rax" \in Word /\ "rcx" \in Word
    BY Zenon DEF Word
  <2>2. QED
    BY <2>1, OperandsAre, Zenon DEF Plain
<1>2. ins \in Instruction /\ ins.i = "load" /\ ins.x = reg
  BY <1>1, InsTyped, KindsAre, InsFields
<1>3. "load" \notin Calling
  BY DEF Calling
<1> HIDE DEF ins
<1>4. Formed(ins, last)
  BY <1>2 DEF Formed
<1>5. Block(<<ins>>, last, 0) /\ Len(<<ins>>) = 1
  BY <1>2, <1>3, <1>4, OneBlock
<1>6. QED
  BY <1>5 DEF Load, ins

(* The store behind an operation.                                          *)
LEMMA StoreBlock ==
  ASSUME NEW reg \in Word, NEW x \in Operand, NEW last \in Nat
  PROVE  Block(Store(reg, x), last, 0) /\ Len(Store(reg, x)) = 1
<1>1. "store" \in Plain \ {"load"} /\ reg \in Operand
  BY OperandsAre DEF Plain
<1>2. QED
  BY <1>1, PlainBlock DEF Store

(* Nothing is a block.                                                     *)
LEMMA EmptyBlock == \A last \in Nat : Block(<<>>, last, 0) /\ Len(<<>>) = 0
BY DEF Block

(* SignExtendRax.                                                          *)
LEMMA ExtendBlock ==
  ASSUME NEW w \in {1, 2, 4, 8}, NEW last \in Nat
  PROVE  Block(Extend(w), last, 0)
<1>1. "extend" \in Plain \ {"load"} /\ "rax" \in Operand /\ w \in Operand
  <2>1. w \in Int
    OBVIOUS
  <2>2. "rax" \in Word
    BY Zenon DEF Word
  <2>3. "extend" \in Plain \ {"load"}
    BY DEF Plain
  <2>4. QED
    BY <2>1, <2>2, <2>3, OperandsAre, Zenon
<1>2. Block(<<Ins("extend", "rax", w)>>, last, 0)
  BY <1>1, PlainBlock
<1>3. QED
  BY <1>2, EmptyBlock DEF Extend

(* StoreArg.                                                               *)
LEMMA ArgBlock ==
  ASSUME NEW j \in Int, NEW arg \in Operand, NEW last \in Nat
  PROVE  Block(StoreArg(j, arg), last, 0)
<1>1. "arg" \in Plain \ {"load"} /\ j \in Operand
  BY OperandsAre DEF Plain
<1>2. QED
  BY <1>1, PlainBlock DEF StoreArg

(* CallFn.                                                                 *)
LEMMA FnBlock ==
  ASSUME NEW f \in Word, NEW last \in Nat
  PROVE  Block(CallFn(f), last, 0)
<1>1. "fn" \in Plain \ {"load"} /\ f \in Operand /\ 0 \in Operand
  BY OperandsAre DEF Plain
<1>2. QED
  BY <1>1, PlainBlock DEF CallFn

(* A jump to a line, or to behind the last.                                *)
LEMMA JumpBlock ==
  ASSUME NEW last \in Nat, NEW target \in 1 .. last, NEW c \in Word
  PROVE  Block(<<Ins("jump", c, target)>>, last, 0)
<1> DEFINE ins == Ins("jump", c, target)
<1>1. target \in Operand /\ c \in Operand
  <2>1. target \in Int
    OBVIOUS
  <2>2. QED
    BY <2>1, OperandsAre, Zenon
<1>2. ins \in Instruction /\ ins.i = "jump" /\ ins.y = target
  <2>1. PICK kind \in Kind : kind = "jump"
    BY KindsAre, Zenon
  <2>2. Ins(kind, c, target) \in Instruction
    BY <1>1, InsTyped, KindsAre
  <2>3. QED
    BY <2>1, <2>2, InsFields
<1>3. "jump" \notin Calling
  BY DEF Calling
<1> HIDE DEF ins
<1>4. Formed(ins, last)
  BY <1>2 DEF Formed
<1>5. Block(<<ins>>, last, 0)
  BY <1>2, <1>3, <1>4, OneBlock
<1>6. QED
  BY <1>5 DEF ins

(* A skip over instructions that are still to come.                        *)
LEMMA SkipBlock ==
  ASSUME NEW last \in Nat, NEW over \in Nat, NEW c \in Word
  PROVE  Block(<<Ins("skip", c, over)>>, last, over) /\ Len(<<Ins("skip", c, over)>>) = 1
<1> DEFINE ins == Ins("skip", c, over)
<1>1. over \in Operand /\ c \in Operand
  <2>1. over \in Int
    OBVIOUS
  <2>2. QED
    BY <2>1, OperandsAre, Zenon
<1>2. ins \in Instruction /\ ins.i = "skip" /\ ins.y = over
  <2>1. PICK kind \in Kind : kind = "skip"
    BY KindsAre, Zenon
  <2>2. Ins(kind, c, over) \in Instruction
    BY <1>1, InsTyped, KindsAre
  <2>3. QED
    BY <2>1, <2>2, InsFields
<1>3. "skip" \notin Calling
  BY DEF Calling
<1> HIDE DEF ins
<1>4. Formed(ins, last)
  BY <1>2 DEF Formed
<1>5. Block(<<ins>>, last, over) /\ Len(<<ins>>) = 1
  BY <1>2, <1>3, <1>4, OneBlock
<1>6. QED
  BY <1>5 DEF ins

---------------------------------------------------------------------------
(* The code of a line                                                      *)

(* The arguments of a line the parser lets through are operands.           *)
LEMMA LineOperands ==
  ASSUME NEW line, NEW k, WellFormed(line, k)
  PROVE  /\ line.a \in Operand /\ line.b \in Operand /\ line.c \in Operand
         /\ line.d \in Operand /\ line.e \in Operand
         /\ line.op \in Assigns => line.a.value \in Operand
         /\ line.op = "screen" => line.b.value \in Operand
         /\ line.op = "peek" => line.c.value \in Operand
<1>1. \A arg \in Arg : arg.isVar => arg.value \in Var
  BY DEF Arg
<1>2. line.a \in Arg /\ line.c \in Arg /\ line.d \in Arg /\ line.e \in Arg /\ (line.op # "key" => line.b \in Arg)
      /\ (line.op = "key" => line.b \in {Con(j) : j \in Keys})
  BY DEF WellFormed
<1>3. line.b \in Operand
  <2>1. CASE line.op = "key"
    BY <1>2, <2>1, Zenon DEF Operand
  <2>2. CASE line.op # "key"
    BY <1>2, <2>2, Zenon DEF Operand
  <2>3. QED
    BY <2>1, <2>2
<1>4. line.a \in Operand /\ line.c \in Operand /\ line.d \in Operand /\ line.e \in Operand
  BY <1>2, OperandsAre, Zenon
<1>5. /\ line.op \in Assigns => line.a.isVar
      /\ line.op = "screen" => line.b.isVar
      /\ line.op = "peek" => line.c.isVar
  BY Zenon DEF WellFormed
<1>6. "screen" # "key"
  OBVIOUS
<1>7. QED
  BY <1>1, <1>2, <1>3, <1>4, <1>5, <1>6, OperandsAre, Zenon

(* The widths of its result.                                               *)
LEMMA WidthIs ==
  ASSUME NEW line, NEW k, WellFormed(line, k)
  PROVE  WidthOf(line) \in {1, 2, 4, 8}
<1>1. CASE line.op = "trunc"
  <2>1. PICK w \in {1, 2, 4} : line.b = Con(w)
    BY <1>1 DEF WellFormed
  <2>2. line.b.value = w
    BY <2>1 DEF Con
  <2>3. QED
    BY <1>1, <2>2 DEF WidthOf
<1>2. CASE line.op # "trunc"
  BY <1>2 DEF WidthOf
<1>3. QED
  BY <1>1, <1>2

(* Words that are used as operands.                                        *)
LEMMA Registers ==
  /\ "rax" \in {"rax", "rcx"} /\ "rcx" \in {"rax", "rcx"}
  /\ "rax" \in Word /\ "rcx" \in Word /\ "rdx" \in Word /\ "always" \in Word
  /\ "=" \in Word /\ "l" \in Word
BY Zenon DEF Word

(* Kinds that go on behind themselves.                                     *)
LEMMA Kinds ==
  {"zero", "add", "sub", "imul", "idiv", "div", "random", "cmp", "test", "ret"} \subseteq Plain \ {"load"}
BY DEF Plain

(* Two instructions, the second of which may skip over what is behind.     *)
LEMMA PairBlock ==
  ASSUME NEW a, NEW b, NEW last \in Nat, NEW p \in Nat, NEW q \in Nat,
         Block(<<a>>, last, p), Block(<<b>>, last, q), p <= 1 + q
  PROVE  Block(<<a, b>>, last, q) /\ Len(<<a, b>>) = 2
<1>1. Len(<<a>>) = 1 /\ Len(<<b>>) = 1
  OBVIOUS
<1>2. Block(<<a>> \o <<b>>, last, q)
  BY <1>1, BlocksJoin
<1>3. <<a>> \o <<b>> = <<a, b>>
  <2>1. a \in Instruction /\ b \in Instruction
    <3>1. <<a>> \in Seq(Instruction) /\ <<b>> \in Seq(Instruction)
      BY DEF Block
    <3>2. QED
      BY <3>1
  <2> HIDE DEF Instruction
  <2>2. <<a>> \in Seq(Instruction) /\ <<b>> \in Seq(Instruction) /\ <<a, b>> \in Seq(Instruction)
        /\ Len(<<a>>) = 1 /\ Len(<<b>>) = 1 /\ Len(<<a, b>>) = 2
    BY <2>1
  <2> DEFINE s == <<a>>
             t == <<b>>
             u == <<a, b>>
  <2>3. s[1] = a /\ t[1] = b /\ u[1] = a /\ u[2] = b
    OBVIOUS
  <2>4. s \in Seq(Instruction) /\ t \in Seq(Instruction) /\ u \in Seq(Instruction)
        /\ Len(s) = 1 /\ Len(t) = 1 /\ Len(u) = 2
    BY <2>2
  <2> HIDE DEF s, t, u
  <2>5. s \o t \in Seq(Instruction) /\ Len(s \o t) = 2 /\ (s \o t)[1] = s[1] /\ (s \o t)[2] = t[1]
    <3>1. /\ s \o t \in Seq(Instruction)
          /\ Len(s \o t) = Len(s) + Len(t)
          /\ \A i \in 1 .. Len(s) + Len(t) : (s \o t)[i] = IF i <= Len(s) THEN s[i] ELSE t[i - Len(s)]
      BY <2>4, ConcatProperties, Zenon
    <3>2. 1 \in 1 .. Len(s) + Len(t) /\ 2 \in 1 .. Len(s) + Len(t) /\ Len(s) + Len(t) = 2
      BY <2>4
    <3>3. (s \o t)[1] = s[1]
      BY <2>4, <3>1, <3>2
    <3>4. (s \o t)[2] = t[1]
      BY <2>4, <3>1, <3>2
    <3>5. QED
      BY <3>1, <3>2, <3>3, <3>4, Zenon
  <2>6. \A i \in 1 .. Len(s \o t) : (s \o t)[i] = u[i]
    BY <2>3, <2>5
  <2>7. s \o t = u
    BY <2>4, <2>5, <2>6, SeqEqual
  <2>8. QED
    BY <2>7 DEF s, t, u
<1>4. QED
  BY <1>2, <1>3

(* A test that skips the division and what is behind it, which skips the   *)
(* zero.                                                                   *)
LEMMA SkipOver ==
  ASSUME NEW start, NEW divide, NEW last \in Nat, NEW over \in Nat, NEW c \in Word, NEW x \in Operand,
         Block(start, last, 0), Block(divide, last, 0), Len(divide) + 1 = over
  PROVE  Block(start \o <<Ins("test", "rcx", 0), Ins("skip", c, over)>> \o divide
                     \o <<Ins("skip", "always", 1), Ins("zero", x, 0)>>, last, 0)
<1>1. Len(divide) \in Nat
  BY LenProperties DEF Block
<1> DEFINE test == Ins("test", "rcx", 0)
           s1 == Ins("skip", c, over)
           s2 == Ins("skip", "always", 1)
           z == Ins("zero", x, 0)
           first == <<test, s1>>
           then == <<s2, z>>
<1>2. Block(<<s1>>, last, over)
  BY SkipBlock
<1>3. Block(<<s2>>, last, 1)
  BY SkipBlock, Registers
<1>4. Block(<<z>>, last, 0)
  BY PlainBlock, Kinds, OperandsAre
<1>5. Block(<<test>>, last, 0)
  BY PlainBlock, Kinds, OperandsAre, Registers
<1> HIDE DEF s1, s2, z, test
<1>6. Block(first, last, over) /\ Len(first) = 2
  <2>1. 0 \in Nat /\ 0 <= 1 + over
    OBVIOUS
  <2>2. QED
    BY <1>2, <1>5, <2>1, PairBlock
<1>7. Block(then, last, 0) /\ Len(then) = 2
  <2>1. 0 \in Nat /\ 1 \in Nat /\ 1 <= 1 + 0
    OBVIOUS
  <2>2. QED
    BY <1>3, <1>4, <2>1, PairBlock
<1> HIDE DEF first, then
<1>8. Block(start \o first, last, over)
  <2>1. 0 <= Len(first) + over
    BY <1>6
  <2>2. QED
    BY <1>6, <2>1, BlocksJoin
<1>9. Block((start \o first) \o divide, last, 1)
  <2>1. Block(divide, last, 1)
    <3>1. divide \in Seq(Instruction) /\ Len(divide) \in Nat
      BY LenProperties DEF Block
    <3>2. \A k \in 1 .. Len(divide) :
            /\ Formed(divide[k], last) /\ divide[k].i \notin Calling
            /\ divide[k].i = "skip" => k + divide[k].y <= Len(divide) + 0
      BY DEF Block
    <3>3. \A k \in 1 .. Len(divide) : divide[k].i = "skip" => divide[k].y \in Nat
      BY <3>2 DEF Formed
    <3>4. \A k \in 1 .. Len(divide) : divide[k].i = "skip" => k + divide[k].y <= Len(divide) + 1
      BY <3>1, <3>2, <3>3
    <3>5. QED
      BY <3>1, <3>2, <3>4 DEF Block
  <2>2. over <= Len(divide) + 1 /\ 1 \in Nat
    BY <1>1
  <2>3. QED
    BY <1>8, <2>1, <2>2, BlocksJoin
<1>10. Block(((start \o first) \o divide) \o then, last, 0)
  <2>1. 1 <= Len(then) + 0 /\ 1 \in Nat /\ 0 \in Nat
    BY <1>7
  <2>2. QED
    BY <1>7, <1>9, <2>1, BlocksJoin
<1>11. QED
  BY <1>10 DEF first, then, test, s1, s2, z

(* OP_DIV, by a constant and by a variable.                                *)
LEMMA DivBlock ==
  ASSUME NEW line, NEW last \in Nat, line.a \in Operand, line.b \in Operand, line.a.value \in Operand
  PROVE  Block(DivCode(line), last, 0)
<1> DEFINE x == line.a.value
           divide == Load("rax", line.a) \o <<Ins("idiv", 0, 0)>> \o Store("rax", x)
           rcx == Load("rcx", line.b)
           zero == <<Ins("zero", x, 0)>>
<1>1. Block(divide, last, 0) /\ Len(divide) = 3
  <2>1. Block(Load("rax", line.a), last, 0) /\ Len(Load("rax", line.a)) = 1
    BY LoadBlock, Registers
  <2>2. Block(<<Ins("idiv", 0, 0)>>, last, 0) /\ Len(<<Ins("idiv", 0, 0)>>) = 1
    BY PlainBlock, Kinds, OperandsAre
  <2>3. Block(Store("rax", x), last, 0) /\ Len(Store("rax", x)) = 1
    BY StoreBlock, Registers
  <2> DEFINE load == Load("rax", line.a)
             idiv == <<Ins("idiv", 0, 0)>>
             store == Store("rax", x)
  <2> HIDE DEF load, idiv, store
  <2>4. Block(load \o idiv, last, 0) /\ Len(load \o idiv) = 2
    <3>1. Block(load, last, 0) /\ Len(load) = 1 /\ Block(idiv, last, 0) /\ Len(idiv) = 1
      BY <2>1, <2>2 DEF load, idiv
    <3>2. Block(load \o idiv, last, 0) /\ Len(load \o idiv) = Len(load) + Len(idiv)
      BY <3>1, Join, Zenon
    <3>3. QED
      BY <3>1, <3>2
  <2>5. Block((load \o idiv) \o store, last, 0) /\ Len((load \o idiv) \o store) = 3
    <3>1. Block(store, last, 0) /\ Len(store) = 1
      BY <2>3 DEF store
    <3>2. Block((load \o idiv) \o store, last,
       0) /\ Len((load \o idiv) \o store) = Len(load \o idiv) + Len(store)
      BY <2>4, <3>1, Join, Zenon
    <3>3. QED
      BY <2>4, <3>1, <3>2
  <2>6. QED
    BY <2>5 DEF load, idiv, store
<1>2. Block(rcx, last, 0)
  BY LoadBlock, Registers
<1>3. Block(zero, last, 0)
  BY PlainBlock, Kinds, OperandsAre
<1> HIDE DEF divide
<1>4. Block(rcx \o <<Ins("test", "rcx", 0), Ins("skip", "=", 4)>> \o divide
                \o <<Ins("skip", "always", 1), Ins("zero", x, 0)>>, last, 0)
  <2>1. Len(divide) + 1 = 4 /\ 4 \in Nat /\ x \in Operand
    BY <1>1
  <2>2. PICK c \in Word : c = "="
    BY Registers, Zenon
  <2>3. Block(rcx \o <<Ins("test", "rcx", 0), Ins("skip", c, 4)>> \o divide
                  \o <<Ins("skip", "always", 1), Ins("zero", x, 0)>>, last, 0)
    BY <1>1, <1>2, <2>1, SkipOver
  <2>4. QED
    BY <2>2, <2>3, Zenon
<1>5. Block(rcx \o divide, last, 0)
  BY <1>1, <1>2, Join
<1>6. DivCode(line) = IF line.b.isVar
        THEN rcx \o <<Ins("test", "rcx", 0), Ins("skip", "=", 4)>> \o divide
                 \o <<Ins("skip", "always", 1), Ins("zero", x, 0)>>
        ELSE IF line.b.value = 0 THEN zero ELSE rcx \o divide
  BY Zenon DEF DivCode, divide
<1> HIDE DEF zero, rcx
<1>7. QED
  BY <1>3, <1>4, <1>5, <1>6, Zenon

(* OP_RND.                                                                 *)
LEMMA RndBlock ==
  ASSUME NEW line, NEW last \in Nat, line.b \in Operand, line.a.value \in Operand
  PROVE  Block(RndCode(line), last, 0)
<1> DEFINE x == line.a.value
           bounded == <<Ins("div", 0, 0)>> \o Store("rdx", x)
           start == <<Ins("random", 0, 0)>> \o Load("rcx", line.b)
<1>1. Block(bounded, last, 0) /\ Len(bounded) = 2
  <2>1. Block(<<Ins("div", 0, 0)>>, last, 0) /\ Len(<<Ins("div", 0, 0)>>) = 1
    BY PlainBlock, Kinds, OperandsAre
  <2>2. Block(Store("rdx", x), last, 0) /\ Len(Store("rdx", x)) = 1
    BY StoreBlock, Registers
  <2> DEFINE div == <<Ins("div", 0, 0)>>
             store == Store("rdx", x)
  <2>3. Block(div, last, 0) /\ Len(div) = 1 /\ Block(store, last, 0) /\ Len(store) = 1
    BY <2>1, <2>2
  <2> HIDE DEF div, store
  <2>4. Block(div \o store, last, 0) /\ Len(div \o store) = 2
    <3>1. Block(div \o store, last, 0) /\ Len(div \o store) = Len(div) + Len(store)
      BY <2>3, Join, Zenon
    <3>2. QED
      BY <2>3, <3>1
  <2>5. QED
    BY <2>4 DEF div, store
<1>2. Block(start, last, 0)
  <2>1. Block(<<Ins("random", 0, 0)>>, last, 0)
    BY PlainBlock, Kinds, OperandsAre
  <2>2. Block(Load("rcx", line.b), last, 0)
    BY LoadBlock, Registers
  <2>3. QED
    BY <2>1, <2>2, Join
<1> HIDE DEF bounded, start
<1>3. Len(bounded) + 1 = 3 /\ 3 \in Nat /\ x \in Operand
  BY <1>1
<1>4. Block(start \o <<Ins("test", "rcx", 0), Ins("skip", "l", 3)>> \o bounded
                  \o <<Ins("skip", "always", 1), Ins("zero", x, 0)>>, last, 0)
  BY <1>1, <1>2, <1>3, SkipOver, Registers
<1>5. QED
  BY <1>4, Zenon DEF RndCode, bounded, start

(* The code of every line but a gosub: nothing in it calls, and its skips  *)
(* stay in it or lead behind it.                                           *)
LEMMA LineBlock ==
  ASSUME NEW line, NEW k \in Nat, WellFormed(line, k), line.op # "gosub"
  PROVE  Block(CodeOf(line, k + 1), k + 1, 0)
<1> DEFINE last == k + 1
           r == line.a.value
           w == WidthOf(line)
<1>1. last \in Nat /\ last \in 1 .. last
  OBVIOUS
<1>2. line.a \in Operand /\ line.b \in Operand /\ line.c \in Operand
      /\ line.d \in Operand /\ line.e \in Operand
      /\ (line.op \in Assigns => line.a.value \in Operand)
      /\ (line.op = "screen" => line.b.value \in Operand) /\ (line.op = "peek" => line.c.value \in Operand)
  BY LineOperands, Zenon
<1>3. line.op \in Jumps => line.target \in 1 .. last
  BY DEF WellFormed
<1>4. w \in {1, 2, 4, 8}
  BY WidthIs
<1>5. line.op \in Ops
  BY DEF WellFormed
<1> SUFFICES Block(CodeOf(line, last), last, 0)
  OBVIOUS
<1> HIDE DEF last, r, w
<1>6. \A f \in Word : Block(CallFn(f), last, 0)
  BY <1>1, FnBlock
<1>7. \A j \in {1, 2, 3, 4, 5} : \A arg \in Operand : Block(StoreArg(j, arg), last, 0)
  BY <1>1, ArgBlock
<1>8. \A arg \in Operand : Block(Load("rax", arg), last, 0) /\ Block(Load("rcx", arg), last, 0)
  BY <1>1, LoadBlock, Registers
<1>9. \A x \in Operand : Block(Store("rax", x), last, 0)
  BY <1>1, StoreBlock, Registers
<1>10. Block(Extend(w), last, 0)
  BY <1>1, <1>4, ExtendBlock
<1>11. \A s, t : Block(s, last, 0) /\ Block(t, last, 0) => Block(s \o t, last, 0)
  BY <1>1, Join
<1>12. \A s, t, u : Block(s, last, 0) /\ Block(t, last, 0) /\ Block(u, last, 0)
                     => Block(s \o t \o u, last, 0)
  BY <1>11, Zenon
<1>13. \A s, t, u, v : Block(s, last, 0) /\ Block(t, last, 0) /\ Block(u, last, 0) /\ Block(v, last, 0)
                        => Block(s \o t \o u \o v, last, 0)
  BY <1>11, <1>12, Zenon
<1>14. CASE line.op \in {"set", "set_byte", "set_short", "set_int", "set_long"}
  <2>1. r \in Operand
    BY <1>2, <1>14, Zenon DEF Assigns, r
  <2>2. CodeOf(line, last) = Load("rax", line.b) \o Extend(w) \o Store("rax", r)
    BY <1>14, Zenon DEF CodeOf, r, w
  <2>3. Block(Load("rax", line.b), last, 0)
    BY <1>2, <1>14, <1>8, <2>1, Zenon
  <2>4. Block(Extend(w), last, 0)
    BY <1>2, <1>14, <1>10, <2>1, Zenon
  <2>5. Block(Store("rax", r), last, 0)
    BY <1>2, <1>14, <1>9, <2>1, Zenon
  <2>6. QED
    BY <1>12, <2>2, <2>3, <2>4, <2>5, <2>1, Zenon
<1>15. CASE line.op = "trunc"
  <2>1. r \in Operand
    BY <1>2, <1>15, Zenon DEF Assigns, r
  <2>2. CodeOf(line, last) = Load("rax", line.a) \o Extend(w) \o Store("rax", r)
    BY <1>15, Zenon DEF CodeOf, r, w
  <2>3. Block(Load("rax", line.a), last, 0)
    BY <1>2, <1>15, <1>8, <2>1, Zenon
  <2>4. Block(Extend(w), last, 0)
    BY <1>2, <1>15, <1>10, <2>1, Zenon
  <2>5. Block(Store("rax", r), last, 0)
    BY <1>2, <1>15, <1>9, <2>1, Zenon
  <2>6. QED
    BY <1>12, <2>2, <2>3, <2>4, <2>5, <2>1, Zenon
<1>16. CASE line.op \in {"add", "sub"}
  <2>1. r \in Operand
    BY <1>2, <1>16, Zenon DEF Assigns, r
  <2>2. CodeOf(line, last) = Load("rax", line.b) \o <<Ins(line.op, r, 0)>>
    BY <1>16, Zenon DEF CodeOf, r
  <2>3. Block(<<Ins(line.op, r, 0)>>, last, 0)
    BY <1>1, <1>16, <2>1, PlainBlock, Kinds, OperandsAre
  <2>4. Block(Load("rax", line.b), last, 0)
    BY <1>2, <1>16, <1>8, <2>1, <2>3, Zenon
  <2>5. QED
    BY <1>11, <2>2, <2>4, <2>1, <2>3, Zenon
<1>17. CASE line.op = "mul"
  <2>1. r \in Operand
    BY <1>2, <1>17, Zenon DEF Assigns, r
  <2>2. CodeOf(line, last) = Load("rax", line.b) \o <<Ins("imul", line.a, 0)>> \o Store("rax", r)
    BY <1>17, Zenon DEF CodeOf, r
  <2>3. Block(<<Ins("imul", line.a, 0)>>, last, 0)
    BY <1>1, <1>2, PlainBlock, Kinds, OperandsAre
  <2>4. Block(Load("rax", line.b), last, 0)
    BY <1>2, <1>17, <1>8, <2>1, <2>3, Zenon
  <2>5. Block(Store("rax", r), last, 0)
    BY <1>2, <1>17, <1>9, <2>1, <2>3, Zenon
  <2>6. QED
    BY <1>12, <2>2, <2>4, <2>5, <2>1, <2>3, Zenon
<1>18. CASE line.op = "div"
  <2>1. r \in Operand
    BY <1>2, <1>18, Zenon DEF Assigns, r
  <2>2. CodeOf(line, last) = DivCode(line)
    BY <1>18, Zenon DEF CodeOf, r
  <2>3. Block(DivCode(line), last, 0)
    BY <1>1, <1>2, <2>1, DivBlock DEF r
  <2>4. QED
    BY <2>2, <2>3, Zenon
<1>19. CASE line.op = "rnd"
  <2>1. r \in Operand
    BY <1>2, <1>19, Zenon DEF Assigns, r
  <2>2. CodeOf(line, last) = RndCode(line)
    BY <1>19, Zenon DEF CodeOf, r
  <2>3. Block(RndCode(line), last, 0)
    BY <1>1, <1>2, <2>1, RndBlock DEF r
  <2>4. QED
    BY <2>2, <2>3, Zenon
<1>20. CASE line.op = "goto"
  <2>1. CodeOf(line, last) = <<Ins("jump", "always", line.target)>>
    BY <1>20, Zenon DEF CodeOf
  <2>2. line.target \in 1 .. last
    BY <1>3, <1>20, Zenon DEF Jumps
  <2>3. Block(<<Ins("jump", "always", line.target)>>, last, 0)
    BY <1>1, <2>2, JumpBlock, Registers
  <2>4. QED
    BY <2>1, <2>3, Zenon
<1>21. CASE line.op = "if"
  <2>1. ConditionCode(line) \in Word
    <3>1. line.cmp \in {"=", "!", "<", ">", "l", "g"}
      BY <1>21 DEF WellFormed
    <3>2. NegatedCode(line.cmp) \in Word
      BY <3>1, Zenon DEF NegatedCode, Word
    <3>3. QED
      BY <3>1, <3>2, Zenon DEF ConditionCode, Word
  <2>2. line.target \in 1 .. last
    BY <1>3, <1>21, Zenon DEF Jumps
  <2>3. Block(<<Ins("cmp", "rax", line.b)>>, last, 0)
    BY <1>1, <1>2, PlainBlock, Kinds, OperandsAre, Registers
  <2>4. Block(<<Ins("jump", ConditionCode(line), line.target)>>, last, 0)
    BY <1>1, <2>1, <2>2, JumpBlock
  <2> DEFINE test == Ins("cmp", "rax", line.b)
             jump == Ins("jump", ConditionCode(line), line.target)
  <2> HIDE DEF test, jump
  <2>5. Block(<<test, jump>>, last, 0)
    <3>1. 0 \in Nat /\ 0 <= 1 + 0
      OBVIOUS
    <3>2. QED
      BY <1>1, <2>3, <2>4, <3>1, PairBlock DEF test, jump
  <2>6. CodeOf(line, last) = Load("rax", line.a) \o <<test, jump>>
    BY <1>21, Zenon DEF CodeOf, test, jump
  <2>7. QED
    BY <1>2, <1>8, <1>11, <2>5, <2>6, Zenon
<1>22. CASE line.op = "key"
  <2>1. r \in Operand
    BY <1>2, <1>22, Zenon DEF Assigns, r
  <2>2. CodeOf(line, last) = Load("rcx", line.b) \o CallFn("keydown") \o Store("rax", r)
    BY <1>22, Zenon DEF CodeOf, r
  <2>3. "keydown" \in Word
    BY Zenon DEF Word
  <2>4. Block(Load("rcx", line.b), last, 0)
    BY <1>2, <1>22, <1>8, <2>1, <2>3, Zenon
  <2>5. Block(CallFn("keydown"), last, 0)
    BY <1>2, <1>22, <1>6, <2>1, <2>3, Zenon
  <2>6. Block(Store("rax", r), last, 0)
    BY <1>2, <1>22, <1>9, <2>1, <2>3, Zenon
  <2>7. QED
    BY <1>12, <2>2, <2>4, <2>5, <2>6, <2>1, <2>3, Zenon
<1>23. CASE line.op = "screen"
  <2>1. r \in Operand
    BY <1>2, <1>23, Zenon DEF Assigns, r
  <2>2. CodeOf(line, last) = CallFn("screenw") \o Store("rax",
     r) \o CallFn("screenh") \o Store("rax", line.b.value)
    BY <1>23, Zenon DEF CodeOf, r
  <2>3. "screenw" \in Word /\ "screenh" \in Word
    BY Zenon DEF Word
  <2>4. Block(CallFn("screenw"), last, 0)
    BY <1>2, <1>23, <1>6, <2>1, <2>3, Zenon
  <2>5. Block(Store("rax", r), last, 0)
    BY <1>2, <1>23, <1>9, <2>1, <2>3, Zenon
  <2>6. Block(CallFn("screenh"), last, 0)
    BY <1>2, <1>23, <1>6, <2>1, <2>3, Zenon
  <2>7. Block(Store("rax", line.b.value), last, 0)
    BY <1>2, <1>23, <1>9, <2>1, <2>3, Zenon
  <2>8. QED
    BY <1>13, <2>2, <2>4, <2>5, <2>6, <2>7, <2>1, <2>3, Zenon
<1>24. CASE line.op = "millis"
  <2>1. r \in Operand
    BY <1>2, <1>24, Zenon DEF Assigns, r
  <2>2. CodeOf(line, last) = CallFn("millis") \o Store("rax", r)
    BY <1>24, Zenon DEF CodeOf, r
  <2>3. "millis" \in Word
    BY Zenon DEF Word
  <2>4. Block(CallFn("millis"), last, 0)
    BY <1>2, <1>24, <1>6, <2>1, <2>3, Zenon
  <2>5. Block(Store("rax", r), last, 0)
    BY <1>2, <1>24, <1>9, <2>1, <2>3, Zenon
  <2>6. QED
    BY <1>11, <2>2, <2>4, <2>5, <2>1, <2>3, Zenon
<1>25. CASE line.op = "wait"
  <2>1. CodeOf(line, last) = Load("rcx", line.a) \o CallFn("wait")
    BY <1>25, Zenon DEF CodeOf
  <2>2. "wait" \in Word
    BY Zenon DEF Word
  <2>3. Block(Load("rcx", line.a), last, 0)
    BY <1>2, <1>25, <1>8, <2>2, Zenon
  <2>4. Block(CallFn("wait"), last, 0)
    BY <1>2, <1>25, <1>6, <2>2, Zenon
  <2>5. QED
    BY <1>11, <2>1, <2>3, <2>4, <2>2, Zenon
<1>26. CASE line.op = "end"
  <2>1. CodeOf(line, last) = <<Ins("jump", "always", last)>>
    BY <1>26, Zenon DEF CodeOf
  <2>2. Block(<<Ins("jump", "always", last)>>, last, 0)
    BY <1>1, JumpBlock, Registers
  <2>3. QED
    BY <2>1, <2>2, Zenon
<1>27. CASE line.op \in {"text", "num"}
  <2>1. CodeOf(line, last) = StoreArg(1, line.a) \o StoreArg(2, line.b) \o StoreArg(3,
     line.c) \o CallFn(line.op)
    BY <1>27, Zenon DEF CodeOf
  <2>2. line.op \in Word
    BY <1>27, Zenon DEF Word
  <2>3. 1 \in {1, 2, 3, 4, 5} /\ 2 \in {1, 2, 3, 4, 5} /\ 3 \in {1, 2, 3, 4, 5}
    BY Zenon
  <2>4. Block(StoreArg(1, line.a), last, 0)
    BY <1>2, <1>27, <1>7, <2>2, <2>3, Zenon
  <2>5. Block(StoreArg(2, line.b), last, 0)
    BY <1>2, <1>27, <1>7, <2>2, <2>3, Zenon
  <2>6. Block(StoreArg(3, line.c), last, 0)
    BY <1>2, <1>27, <1>7, <2>2, <2>3, Zenon
  <2>7. Block(CallFn(line.op), last, 0)
    BY <1>2, <1>27, <1>6, <2>2, <2>3, Zenon
  <2>8. QED
    BY <1>13, <2>1, <2>4, <2>5, <2>6, <2>7, <2>2, <2>3, Zenon
<1>35. CASE line.op = "rect"
  <2> DEFINE three == StoreArg(1, line.a) \o StoreArg(2, line.b) \o StoreArg(3, line.c)
             rest == StoreArg(4, line.d) \o StoreArg(5, line.e) \o CallFn("rect")
  <2>1. CodeOf(line, last) = three \o rest
    BY <1>35, Zenon DEF CodeOf
  <2>2. "rect" \in Word
    BY Zenon DEF Word
  <2>3. 1 \in {1, 2, 3, 4, 5} /\ 2 \in {1, 2, 3, 4, 5} /\ 3 \in {1, 2, 3, 4, 5}
        /\ 4 \in {1, 2, 3, 4, 5} /\ 5 \in {1, 2, 3, 4, 5}
    BY Zenon
  <2>4. Block(StoreArg(1, line.a), last, 0) /\ Block(StoreArg(2, line.b), last, 0) /\ Block(StoreArg(3, line.c), last, 0)
    BY <1>2, <1>7, <2>3, Zenon
  <2>5. Block(StoreArg(4, line.d), last, 0) /\ Block(StoreArg(5, line.e), last, 0) /\ Block(CallFn("rect"), last, 0)
    BY <1>2, <1>6, <1>7, <2>2, <2>3, Zenon
  <2>6. Block(three, last, 0) /\ Block(rest, last, 0)
    BY <1>12, <2>4, <2>5, Zenon
  <2> HIDE DEF three, rest
  <2>7. QED
    BY <1>11, <2>1, <2>6, Zenon
<1>28. CASE line.op = "flip"
  <2> DEFINE test == Ins("test", "rax", 0)
             jump == Ins("jump", "=", last)
  <2>1. Block(<<test>>, last, 0)
    BY <1>1, PlainBlock, Kinds, OperandsAre, Registers
  <2>2. Block(<<jump>>, last, 0)
    BY <1>1, JumpBlock, Registers
  <2> HIDE DEF test, jump
  <2>3. Block(<<test, jump>>, last, 0)
    <3>1. 0 \in Nat /\ 0 <= 1 + 0
      OBVIOUS
    <3>2. QED
      BY <1>1, <2>1, <2>2, <3>1, PairBlock
  <2>4. CodeOf(line, last) = CallFn("flip") \o <<test, jump>>
    BY <1>28, Zenon DEF CodeOf, test, jump
  <2>5. "flip" \in Word
    BY Zenon DEF Word
  <2>6. QED
    BY <1>6, <1>11, <2>3, <2>4, <2>5, Zenon
<1>29. CASE line.op = "alloc"
  <2>1. r \in Operand
    BY <1>2, <1>29, Zenon DEF Assigns, r
  <2>2. CodeOf(line, last) = StoreArg(1, line.b) \o CallFn("alloc") \o Store("rax", r)
    BY <1>29, Zenon DEF CodeOf, r
  <2>3. "alloc" \in Word
    BY Zenon DEF Word
  <2>4. 1 \in {1, 2, 3, 4, 5} /\ 2 \in {1, 2, 3, 4, 5} /\ 3 \in {1, 2, 3, 4, 5}
    BY Zenon
  <2>5. Block(StoreArg(1, line.b), last, 0)
    BY <1>2, <1>29, <1>7, <2>1, <2>3, <2>4, Zenon
  <2>6. Block(CallFn("alloc"), last, 0)
    BY <1>2, <1>29, <1>6, <2>1, <2>3, <2>4, Zenon
  <2>7. Block(Store("rax", r), last, 0)
    BY <1>2, <1>29, <1>9, <2>1, <2>3, <2>4, Zenon
  <2>8. QED
    BY <1>12, <2>2, <2>5, <2>6, <2>7, <2>1, <2>3, <2>4, Zenon
<1>30. CASE line.op = "poke"
  <2>1. CodeOf(line, last) = StoreArg(1, line.a) \o StoreArg(2, line.b) \o StoreArg(3,
     line.c) \o CallFn("poke")
    BY <1>30, Zenon DEF CodeOf
  <2>2. "poke" \in Word
    BY Zenon DEF Word
  <2>3. 1 \in {1, 2, 3, 4, 5} /\ 2 \in {1, 2, 3, 4, 5} /\ 3 \in {1, 2, 3, 4, 5}
    BY Zenon
  <2>4. Block(StoreArg(1, line.a), last, 0)
    BY <1>2, <1>30, <1>7, <2>2, <2>3, Zenon
  <2>5. Block(StoreArg(2, line.b), last, 0)
    BY <1>2, <1>30, <1>7, <2>2, <2>3, Zenon
  <2>6. Block(StoreArg(3, line.c), last, 0)
    BY <1>2, <1>30, <1>7, <2>2, <2>3, Zenon
  <2>7. Block(CallFn("poke"), last, 0)
    BY <1>2, <1>30, <1>6, <2>2, <2>3, Zenon
  <2>8. QED
    BY <1>13, <2>1, <2>4, <2>5, <2>6, <2>7, <2>2, <2>3, Zenon
<1>31. CASE line.op = "peek"
  <2>1. CodeOf(line, last) = StoreArg(1, line.a) \o StoreArg(2,
     line.b) \o CallFn("peek") \o Store("rax", line.c.value)
    BY <1>31, Zenon DEF CodeOf
  <2>2. "peek" \in Word
    BY Zenon DEF Word
  <2>3. 1 \in {1, 2, 3, 4, 5} /\ 2 \in {1, 2, 3, 4, 5} /\ 3 \in {1, 2, 3, 4, 5}
    BY Zenon
  <2>4. Block(StoreArg(1, line.a), last, 0)
    BY <1>2, <1>31, <1>7, <2>2, <2>3, Zenon
  <2>5. Block(StoreArg(2, line.b), last, 0)
    BY <1>2, <1>31, <1>7, <2>2, <2>3, Zenon
  <2>6. Block(CallFn("peek"), last, 0)
    BY <1>2, <1>31, <1>6, <2>2, <2>3, Zenon
  <2>7. Block(Store("rax", line.c.value), last, 0)
    BY <1>2, <1>31, <1>9, <2>2, <2>3, Zenon
  <2>8. QED
    BY <1>13, <2>1, <2>4, <2>5, <2>6, <2>7, <2>2, <2>3, Zenon
<1>32. CASE line.op = "return"
  <2>1. CodeOf(line, last) = <<Ins("ret", 0, 0)>>
    BY <1>32, Zenon DEF CodeOf
  <2>2. Block(<<Ins("ret", 0, 0)>>, last, 0)
    BY <1>1, PlainBlock, Kinds, OperandsAre
  <2>3. QED
    BY <2>1, <2>2, Zenon
<1>33. QED
  BY <1>5, <1>14, <1>15, <1>16, <1>17, <1>18, <1>19, <1>20, <1>21, <1>22, <1>23, <1>24, <1>25,
     <1>26, <1>27, <1>35, <1>28, <1>29, <1>30, <1>31, <1>32 DEF Ops, Jumps, Assigns

---------------------------------------------------------------------------
(* The code of all lines                                                   *)

(* Execution comes to these only from the instruction before, and from a   *)
(* return.                                                                 *)
Middle == {"call", "unpad"}

Enters(b, k) == k \in 1 .. Len(b) => b[k].i \notin Middle

(* Code that is entered at its first instruction and left behind its last, *)
(* where lines are numbered up to last.                                    *)
Sound(b, last) ==
  /\ b \in Seq(Instruction)
  /\ Enters(b, 1)
  /\ \A k \in 1 .. Len(b) :
       /\ Formed(b[k], last)
       /\ b[k].i = "skip" => k + b[k].y <= Len(b) /\ Enters(b, k + 1 + b[k].y)
       /\ b[k].i = "pad" => k < Len(b) /\ b[k + 1].i = "call"
       /\ b[k].i = "call" => k < Len(b) /\ b[k + 1].i = "unpad"
       /\ b[k].i \notin {"pad", "call"} => Enters(b, k + 1)

(* A block is entered anywhere.                                            *)
LEMMA SoundBlock ==
  ASSUME NEW b, NEW last \in Nat, Block(b, last, 0)
  PROVE  Sound(b, last)
<1>1. b \in Seq(Instruction) /\ Len(b) \in Nat
  BY LenProperties DEF Block
<1>2. ASSUME NEW k \in 1 .. Len(b)
      PROVE  Formed(b[k], last) /\ b[k].i \notin Calling /\ (b[k].i = "skip" => k + b[k].y <= Len(b))
  <2>1. Formed(b[k], last) /\ b[k].i \notin Calling /\ (b[k].i = "skip" => k + b[k].y <= Len(b) + 0)
    BY DEF Block
  <2>2. QED
    BY <1>1, <2>1
<1>3. \A k : Enters(b, k)
  BY <1>2 DEF Enters, Calling, Middle
<1>4. \A k \in 1 .. Len(b) : b[k].i # "pad" /\ b[k].i # "call"
  BY <1>2 DEF Calling
<1>5. QED
  BY <1>1, <1>2, <1>3, <1>4, Zenon DEF Sound

(* The call of a gosub is entered from its pad, and its unpad by the return. *)
LEMMA GosubSound ==
  ASSUME NEW line, NEW last \in Nat, line.target \in 1 .. last
  PROVE  Sound(GosubCode(line), last)
<1> DEFINE p == Ins("pad", 0, 0)
           c == Ins("call", "always", line.target)
           u == Ins("unpad", 0, 0)
           b == <<p, c, u>>
<1>1. p.i = "pad" /\ c.i = "call" /\ c.y = line.target /\ u.i = "unpad"
  BY InsFields
<1>2. p \in Instruction /\ c \in Instruction /\ u \in Instruction
  <2>1. 0 \in Operand /\ line.target \in Operand /\ "always" \in Operand
    <3>1. line.target \in Int
      OBVIOUS
    <3>2. QED
      BY <3>1, OperandsAre, Registers, Zenon
  <2>2. "pad" \in Calling /\ "call" \in Calling /\ "unpad" \in Calling
    BY DEF Calling
  <2>3. QED
    BY <2>1, <2>2, InsTyped, KindsAre
<1>3. GosubCode(line) = b
  BY DEF GosubCode
<1> HIDE DEF p, c, u
<1>4. b \in Seq(Instruction) /\ Len(b) = 3 /\ b[1] = p /\ b[2] = c /\ b[3] = u
  <2> HIDE DEF Instruction
  <2>1. QED
    BY <1>2
<1> HIDE DEF b
<1>5. Formed(p, last) /\ Formed(c, last) /\ Formed(u, last)
  BY <1>1 DEF Formed
<1>6. Enters(b, 1) /\ Enters(b, 4)
  BY <1>1, <1>4 DEF Enters, Middle
<1>7. ASSUME NEW k \in 1 .. Len(b)
      PROVE  /\ Formed(b[k], last)
             /\ b[k].i # "skip"
             /\ b[k].i = "pad" => k < Len(b) /\ b[k + 1].i = "call"
             /\ b[k].i = "call" => k < Len(b) /\ b[k + 1].i = "unpad"
             /\ b[k].i \notin {"pad", "call"} => Enters(b, k + 1)
  <2>1. k = 1 \/ k = 2 \/ k = 3
    BY <1>4
  <2>2. CASE k = 1
    BY <1>1, <1>4, <1>5, <2>2
  <2>3. CASE k = 2
    BY <1>1, <1>4, <1>5, <2>3
  <2>4. CASE k = 3
    BY <1>1, <1>4, <1>5, <1>6, <2>4
  <2>5. QED
    BY <2>1, <2>2, <2>3, <2>4
<1>8. Sound(b, last)
  BY <1>4, <1>6, <1>7, Zenon DEF Sound
<1>9. QED
  BY <1>3, <1>8

(* The code of every line.                                                 *)
LEMMA LineSound ==
  ASSUME NEW line, NEW k \in Nat, WellFormed(line, k)
  PROVE  Sound(CodeOf(line, k + 1), k + 1)
<1>1. k + 1 \in Nat
  OBVIOUS
<1>2. CASE line.op = "gosub"
  <2>1. line.target \in 1 .. k + 1
    BY <1>2, Zenon DEF WellFormed, Jumps
  <2>2. CodeOf(line, k + 1) = GosubCode(line)
    BY <1>2, Zenon DEF CodeOf
  <2>3. QED
    BY <1>1, <2>1, <2>2, GosubSound
<1>3. CASE line.op # "gosub"
  BY <1>1, <1>3, LineBlock, SoundBlock
<1>4. QED
  BY <1>2, <1>3

(* Code behind code: what was entered is still, and so is the seam.        *)
LEMMA SoundJoin ==
  ASSUME NEW s, NEW t, NEW last \in Nat, Sound(s, last), Sound(t, last)
  PROVE  /\ Sound(s \o t, last)
         /\ Len(s) \in Nat /\ Len(t) \in Nat /\ Len(s \o t) = Len(s) + Len(t)
         /\ \A k \in 1 .. Len(s) + 1 : Enters(s, k) => Enters(s \o t, k)
<1>1. s \in Seq(Instruction) /\ t \in Seq(Instruction)
  BY DEF Sound
<1>2. PICK p \in Nat, q \in Nat : p = Len(s) /\ q = Len(t)
  BY <1>1, LenProperties
<1>3. s \o t \in Seq(Instruction) /\ Len(s \o t) = p + q
      /\ \A k \in 1 .. p + q : (s \o t)[k] = IF k <= p THEN s[k] ELSE t[k - p]
  BY <1>1, <1>2, ConcatProperties
<1> DEFINE u == s \o t
<1> HIDE DEF u
<1>4. u \in Seq(Instruction) /\ Len(u) = p + q
  BY <1>3 DEF u
<1>5. \A k \in 1 .. p : u[k] = s[k]
  BY <1>2, <1>3 DEF u
<1>6. \A k \in 1 .. q : u[p + k] = t[k]
  <2>1. ASSUME NEW k \in 1 .. q PROVE u[p + k] = t[k]
    <3>1. p + k \in 1 .. p + q /\ ~(p + k <= p) /\ p + k - p = k
      BY <1>2
    <3>2. u[p + k] = t[p + k - p]
      BY <1>3, <3>1 DEF u
    <3>3. QED
      BY <3>1, <3>2
  <2>2. QED
    BY <2>1
<1>7. ASSUME NEW k \in Nat, Enters(t, k), k > 0 PROVE Enters(u, p + k)
  <2>1. CASE k \in 1 .. q
    BY <1>2, <1>6, <1>7, <2>1 DEF Enters
  <2>2. CASE k \notin 1 .. q
    <3>1. p + k \notin 1 .. Len(u)
      BY <1>2, <1>4, <1>7, <2>2
    <3>2. QED
      BY <3>1 DEF Enters
  <2>3. QED
    BY <2>1, <2>2
<1>8. Enters(t, 1) /\ Enters(s, 1)
  BY DEF Sound
<1>9. ASSUME NEW k \in 1 .. p + 1, Enters(s, k) PROVE Enters(u, k)
  <2>1. CASE k = p + 1
    <3>1. Enters(u, p + 1)
      BY <1>7, <1>8
    <3>2. QED
      BY <2>1, <3>1
  <2>2. CASE k # p + 1
    <3>1. k \in 1 .. p
      BY <1>2, <2>2
    <3>2. u[k] = s[k]
      BY <1>5, <3>1
    <3>3. QED
      BY <1>2, <1>9, <3>1, <3>2 DEF Enters
  <2>3. QED
    BY <2>1, <2>2
<1>10. Enters(u, 1)
  <2>1. 1 \in 1 .. p + 1
    BY <1>2
  <2>2. QED
    BY <1>8, <1>9, <2>1
<1>11. ASSUME NEW k \in 1 .. Len(u)
       PROVE  /\ Formed(u[k], last)
              /\ u[k].i = "skip" => k + u[k].y <= Len(u) /\ Enters(u, k + 1 + u[k].y)
              /\ u[k].i = "pad" => k < Len(u) /\ u[k + 1].i = "call"
              /\ u[k].i = "call" => k < Len(u) /\ u[k + 1].i = "unpad"
              /\ u[k].i \notin {"pad", "call"} => Enters(u, k + 1)
  <2>1. CASE k <= p
    <3>1. k \in 1 .. p /\ u[k] = s[k]
      BY <1>2, <1>5, <2>1
    <3>2. /\ Formed(s[k], last)
          /\ s[k].i = "skip" => k + s[k].y <= p /\ Enters(s, k + 1 + s[k].y)
          /\ s[k].i = "pad" => k < p /\ s[k + 1].i = "call"
          /\ s[k].i = "call" => k < p /\ s[k + 1].i = "unpad"
          /\ s[k].i \notin {"pad", "call"} => Enters(s, k + 1)
      BY <1>2, <3>1 DEF Sound
    <3>3. k < p => u[k + 1] = s[k + 1] /\ k < Len(u)
      BY <1>2, <1>4, <1>5, <3>1
    <3>4. s[k].i = "skip" => k + s[k].y <= Len(u) /\ Enters(u, k + 1 + s[k].y)
      <4>1. HAVE s[k].i = "skip"
      <4>2. s[k].y \in Nat
        BY <3>2, <4>1 DEF Formed
      <4>3. k + 1 + s[k].y \in 1 .. p + 1 /\ k + s[k].y <= Len(u)
        BY <1>2, <1>4, <3>1, <3>2, <4>1, <4>2
      <4>4. QED
        BY <1>9, <3>2, <4>1, <4>3
    <3>5. s[k].i \notin {"pad", "call"} => Enters(u, k + 1)
      <4>1. k + 1 \in 1 .. p + 1
        BY <1>2, <3>1
      <4>2. QED
        BY <1>9, <3>2, <4>1
    <3>6. QED
      BY <3>1, <3>2, <3>3, <3>4, <3>5
  <2>2. CASE ~(k <= p)
    <3>1. PICK j \in 1 .. q : k = p + j
      <4>1. k - p \in 1 .. q /\ k = p + (k - p)
        BY <1>2, <1>4, <2>2
      <4>2. QED
        BY <4>1
    <3>2. u[k] = t[j]
      BY <1>6, <3>1
    <3>3. /\ Formed(t[j], last)
          /\ t[j].i = "skip" => j + t[j].y <= q /\ Enters(t, j + 1 + t[j].y)
          /\ t[j].i = "pad" => j < q /\ t[j + 1].i = "call"
          /\ t[j].i = "call" => j < q /\ t[j + 1].i = "unpad"
          /\ t[j].i \notin {"pad", "call"} => Enters(t, j + 1)
      BY <1>2, <3>1 DEF Sound
    <3>4. j < q => u[k + 1] = t[j + 1] /\ k < Len(u)
      <4>1. HAVE j < q
      <4>2. j + 1 \in 1 .. q /\ k + 1 = p + (j + 1) /\ k < Len(u)
        BY <1>2, <1>4, <3>1, <4>1
      <4>3. QED
        BY <1>6, <4>2
    <3>5. t[j].i = "skip" => k + t[j].y <= Len(u) /\ Enters(u, k + 1 + t[j].y)
      <4>1. HAVE t[j].i = "skip"
      <4>2. PICK y \in Nat : y = t[j].y
        BY <3>3, <4>1 DEF Formed
      <4>3. j + y <= q /\ Enters(t, j + 1 + y)
        BY <3>3, <4>1, <4>2
      <4>4. PICK e \in Nat : e = j + 1 + y
        BY <3>1, <4>2
      <4>5. e > 0 /\ p + e = k + 1 + y /\ k + y <= Len(u)
        BY <1>2, <1>4, <3>1, <4>3, <4>4
      <4>6. Enters(u, p + e)
        BY <1>7, <4>3, <4>4, <4>5
      <4>7. QED
        BY <4>2, <4>5, <4>6
    <3>6. t[j].i \notin {"pad", "call"} => Enters(u, k + 1)
      <4>1. j + 1 \in Nat /\ j + 1 > 0 /\ p + (j + 1) = k + 1
        BY <1>2, <3>1
      <4>2. Enters(t, j + 1) => Enters(u, p + (j + 1))
        BY <1>7, <4>1
      <4>3. QED
        BY <3>3, <4>1, <4>2
    <3>7. QED
      BY <3>2, <3>3, <3>4, <3>5, <3>6
  <2>3. QED
    BY <2>1, <2>2
<1>12. Sound(u, last)
  BY <1>4, <1>10, <1>11, Zenon DEF Sound
<1>13. QED
  BY <1>2, <1>4, <1>9, <1>12 DEF u

(* What is emitted up to each line is what was emitted up to the one       *)
(* before and the code of the line.                                        *)
LEMMA EmittedIs ==
  ASSUME NEW ls, IsScript(ls)
  PROVE  /\ Len(ls) \in Nat
         /\ Emitted(ls)[0] = <<>>
         /\ \A i \in 1 .. Len(ls) : Emitted(ls)[i] = Emitted(ls)[i - 1] \o CodeOf(ls[i], Len(ls) + 1)
<1> DEFINE k == Len(ls)
           S == Seq(Instruction)
           block(i) == CodeOf(ls[i], k + 1)
           Is(g) == g = [i \in 0 .. k |-> IF i = 0 THEN <<>> ELSE g[i - 1] \o block(i)]
           step == [i \in 1 .. k |-> [s \in S |-> s \o block(i)]]
<1>1. k \in Nat /\ \A i \in 1 .. k : WellFormed(ls[i], k)
  BY DEF IsScript
<1>2. \A i \in 1 .. k : block(i) \in S
  BY <1>1, LineSound DEF Sound
<1>3. step \in [1 .. k -> [S -> S]]
  <2> HIDE DEF block, k
  <2>1. \A i \in 1 .. k : \A s \in S : s \o block(i) \in S
    BY <1>2, ConcatProperties
  <2> HIDE DEF S
  <2>2. QED
    BY <2>1
<1>4. <<>> \in S
  OBVIOUS
<1> HIDE DEF S
<1>5. PICK f \in [0 .. k -> S] : f[0] = <<>> /\ \A i \in 1 .. k : f[i] = step[i][f[i - 1]]
  <2>1. Iterates(k, S, <<>>, step) # {}
    <3> HIDE DEF step, k
    <3>1. QED
      BY <1>1, <1>3, <1>4, Recursion
  <2>2. QED
    BY <2>1 DEF Iterates
<1>6. ASSUME NEW i \in 0 .. k PROVE f[i] = IF i = 0 THEN <<>> ELSE f[i - 1] \o block(i)
  <2>1. CASE i = 0
    BY <1>5, <2>1
  <2>2. CASE i # 0
    <3>1. i \in 1 .. k /\ i - 1 \in 0 .. k
      BY <1>1, <2>2
    <3>2. f[i - 1] \in S /\ f[i] = step[i][f[i - 1]]
      BY <1>5, <3>1
    <3> HIDE DEF block, k
    <3>3. QED
      BY <2>2, <3>1, <3>2
  <2>3. QED
    BY <2>1, <2>2
<1> HIDE DEF block
<1>7. Is(f)
  <2>1. f = [i \in 0 .. k |-> f[i]]
    OBVIOUS
  <2> HIDE DEF k
  <2>2. QED
    BY <1>6, <2>1
<1> DEFINE g == CHOOSE h : Is(h)
<1>8. Is(g)
  <2> HIDE DEF Is
  <2>1. QED
    BY <1>7
<1>9. Emitted(ls) = g
  BY DEF Emitted, block
<1> HIDE DEF g
<1>10. g[0] = <<>>
  BY <1>1, <1>8
<1>11. ASSUME NEW i \in 1 .. k PROVE g[i] = g[i - 1] \o block(i)
  <2>1. i \in 0 .. k /\ i # 0
    BY <1>1
  <2> HIDE DEF k
  <2>2. QED
    BY <1>8, <2>1
<1>12. QED
  BY <1>1, <1>9, <1>10, <1>11 DEF block

(* What is emitted is sound, and each line is entered at its first         *)
(* instruction.                                                            *)
LEMMA EmittedSound ==
  ASSUME NEW ls, IsScript(ls)
  PROVE  LET upto == Emitted(ls)
         IN  /\ Sound(upto[Len(ls)], Len(ls) + 1)
             /\ \A i \in 1 .. Len(ls) + 1 :
                  /\ LineOffset(upto, i) \in 1 .. Len(upto[Len(ls)]) + 1
                  /\ Enters(upto[Len(ls)], LineOffset(upto, i))
<1> DEFINE k == Len(ls)
           upto == Emitted(ls)
           block == [i \in 1 .. k |-> CodeOf(ls[i], k + 1)]
           A == {i \in 0 .. k : /\ Sound(upto[i], k + 1)
                                /\ \A j \in 0 .. i : /\ Len(upto[j]) \in Nat /\ Len(upto[j]) <= Len(upto[i])
                                                     /\ Enters(upto[i], Len(upto[j]) + 1)}
<1>1. k \in Nat /\ \A i \in 1 .. k : WellFormed(ls[i], k)
  BY DEF IsScript
<1>2. \A i \in 1 .. k : Sound(block[i], k + 1)
  BY <1>1, LineSound
<1>3. upto[0] = <<>> /\ \A i \in 1 .. k : upto[i] = upto[i - 1] \o block[i]
  BY EmittedIs
<1> HIDE DEF k, upto, block
<1>4. Sound(<<>>, k + 1) /\ Len(<<>>) = 0 /\ Enters(<<>>, 1)
  <2>1. k + 1 \in Nat
    BY <1>1
  <2>2. QED
    BY <2>1, EmptyBlock, SoundBlock DEF Sound
<1>5. 0 \in A
  <2>1. 0 \in 0 .. k /\ \A j \in 0 .. 0 : j = 0
    BY <1>1
  <2>2. Len(upto[0]) = 0 /\ Sound(upto[0], k + 1) /\ Enters(upto[0], 0 + 1)
    BY <1>3, <1>4
  <2>3. QED
    BY <2>1, <2>2
<1>6. ASSUME NEW i \in 0 .. k - 1, i \in A PROVE i + 1 \in A
  <2>1. i + 1 \in 1 .. k /\ i + 1 - 1 = i /\ i + 1 \in 0 .. k /\ k + 1 \in Nat
    BY <1>1
  <2>2. Sound(upto[i], k + 1) /\ Sound(block[i + 1], k + 1) /\ upto[i + 1] = upto[i] \o block[i + 1]
    <3>1. Sound(upto[i], k + 1)
      BY <1>6
    <3>2. Sound(block[i + 1], k + 1)
      BY <1>2, <2>1, Zenon
    <3>3. PICK e \in 1 .. k : e = i + 1 /\ e - 1 = i
      BY <2>1
    <3>4. upto[e] = upto[e - 1] \o block[e]
      BY <1>3
    <3>5. QED
      BY <3>1, <3>2, <3>3, <3>4, Zenon
  <2>3. /\ Sound(upto[i + 1], k + 1)
        /\ Len(upto[i]) \in Nat /\ Len(block[i + 1]) \in Nat
        /\ Len(upto[i + 1]) = Len(upto[i]) + Len(block[i + 1])
        /\ \A e \in 1 .. Len(upto[i]) + 1 : Enters(upto[i], e) => Enters(upto[i + 1], e)
    BY <2>1, <2>2, SoundJoin, Zenon
  <2>4. PICK p \in Nat, q \in Nat : p = Len(upto[i]) /\ q = Len(upto[i + 1]) /\ p <= q
    <3>1. PICK p \in Nat, r \in Nat : p = Len(upto[i]) /\ r = Len(block[i + 1])
      BY <2>3, Zenon
    <3>2. Len(upto[i + 1]) = p + r
      BY <2>3, <3>1, Zenon
    <3>3. p + r \in Nat /\ p <= p + r
      OBVIOUS
    <3>4. QED
      BY <3>1, <3>2, <3>3, Zenon
  <2>5. ASSUME NEW j \in 0 .. i + 1
        PROVE  Len(upto[j]) \in Nat /\ Len(upto[j]) <= q /\ Enters(upto[i + 1], Len(upto[j]) + 1)
    <3>1. CASE j = i + 1
      <4>1. q + 1 \notin 1 .. q
        BY <2>4
      <4>2. QED
        BY <2>4, <3>1, <4>1 DEF Enters
    <3>2. CASE j # i + 1
      <4>1. j \in 0 .. i
        BY <3>2
      <4>2. Len(upto[j]) \in Nat /\ Len(upto[j]) <= p /\ Enters(upto[i], Len(upto[j]) + 1)
        BY <1>6, <2>4, <4>1
      <4>3. PICK r \in Nat : r = Len(upto[j])
        BY <4>2
      <4>4. r <= q /\ r + 1 \in 1 .. p + 1
        BY <2>4, <4>2, <4>3
      <4>5. QED
        BY <2>3, <2>4, <4>2, <4>3, <4>4
    <3>3. QED
      BY <3>1, <3>2
  <2>6. QED
    BY <2>1, <2>3, <2>4, <2>5
<1>7. \A i \in 0 .. k : i \in A
  <2> HIDE DEF A
  <2>1. QED
    BY <1>1, <1>5, <1>6, UptoInd
<1>8. k \in A
  BY <1>1, <1>7
<1>9. ASSUME NEW i \in 1 .. k + 1
      PROVE  LineOffset(upto, i) \in 1 .. Len(upto[k]) + 1 /\ Enters(upto[k], LineOffset(upto, i))
  <2>1. i - 1 \in 0 .. k /\ k \in 0 .. k
    BY <1>1
  <2>2. /\ Len(upto[i - 1]) \in Nat /\ Len(upto[i - 1]) <= Len(upto[k])
        /\ Enters(upto[k], Len(upto[i - 1]) + 1) /\ Len(upto[k]) \in Nat
    BY <1>8, <2>1
  <2>3. QED
    BY <2>2 DEF LineOffset
<1>10. QED
  BY <1>8, <1>9 DEF k, upto

---------------------------------------------------------------------------
(* The code of a script                                                    *)

(* An instruction that may come after any other.                           *)
Entered(c, k) == k \in DOMAIN c /\ c[k].i \notin Middle

(* Code that is never left but at its end.                                 *)
Well(c) ==
  /\ c # <<>> => Entered(c, 1)
  /\ \A k \in DOMAIN c :
       /\ k \in Nat
       /\ c[k].i = "load" => c[k].x \in {"rax", "rcx"}
       /\ c[k].i = "skip" => c[k].y \in Nat /\ Entered(c, k + 1 + c[k].y)
       /\ c[k].i \in {"jump", "call"} => Entered(c, c[k].y)
       /\ c[k].i = "pad" => k + 1 \in DOMAIN c /\ c[k + 1].i = "call"
       /\ c[k].i = "call" => k + 1 \in DOMAIN c /\ c[k + 1].i = "unpad"
       /\ c[k].i \notin {"pad", "call", "leave"} => Entered(c, k + 1)

(* Patch32 changes the target only.                                        *)
LEMMA PatchedIs ==
  ASSUME NEW ins \in Instruction, NEW upto
  PROVE  /\ Patched(ins, upto).i = ins.i /\ Patched(ins, upto).x = ins.x
         /\ Patched(ins, upto).y = IF ins.i \in {"jump", "call"} THEN LineOffset(upto, ins.y) ELSE ins.y
<1> HIDE DEF Kind, Operand
<1>1. QED
  BY DEF Patched, Instruction

(* Whatever is compiled into code that fits makes code that is never left. *)
LEMMA CompiledWell ==
  ASSUME NEW ls, IsScript(ls)
  PROVE  Well(Compile(ls))
<1> DEFINE upto == Emitted(ls)
           e == upto[Len(ls)]
           leave == Ins("leave", 0, 0)
           em == Append(e, leave)
           c == [k \in 1 .. Len(em) |-> Patched(em[k], upto)]
           last == Len(ls) + 1
<1>1. Compile(ls) = <<>> \/ Compile(ls) = c
  BY Zenon DEF Compile
<1>2. Well(<<>>)
  BY DEF Well
<1>3. last \in Nat
  BY DEF IsScript
<1>4. /\ Sound(e, last)
      /\ \A j \in 1 .. last : LineOffset(upto, j) \in 1 .. Len(e) + 1 /\ Enters(e, LineOffset(upto, j))
  BY EmittedSound
<1>5. leave \in Instruction /\ leave.i = "leave"
  <2>1. "leave" \in Kind
    BY DEF Kind
  <2>2. QED
    BY <2>1, InsTyped, InsFields, OperandsAre
<1> HIDE DEF upto, e, leave, last
<1>6. e \in Seq(Instruction)
  BY <1>4 DEF Sound
<1>7. PICK p \in Nat : p = Len(e)
  BY <1>6, LenProperties
<1>8. /\ em \in Seq(Instruction) /\ Len(em) = p + 1
      /\ \A k \in 1 .. p : em[k] = e[k]
      /\ em[p + 1] = leave
  BY <1>5, <1>6, <1>7, AppendProperties
<1>9. \A k \in 1 .. p + 1 : em[k] \in Instruction
  BY <1>8, ElementOfSeq
<1> HIDE DEF em
<1>10. DOMAIN c = 1 .. p + 1
  BY <1>8
<1>11. ASSUME NEW k \in 1 .. p + 1
       PROVE  /\ c[k].i = em[k].i /\ c[k].x = em[k].x
              /\ c[k].y = IF em[k].i \in {"jump", "call"} THEN LineOffset(upto, em[k].y) ELSE em[k].y
  <2>1. c[k] = Patched(em[k], upto)
    BY <1>8
  <2> HIDE DEF c
  <2>2. QED
    BY <1>9, <2>1, PatchedIs
<1> HIDE DEF c
<1>12. c[p + 1].i = "leave"
  BY <1>5, <1>8, <1>11
<1>13. ASSUME NEW k \in 1 .. p
       PROVE  /\ c[k].i = e[k].i /\ c[k].x = e[k].x
              /\ c[k].y = IF e[k].i \in {"jump", "call"} THEN LineOffset(upto, e[k].y) ELSE e[k].y
  <2>1. k \in 1 .. p + 1 /\ em[k] = e[k]
    BY <1>8
  <2>2. QED
    BY <1>11, <2>1
<1>14. ASSUME NEW k \in 1 .. p + 1, Enters(e, k) PROVE Entered(c, k)
  <2>1. CASE k = p + 1
    BY <1>10, <1>12, <2>1 DEF Entered, Middle
  <2>2. CASE k # p + 1
    <3>1. k \in 1 .. p
      BY <2>2
    <3>2. c[k].i = e[k].i /\ e[k].i \notin Middle
      BY <1>7, <1>13, <1>14, <3>1 DEF Enters
    <3>3. QED
      BY <1>10, <3>2 DEF Entered
  <2>3. QED
    BY <2>1, <2>2
<1>15. ASSUME NEW k \in 1 .. p + 1
       PROVE  /\ k \in Nat
              /\ c[k].i = "load" => c[k].x \in {"rax", "rcx"}
              /\ c[k].i = "skip" => c[k].y \in Nat /\ Entered(c, k + 1 + c[k].y)
              /\ c[k].i \in {"jump", "call"} => Entered(c, c[k].y)
              /\ c[k].i = "pad" => k + 1 \in DOMAIN c /\ c[k + 1].i = "call"
              /\ c[k].i = "call" => k + 1 \in DOMAIN c /\ c[k + 1].i = "unpad"
              /\ c[k].i \notin {"pad", "call", "leave"} => Entered(c, k + 1)
  <2>1. CASE k = p + 1
    BY <1>12, <2>1
  <2>2. CASE k # p + 1
    <3>1. k \in 1 .. p /\ k + 1 \in 1 .. p + 1
      BY <2>2
    <3>2. /\ Formed(e[k], last)
          /\ e[k].i = "skip" => k + e[k].y <= p /\ Enters(e, k + 1 + e[k].y)
          /\ e[k].i = "pad" => k < p /\ e[k + 1].i = "call"
          /\ e[k].i = "call" => k < p /\ e[k + 1].i = "unpad"
          /\ e[k].i \notin {"pad", "call"} => Enters(e, k + 1)
      BY <1>4, <1>7, <3>1 DEF Sound
    <3>3. /\ c[k].i = e[k].i /\ c[k].x = e[k].x
          /\ c[k].y = IF e[k].i \in {"jump", "call"} THEN LineOffset(upto, e[k].y) ELSE e[k].y
      BY <1>13, <3>1
    <3>4. k < p => k + 1 \in DOMAIN c /\ c[k + 1].i = e[k + 1].i
      <4>1. HAVE k < p
      <4>2. k + 1 \in 1 .. p
        BY <3>1, <4>1
      <4>3. QED
        BY <1>10, <1>13, <3>1, <4>2
    <3>5. c[k].i = "load" => c[k].x \in {"rax", "rcx"}
      BY <3>2, <3>3 DEF Formed
    <3>6. c[k].i = "skip" => c[k].y \in Nat /\ Entered(c, k + 1 + c[k].y)
      <4>1. HAVE c[k].i = "skip"
      <4>2. PICK y \in Nat : y = e[k].y
        BY <3>2, <3>3, <4>1 DEF Formed
      <4>3. c[k].y = y /\ k + y <= p /\ Enters(e, k + 1 + y)
        BY <3>2, <3>3, <4>1, <4>2
      <4>4. k + 1 + y \in 1 .. p + 1
        BY <3>1, <4>3
      <4>5. Entered(c, k + 1 + y)
        BY <1>14, <4>3, <4>4
      <4>6. QED
        BY <4>3, <4>5
    <3>7. c[k].i \in {"jump", "call"} => Entered(c, c[k].y)
      <4>1. HAVE c[k].i \in {"jump", "call"}
      <4>2. e[k].y \in 1 .. last
        BY <3>2, <3>3, <4>1 DEF Formed
      <4>3. c[k].y = LineOffset(upto, e[k].y)
        BY <3>3, <4>1
      <4>4. c[k].y \in 1 .. p + 1 /\ Enters(e, c[k].y)
        BY <1>4, <1>7, <4>2, <4>3
      <4>5. QED
        BY <1>14, <4>4
    <3>8. c[k].i \notin {"pad", "call", "leave"} => Entered(c, k + 1)
      BY <1>14, <3>1, <3>2, <3>3
    <3>9. k \in Nat
      BY <3>1
    <3>10. QED
      BY <3>2, <3>3, <3>4, <3>5, <3>6, <3>7, <3>8, <3>9
  <2>3. QED
    BY <2>1, <2>2
<1>16. Entered(c, 1)
  <2>1. 1 \in 1 .. p + 1 /\ Enters(e, 1)
    BY <1>4 DEF Sound
  <2>2. QED
    BY <1>14, <2>1
<1>17. Well(c)
  BY <1>10, <1>15, <1>16, Zenon DEF Well
<1>18. QED
  BY <1>1, <1>2, <1>17

---------------------------------------------------------------------------
(* The machine                                                             *)

Fields == {"ip", "stack", "phase", "until"}

(* Where the machine s is, and what is on its stack: for each call a pad   *)
(* and on it where the call returns to.  An odd number of things is only   *)
(* there in the middle of a gosub.                                         *)
Inside(s) ==
  /\ s.ip \in DOMAIN code
  /\ s.stack \in Seq(Nat)
  /\ Len(s.stack) % 2 = 1 <=> code[s.ip].i \in Middle
  /\ \A k \in 1 .. Len(s.stack) :
       k % 2 = 0 => s.stack[k] \in DOMAIN code /\ code[s.stack[k]].i = "unpad"
  /\ s.until # -1 => code[s.ip].i = "fn"

Machine(s) == Fields \subseteq DOMAIN s /\ (s.phase = "run" => Inside(s))

CodeInv == Well(code) /\ Machine(n)

(* The machine s is where n is, and does not wait.                         *)
Keeps(s) == Fields \subseteq DOMAIN s /\ s.ip = n.ip /\ s.stack = n.stack /\ s.until = -1

(* An instruction that leaves the stack alone is followed by one that may be entered. *)
LEMMA Onward ==
  ASSUME NEW s, Well(code), Inside(n), Keeps(s), I.i \notin {"pad", "call", "leave", "unpad"}
  PROVE  Machine(On(s))
<1>1. Fields \subseteq DOMAIN On(s) /\ On(s).ip = n.ip + 1 /\ On(s).stack = n.stack /\ On(s).until = -1
  BY DEF On, Keeps, Fields
<1>2. Entered(code, n.ip + 1)
  BY DEF Well, Inside, I
<1>3. ~(Len(n.stack) % 2 = 1)
  BY DEF Inside, I, Middle
<1>4. Inside(On(s))
  <2> DEFINE o == On(s)
  <2> HIDE DEF o
  <2>1. o.ip = n.ip + 1 /\ o.stack = n.stack /\ o.until = -1
    BY <1>1 DEF o
  <2>2. Inside(o)
    BY <1>2, <1>3, <2>1 DEF Inside, Entered
  <2>3. QED
    BY <2>2 DEF o
<1>5. QED
  BY <1>1, <1>4 DEF Machine

(* Nor does it matter what a machine holds that no longer runs.            *)
LEMMA Halts ==
  ASSUME NEW s, Fields \subseteq DOMAIN s, s.phase # "run"
  PROVE  Machine(s)
BY DEF Machine

(* It is enough to say where the next machine is.                          *)
LEMMA Lands ==
  ASSUME CodeInv, NEW s, Machine(s), n' = s, Same
  PROVE  CodeInv'
BY DEF CodeInv, Machine, Inside, Well, Entered, Same

(* Code is entered at its first instruction, with nothing on the stack.    *)
LEMMA InitInside == NativeInit => CodeInv
<1>1. SUFFICES ASSUME NativeInit PROVE CodeInv
  OBVIOUS
<1>2. Well(code)
  <2>1. IsScript(lines) /\ code = Compile(lines)
    BY <1>1, Zenon DEF NativeInit
  <2>2. Well(Compile(lines))
    BY <2>1, CompiledWell
  <2>3. QED
    BY <2>1, <2>2, Zenon
<1>3. n.ip = 1 /\ n.stack = <<>> /\ n.until = -1 /\ Fields \subseteq DOMAIN n
      /\ (n.phase = "run" => code # <<>>)
  <2>1. n = Loaded
    BY <1>1, Zenon DEF NativeInit
  <2>2. QED
    BY <2>1 DEF Loaded, Fields
<1>4. n.phase = "run" => Inside(n)
  <2>1. HAVE n.phase = "run"
  <2>2. Entered(code, 1)
    BY <1>2, <1>3, <2>1 DEF Well
  <2>3. <<>> \in Seq(Nat) /\ Len(<<>>) = 0 /\ 0 % 2 = 0
    OBVIOUS
  <2>4. QED
    BY <1>3, <2>2, <2>3 DEF Inside, Entered
<1>5. QED
  BY <1>2, <1>3, <1>4 DEF CodeInv, Machine

(* Instructions and functions that leave the stack alone and go on behind. *)
LEMMA Straight ==
  ASSUME CodeInv, NEW s, Active, Keeps(s), I.i \notin {"pad", "call", "leave", "unpad"}, n' = On(s), Same
  PROVE  CodeInv'
BY Onward, Lands DEF CodeInv, Machine, Active

(* What is left under the top of the stack.                                *)
LEMMA PoppedIs ==
  ASSUME n.stack \in Seq(Nat), NEW p \in Nat, p = Len(n.stack), p - 1 \in Nat
  PROVE  /\ Popped \in Seq(Nat) /\ Len(Popped) = p - 1
         /\ \A k \in 1 .. p - 1 : Popped[k] = n.stack[k]
<1>1. 1 \in 1 .. p + 1 /\ p - 1 \in 0 .. p
  OBVIOUS
<1>2. QED
  BY <1>1, SubSeqProperties DEF Popped

(* One step per instruction and per function of Engine.cc.                 *)
LEMMA NextInside == CodeInv /\ [Steps]_nvars => CodeInv'
<1>1. SUFFICES ASSUME CodeInv, [Steps]_nvars PROVE CodeInv'
  OBVIOUS
<1>2. CASE UNCHANGED nvars
  BY <1>1, <1>2 DEF CodeInv, Machine, Inside, Well, Entered, nvars
<1>3. Fields \subseteq DOMAIN n /\ (n.phase = "run" => Inside(n)) /\ Well(code)
  BY <1>1 DEF CodeInv, Machine
<1>4. n.phase = "run" /\ n.until = -1 => Keeps(n) /\ Inside(n)
  BY <1>3 DEF Keeps
<1>5. CASE LoadIns
  <2> DEFINE s == Reg(n, I.x, Val(I.y, n.vars))
  <2>1. Active /\ I.i = "load" /\ n' = On(s) /\ Same
    BY <1>5, Zenon DEF LoadIns, Runs
  <2>2. I.x \in {"rax", "rcx"}
    BY <1>3, <1>4, <2>1 DEF Active, Well, Inside, I
  <2>3. s = [n EXCEPT !.rax = Val(I.y, n.vars)] \/ s = [n EXCEPT !.rcx = Val(I.y, n.vars)]
    BY <2>2 DEF Reg
  <2>4. Keeps(s)
    BY <1>4, <2>1, <2>3 DEF Active, Keeps, Fields
  <2> HIDE DEF s
  <2>5. I.i \notin {"pad", "call", "leave", "unpad"}
    BY <2>1
  <2>6. QED
    BY <1>1, <2>1, <2>4, <2>5, Straight
<1>6. CASE StoreIns
  <2> DEFINE s == [n EXCEPT !.vars[I.y] = RegVal(I.x)]
  <2>1. Active /\ I.i \in {"store"} /\ n' = On(s) /\ Same
    BY <1>6, Zenon DEF StoreIns, Runs
  <2>2. Keeps(s)
    BY <1>4, <2>1 DEF Active, Keeps, Fields
  <2> HIDE DEF s
  <2>3. I.i \notin {"pad", "call", "leave", "unpad"}
    BY <2>1
  <2>4. QED
    BY <1>1, <2>1, <2>2, <2>3, Straight
<1>7. CASE ExtendIns
  <2> DEFINE s == [n EXCEPT !.rax = Wrap(I.y, @)]
  <2>1. Active /\ I.i \in {"extend"} /\ n' = On(s) /\ Same
    BY <1>7, Zenon DEF ExtendIns, Runs
  <2>2. Keeps(s)
    BY <1>4, <2>1 DEF Active, Keeps, Fields
  <2> HIDE DEF s
  <2>3. I.i \notin {"pad", "call", "leave", "unpad"}
    BY <2>1
  <2>4. QED
    BY <1>1, <2>1, <2>2, <2>3, Straight
<1>8. CASE ZeroIns
  <2> DEFINE s == [n EXCEPT !.vars[I.x] = 0]
  <2>1. Active /\ I.i \in {"zero"} /\ n' = On(s) /\ Same
    BY <1>8, Zenon DEF ZeroIns, Runs
  <2>2. Keeps(s)
    BY <1>4, <2>1 DEF Active, Keeps, Fields
  <2> HIDE DEF s
  <2>3. I.i \notin {"pad", "call", "leave", "unpad"}
    BY <2>1
  <2>4. QED
    BY <1>1, <2>1, <2>2, <2>3, Straight
<1>9. CASE ArgIns
  <2> DEFINE s == [n EXCEPT !.args[I.x] = Val(I.y, n.vars)]
  <2>1. Active /\ I.i \in {"arg"} /\ n' = On(s) /\ Same
    BY <1>9, Zenon DEF ArgIns, Runs
  <2>2. Keeps(s)
    BY <1>4, <2>1 DEF Active, Keeps, Fields
  <2> HIDE DEF s
  <2>3. I.i \notin {"pad", "call", "leave", "unpad"}
    BY <2>1
  <2>4. QED
    BY <1>1, <2>1, <2>2, <2>3, Straight
<1>10. CASE AddIns
  <2> DEFINE s == [n EXCEPT !.vars[I.x] = Wrap(8, IF I.i = "add" THEN @ + n.rax ELSE @ - n.rax)]
  <2>1. Active /\ I.i \in {"add", "sub"} /\ n' = On(s) /\ Same
    BY <1>10, Zenon DEF AddIns, Runs
  <2>2. Keeps(s)
    BY <1>4, <2>1 DEF Active, Keeps, Fields
  <2> HIDE DEF s
  <2>3. I.i \notin {"pad", "call", "leave", "unpad"}
    BY <2>1
  <2>4. QED
    BY <1>1, <2>1, <2>2, <2>3, Straight
<1>11. CASE MulIns
  <2> DEFINE s == [n EXCEPT !.rax = Wrap(8, @ * Val(I.x, n.vars))]
  <2>1. Active /\ I.i \in {"imul"} /\ n' = On(s) /\ Same
    BY <1>11, Zenon DEF MulIns, Runs
  <2>2. Keeps(s)
    BY <1>4, <2>1 DEF Active, Keeps, Fields
  <2> HIDE DEF s
  <2>3. I.i \notin {"pad", "call", "leave", "unpad"}
    BY <2>1
  <2>4. QED
    BY <1>1, <2>1, <2>2, <2>3, Straight
<1>12. CASE IdivIns
  <2> DEFINE s == [n EXCEPT !.rax = Quotient(@, n.rcx)]
             t == [n EXCEPT !.phase = "trap"]
  <2>1. Active /\ I.i = "idiv" /\ (n' = t \/ n' = On(s)) /\ Same
    BY <1>12 DEF IdivIns, Runs
  <2>2. Keeps(s)
    BY <1>4, <2>1 DEF Active, Keeps, Fields
  <2>3. Machine(t)
    BY <1>3, Halts DEF Fields
  <2> HIDE DEF s, t
  <2>4. I.i \notin {"pad", "call", "leave", "unpad"}
    BY <2>1
  <2>5. QED
    BY <1>1, <2>1, <2>2, <2>3, <2>4, Straight, Lands
<1>13. CASE DivIns
  <2> DEFINE s == [n EXCEPT !.rdx = n.rax % n.rcx]
  <2>1. Active /\ I.i \in {"div"} /\ n' = On(s) /\ Same
    BY <1>13, Zenon DEF DivIns, Runs
  <2>2. Keeps(s)
    BY <1>4, <2>1 DEF Active, Keeps, Fields
  <2> HIDE DEF s
  <2>3. I.i \notin {"pad", "call", "leave", "unpad"}
    BY <2>1
  <2>4. QED
    BY <1>1, <2>1, <2>2, <2>3, Straight
<1>14. CASE RandomIns
  <2> DEFINE s == [n EXCEPT !.rax = RandNext[n.rngState], !.rngState = RandNext[@]]
  <2>1. Active /\ I.i \in {"random"} /\ n' = On(s) /\ Same
    BY <1>14, Zenon DEF RandomIns, Runs
  <2>2. Keeps(s)
    BY <1>4, <2>1 DEF Active, Keeps, Fields
  <2> HIDE DEF s
  <2>3. I.i \notin {"pad", "call", "leave", "unpad"}
    BY <2>1
  <2>4. QED
    BY <1>1, <2>1, <2>2, <2>3, Straight
<1>15. CASE CompareIns
  <2> DEFINE s == [n EXCEPT !.flags = IF I.i = "cmp" THEN <<RegVal(I.x), Val(I.y,
     n.vars)>> ELSE <<RegVal(I.x), 0>>]
  <2>1. Active /\ I.i \in {"cmp", "test"} /\ n' = On(s) /\ Same
    BY <1>15, Zenon DEF CompareIns, Runs
  <2>2. Keeps(s)
    BY <1>4, <2>1 DEF Active, Keeps, Fields
  <2> HIDE DEF s
  <2>3. I.i \notin {"pad", "call", "leave", "unpad"}
    BY <2>1
  <2>4. QED
    BY <1>1, <2>1, <2>2, <2>3, Straight
<1>16. CASE SkipIns
  <2> DEFINE s == [n EXCEPT !.ip = @ + 1 + (IF Taken THEN I.y ELSE 0)]
  <2>1. Active /\ I.i = "skip" /\ n' = s /\ Same /\ Inside(n)
    BY <1>4, <1>16, Zenon DEF SkipIns, Runs, Active
  <2>2. I.y \in Nat /\ Entered(code, n.ip + 1 + I.y) /\ Entered(code, n.ip + 1) /\ n.ip \in Nat
    BY <1>3, <2>1 DEF Well, Inside, I
  <2>3. s.ip = n.ip + 1 + (IF Taken THEN I.y ELSE 0) /\ Fields \subseteq DOMAIN s
        /\ s.stack = n.stack /\ s.until = n.until
    BY <1>3 DEF Fields
  <2> HIDE DEF s
  <2>4. Entered(code, s.ip)
    BY <2>2, <2>3
  <2>5. ~(Len(n.stack) % 2 = 1) /\ s.until = -1
    BY <2>1, <2>3 DEF Inside, Active, I, Middle
  <2>6. Inside(s)
    BY <2>1, <2>3, <2>4, <2>5 DEF Inside, Entered
  <2>7. QED
    BY <1>1, <2>1, <2>3, <2>6, Lands DEF Machine
<1>17. CASE JumpIns
  <2> DEFINE s == [n EXCEPT !.ip = IF Taken THEN I.y ELSE @ + 1]
  <2>1. Active /\ I.i = "jump" /\ n' = s /\ Same /\ Inside(n)
    BY <1>4, <1>17, Zenon DEF JumpIns, Runs, Active
  <2>2. Entered(code, I.y) /\ Entered(code, n.ip + 1)
    BY <1>3, <2>1 DEF Well, Inside, I
  <2>3. s.ip = (IF Taken THEN I.y ELSE n.ip + 1) /\ Fields \subseteq DOMAIN s
        /\ s.stack = n.stack /\ s.until = n.until
    BY <1>3 DEF Fields
  <2> HIDE DEF s
  <2>4. Entered(code, s.ip)
    BY <2>2, <2>3
  <2>5. ~(Len(n.stack) % 2 = 1) /\ s.until = -1
    BY <2>1, <2>3 DEF Inside, Active, I, Middle
  <2>6. Inside(s)
    BY <2>1, <2>3, <2>4, <2>5 DEF Inside, Entered
  <2>7. QED
    BY <1>1, <2>1, <2>3, <2>6, Lands DEF Machine
<1>18. CASE CallIns
  <2> DEFINE s == [n EXCEPT !.stack = Append(@, n.ip + 1), !.ip = I.y]
             t == [n EXCEPT !.phase = "wild"]
  <2>1. Active /\ I.i = "call" /\ (n' = t \/ n' = s) /\ Same /\ Inside(n)
    BY <1>4, <1>18 DEF CallIns, Runs, Active
  <2>2. /\ Entered(code, I.y)
        /\ n.ip + 1 \in DOMAIN code /\ code[n.ip + 1].i = "unpad" /\ n.ip + 1 \in Nat
    BY <1>3, <2>1 DEF Well, Inside, I
  <2>3. Machine(t)
    BY <1>3, Halts DEF Fields
  <2>4. s.ip = I.y /\ Fields \subseteq DOMAIN s /\ s.stack = Append(n.stack, n.ip + 1) /\ s.until = -1
    BY <1>3, <2>1 DEF Fields, Active
  <2> HIDE DEF s, t
  <2>5. PICK p \in Nat : p = Len(n.stack)
    BY <2>1, LenProperties DEF Inside
  <2>6. /\ s.stack \in Seq(Nat) /\ Len(s.stack) = p + 1
        /\ \A k \in 1 .. p : s.stack[k] = n.stack[k]
        /\ s.stack[p + 1] = n.ip + 1
    BY <2>1, <2>2, <2>4, <2>5, AppendProperties DEF Inside
  <2>7. p % 2 = 1 /\ ~((p + 1) % 2 = 1)
    <3>1. p % 2 = 1
      BY <2>1, <2>5, Zenon DEF Inside, I, Middle
    <3>2. QED
      BY <3>1
  <2>8. ASSUME NEW k \in 1 .. p + 1, k % 2 = 0
        PROVE  s.stack[k] \in DOMAIN code /\ code[s.stack[k]].i = "unpad"
    <3>1. CASE k = p + 1
      BY <2>2, <2>6, <3>1
    <3>2. CASE k # p + 1
      <4>1. k \in 1 .. p
        BY <3>2
      <4>2. QED
        BY <2>1, <2>5, <2>6, <2>8, <4>1 DEF Inside
    <3>3. QED
      BY <3>1, <3>2
  <2>9. Inside(s)
    BY <2>2, <2>4, <2>6, <2>7, <2>8, Zenon DEF Inside, Entered
  <2>10. Machine(s)
    BY <2>4, <2>9 DEF Machine
  <2>11. QED
    BY <1>1, <2>1, <2>3, <2>10, Lands
<1>19. CASE PadIns
  <2>1. Active /\ I.i \in {"pad", "unpad"} /\ Same /\ Inside(n)
    BY <1>4, <1>19 DEF PadIns, Runs, Active
  <2>2. PICK p \in Nat : p = Len(n.stack)
    BY <2>1, LenProperties DEF Inside
  <2>3. CASE I.i = "pad"
    <3> DEFINE s == On([n EXCEPT !.stack = Append(@, 0)])
    <3>1. n' = s
      BY <1>19, <2>3 DEF PadIns, Runs
    <3>2. s.ip = n.ip + 1 /\ Fields \subseteq DOMAIN s /\ s.stack = Append(n.stack, 0) /\ s.until = -1
      BY <1>3, <2>1 DEF Fields, Active, On
    <3> HIDE DEF s
    <3>3. n.ip + 1 \in DOMAIN code /\ code[n.ip + 1].i = "call"
      BY <1>3, <2>1, <2>3 DEF Well, Inside, I
    <3>4. p % 2 # 1
      BY <2>1, <2>2, <2>3, Zenon DEF Inside, I, Middle
    <3>5. (p + 1) % 2 = 1
      BY <3>4
    <3>6. /\ s.stack \in Seq(Nat) /\ Len(s.stack) = p + 1
          /\ \A k \in 1 .. p : s.stack[k] = n.stack[k]
      BY <2>1, <2>2, <3>2, AppendProperties DEF Inside
    <3>7. ASSUME NEW k \in 1 .. p + 1, k % 2 = 0
          PROVE  s.stack[k] \in DOMAIN code /\ code[s.stack[k]].i = "unpad"
      <4>1. k \in 1 .. p
        BY <3>5, <3>7
      <4>2. QED
        BY <2>1, <2>2, <3>6, <3>7, <4>1 DEF Inside
    <3>8. Inside(s)
      BY <3>2, <3>3, <3>5, <3>6, <3>7, Zenon DEF Inside, Middle
    <3>9. QED
      BY <1>1, <2>1, <3>1, <3>2, <3>8, Lands DEF Machine
  <2>4. CASE I.i = "unpad"
    <3> DEFINE s == On([n EXCEPT !.stack = Popped])
    <3>1. n' = s
      BY <1>19, <2>4 DEF PadIns, Runs
    <3>2. s.ip = n.ip + 1 /\ Fields \subseteq DOMAIN s /\ s.stack = Popped /\ s.until = -1
      BY <1>3, <2>1 DEF Fields, Active, On
    <3> HIDE DEF s
    <3>3. Entered(code, n.ip + 1)
      BY <1>3, <2>1, <2>4 DEF Well, Inside, I
    <3>4. p % 2 = 1
      BY <2>1, <2>2, <2>4, Zenon DEF Inside, I, Middle
    <3>5. p - 1 \in Nat /\ (p - 1) % 2 # 1
      BY <3>4
    <3>6. /\ s.stack \in Seq(Nat) /\ Len(s.stack) = p - 1
          /\ \A k \in 1 .. p - 1 : s.stack[k] = n.stack[k]
      BY <2>1, <2>2, <3>2, <3>5, PoppedIs DEF Inside
    <3>7. ASSUME NEW k \in 1 .. p - 1, k % 2 = 0
          PROVE  s.stack[k] \in DOMAIN code /\ code[s.stack[k]].i = "unpad"
      <4>1. k \in 1 .. p
        BY <3>5
      <4>2. QED
        BY <2>1, <2>2, <3>6, <3>7, <4>1 DEF Inside
    <3>8. Inside(s)
      BY <3>2, <3>3, <3>5, <3>6, <3>7, Zenon DEF Inside, Entered
    <3>9. QED
      BY <1>1, <2>1, <3>1, <3>2, <3>8, Lands DEF Machine
  <2>5. QED
    BY <2>1, <2>3, <2>4
<1>20. CASE RetIns
  <2> DEFINE s == [n EXCEPT !.ip = Top, !.stack = Popped]
             t == [n EXCEPT !.phase = "wild"]
  <2>1. Active /\ I.i = "ret" /\ Same /\ Inside(n)
        /\ IF n.stack = <<>> THEN n' = t ELSE n' = s
    BY <1>4, <1>20 DEF RetIns, Runs, Active
  <2>2. Machine(t)
    BY <1>3, Halts DEF Fields
  <2>3. s.ip = Top /\ Fields \subseteq DOMAIN s /\ s.stack = Popped /\ s.until = -1
    BY <1>3, <2>1 DEF Fields, Active
  <2> HIDE DEF s, t
  <2>4. CASE n.stack = <<>>
    BY <1>1, <2>1, <2>2, <2>4, Lands
  <2>5. CASE n.stack # <<>>
    <3>1. PICK p \in Nat : p = Len(n.stack)
      BY <2>1, LenProperties DEF Inside
    <3>2. p # 0
      BY <2>1, <2>5, <3>1, EmptySeq DEF Inside
    <3>3. p % 2 # 1
      BY <2>1, <3>1, Zenon DEF Inside, I, Middle
    <3>4. p \in 1 .. p /\ p % 2 = 0 /\ p - 1 \in Nat /\ (p - 1) % 2 = 1
      BY <3>2, <3>3
    <3>5. n.stack[p] \in DOMAIN code /\ code[n.stack[p]].i = "unpad"
      BY <2>1, <3>1, <3>4 DEF Inside
    <3>6. s.ip = n.stack[p]
      BY <2>3, <3>1 DEF Top
    <3>7. /\ s.stack \in Seq(Nat) /\ Len(s.stack) = p - 1
          /\ \A k \in 1 .. p - 1 : s.stack[k] = n.stack[k]
      BY <2>1, <2>3, <3>1, <3>4, PoppedIs DEF Inside
    <3>8. ASSUME NEW k \in 1 .. p - 1, k % 2 = 0
          PROVE  s.stack[k] \in DOMAIN code /\ code[s.stack[k]].i = "unpad"
      <4>1. k \in 1 .. p
        BY <3>4
      <4>2. QED
        BY <2>1, <3>1, <3>7, <3>8, <4>1 DEF Inside
    <3>9. Inside(s)
      BY <2>3, <3>4, <3>5, <3>6, <3>7, <3>8, Zenon DEF Inside, Middle
    <3>10. QED
      BY <1>1, <2>1, <2>3, <2>5, <3>9, Lands DEF Machine
  <2>6. QED
    BY <2>4, <2>5
<1>21. CASE LeaveIns
  <2> DEFINE t == [n EXCEPT !.phase = "over", !.hasArena = FALSE, !.arenaUsed = 0, !.written = <<>>]
  <2>1. n' = t /\ Same
    BY <1>21 DEF LeaveIns, Runs
  <2>2. Machine(t)
    BY <1>3, Halts DEF Fields
  <2> HIDE DEF t
  <2>3. QED
    BY <1>1, <2>1, <2>2, Lands
<1>22. CASE EnKeyDown
  <2> DEFINE s == [Pumped EXCEPT !.rax = IF n.rcx \in Pumped.keysDown THEN 1 ELSE 0]
  <2>1. Active /\ I.i = "fn" /\ n' = On(s) /\ Same
    BY <1>22, Zenon DEF EnKeyDown, Calls, Returns, Pumped
  <2>2. Keeps(s)
    BY <1>4, <2>1 DEF Active, Keeps, Fields, Pumped
  <2> HIDE DEF s
  <2>3. I.i \notin {"pad", "call", "leave", "unpad"}
    BY <2>1
  <2>4. QED
    BY <1>1, <2>1, <2>2, <2>3, Straight
<1>23. CASE EnScreenW
  <2> DEFINE s == [n EXCEPT !.rax = ScreenW]
  <2>1. Active /\ I.i = "fn" /\ n' = On(s) /\ Same
    BY <1>23, Zenon DEF EnScreenW, Calls, Returns
  <2>2. Keeps(s)
    BY <1>4, <2>1 DEF Active, Keeps, Fields
  <2> HIDE DEF s
  <2>3. I.i \notin {"pad", "call", "leave", "unpad"}
    BY <2>1
  <2>4. QED
    BY <1>1, <2>1, <2>2, <2>3, Straight
<1>24. CASE EnScreenH
  <2> DEFINE s == [n EXCEPT !.rax = ScreenH]
  <2>1. Active /\ I.i = "fn" /\ n' = On(s) /\ Same
    BY <1>24, Zenon DEF EnScreenH, Calls, Returns
  <2>2. Keeps(s)
    BY <1>4, <2>1 DEF Active, Keeps, Fields
  <2> HIDE DEF s
  <2>3. I.i \notin {"pad", "call", "leave", "unpad"}
    BY <2>1
  <2>4. QED
    BY <1>1, <2>1, <2>2, <2>3, Straight
<1>25. CASE EnMillis
  <2> DEFINE s == [n EXCEPT !.rax = Wrap(8, n.now)]
  <2>1. Active /\ I.i = "fn" /\ n' = On(s) /\ Same
    BY <1>25, Zenon DEF EnMillis, Calls, Returns
  <2>2. Keeps(s)
    BY <1>4, <2>1 DEF Active, Keeps, Fields
  <2> HIDE DEF s
  <2>3. I.i \notin {"pad", "call", "leave", "unpad"}
    BY <2>1
  <2>4. QED
    BY <1>1, <2>1, <2>2, <2>3, Straight
<1>26. CASE EnWait
  <2> DEFINE s == [n EXCEPT !.until = n.now + n.rcx]
  <2>1. Active /\ I.i = "fn" /\ (n' = On(n) \/ n' = s) /\ Same /\ Inside(n) /\ Keeps(n)
    BY <1>4, <1>26 DEF EnWait, Calls, Active
  <2>2. s.ip = n.ip /\ s.stack = n.stack /\ Fields \subseteq DOMAIN s
    BY <1>3 DEF Fields
  <2> HIDE DEF s
  <2>3. Machine(s)
    BY <2>1, <2>2 DEF Machine, Inside, I
  <2>4. I.i \notin {"pad", "call", "leave", "unpad"}
    BY <2>1
  <2>5. QED
    BY <1>1, <2>1, <2>3, <2>4, Straight, Lands
<1>27. CASE EnWaiting
  <2> DEFINE s == [n EXCEPT !.now = @ + 1, !.keysDown = HeldAt(world.held, n.now + 1)]
             t == [n EXCEPT !.until = -1]
  <2>1. Inside(n) /\ I.i = "fn" /\ (n' = s \/ n' = On(t)) /\ Same
    BY <1>3, <1>27 DEF EnWaiting, Inside, I
  <2>2. s.ip = n.ip /\ s.stack = n.stack /\ s.until = n.until /\ Fields \subseteq DOMAIN s
    BY <1>3 DEF Fields
  <2>3. Keeps(t)
    BY <1>3 DEF Keeps, Fields
  <2> HIDE DEF s, t
  <2>4. Machine(s)
    BY <2>1, <2>2 DEF Machine, Inside
  <2>5. I.i \notin {"pad", "call", "leave", "unpad"}
    BY <2>1
  <2>6. Machine(On(t))
    BY <1>3, <2>1, <2>3, <2>5, Onward
  <2>7. QED
    BY <1>1, <2>1, <2>4, <2>6, Lands
<1>28. CASE EnDraw
  <2>1. PICK f, what : Calls(f, On([n EXCEPT !.canvas = Drawn(@, what)]))
    BY <1>28, Zenon DEF EnDraw
  <2> DEFINE s == [n EXCEPT !.canvas = Drawn(@, what)]
  <2>2. Active /\ I.i = "fn" /\ n' = On(s) /\ Same
    BY <2>1, Zenon DEF Calls
  <2>3. Keeps(s)
    BY <1>4, <2>2 DEF Active, Keeps, Fields
  <2> HIDE DEF s
  <2>4. I.i \notin {"pad", "call", "leave", "unpad"}
    BY <2>2
  <2>5. QED
    BY <1>1, <2>2, <2>3, <2>4, Straight
<1>29. CASE EnFlip
  <2> DEFINE s == [[n EXCEPT !.frames = Append(@, n.canvas), !.canvas = <<>>, !.now = @ + 1,
     !.keysDown = HeldAt(world.held, n.now + 1)] EXCEPT !.rax = FlipResult(n.now + 1)]
  <2>1. Active /\ I.i = "fn" /\ n' = On(s) /\ Same
    BY <1>29, Zenon DEF EnFlip, Calls, Returns
  <2>2. Keeps(s)
    BY <1>4, <2>1 DEF Active, Keeps, Fields
  <2> HIDE DEF s
  <2>3. I.i \notin {"pad", "call", "leave", "unpad"}
    BY <2>1
  <2>4. QED
    BY <1>1, <2>1, <2>2, <2>3, Straight
<1>30. CASE EnAlloc
  <2> DEFINE used == IF n.hasArena THEN n.arenaUsed ELSE 1
             fits == world.memory /\ used + Amount(n.args[1]) <= ArenaSlots
             s == [[n EXCEPT !.hasArena = world.memory,
                             !.arenaUsed = IF fits THEN used + Amount(n.args[1]) ELSE used]
                     EXCEPT !.rax = IF fits THEN used ELSE -1]
  <2>1. Active /\ I.i = "fn" /\ n' = On(s) /\ Same
    BY <1>30, Zenon DEF EnAlloc, Calls, Returns
  <2>2. Keeps(s)
    BY <1>4, <2>1 DEF Active, Keeps, Fields
  <2> HIDE DEF s
  <2>3. I.i \notin {"pad", "call", "leave", "unpad"}
    BY <2>1
  <2>4. QED
    BY <1>1, <2>1, <2>2, <2>3, Straight
<1>31. CASE EnPoke
  <2> DEFINE s == [n EXCEPT !.written = [x \in DOMAIN @ \cup {Slot} |-> IF x = Slot THEN n.args[3] ELSE @[x]]]
  <2>1. Active /\ I.i = "fn" /\ (n' = On(s) \/ n' = On(n)) /\ Same /\ Keeps(n)
    BY <1>4, <1>31 DEF EnPoke, Calls, Active
  <2>2. Keeps(s)
    BY <1>4, <2>1 DEF Active, Keeps, Fields
  <2> HIDE DEF s
  <2>3. I.i \notin {"pad", "call", "leave", "unpad"}
    BY <2>1
  <2>4. QED
    BY <1>1, <2>1, <2>2, <2>3, Straight
<1>32. CASE EnPeek
  <2> DEFINE s == [n EXCEPT !.rax = IF ~InArena THEN 0
                                    ELSE IF Slot \in DOMAIN n.written THEN n.written[Slot] ELSE world.residue]
  <2>1. Active /\ I.i = "fn" /\ n' = On(s) /\ Same
    BY <1>32, Zenon DEF EnPeek, Calls, Returns
  <2>2. Keeps(s)
    BY <1>4, <2>1 DEF Active, Keeps, Fields
  <2> HIDE DEF s
  <2>3. I.i \notin {"pad", "call", "leave", "unpad"}
    BY <2>1
  <2>4. QED
    BY <1>1, <2>1, <2>2, <2>3, Straight
<1>33. QED
  BY <1>1, <1>2, <1>5, <1>6, <1>7, <1>8, <1>9, <1>10, <1>11, <1>12, <1>13, <1>14, <1>15, <1>16,
     <1>17, <1>18, <1>19, <1>20, <1>21, <1>22, <1>23, <1>24, <1>25, <1>26, <1>27, <1>28, <1>29,
     <1>30, <1>31, <1>32, Zenon DEF Steps

(* Compiled code runs inside of itself, however its jumps, calls and       *)
(* returns are nested and wherever they lead, and calls the functions of   *)
(* Engine.cc with its stack aligned (compiler.cc: the fixups of Compile,   *)
(* Rel8 and Patch8, the pad around a gosub).                               *)
THEOREM AlwaysInside == NativeSpec => []RunsInside
<1>1. CodeInv => RunsInside
  <2>1. SUFFICES ASSUME CodeInv,
     n.phase = "run" PROVE n.ip \in DOMAIN code /\ (code[n.ip].i = "fn" => Len(n.stack) % 2 = 0)
    BY DEF RunsInside
  <2>2. Inside(n)
    BY <2>1 DEF CodeInv, Machine
  <2>3. n.ip \in DOMAIN code /\ Len(n.stack) \in Nat /\ (code[n.ip].i = "fn" => Len(n.stack) % 2 # 1)
    BY <2>2, LenProperties DEF Inside, Middle
  <2>4. \A k \in Nat : k % 2 # 1 => k % 2 = 0
    OBVIOUS
  <2>5. QED
    BY <2>3, <2>4
<1>2. QED
  BY <1>1, InitInside, NextInside, PTL DEF NativeSpec

=============================================================================

------------------------------- MODULE Native -------------------------------
(***************************************************************************)
(* The compiler and the code it makes: Compiler::Compile                   *)
(* (src/Compiler/compiler.cc, Emit.hh), the functions compiled code calls  *)
(* (src/Engine/Engine.cc), and Loader::RunImage around them.               *)
(*                                                                         *)
(* An instruction of the model is one machine instruction, or the few that *)
(* stand for one step of the source; addresses count instructions.         *)
(***************************************************************************)
EXTENDS ScriptLang

CONSTANTS
  CodeCap,   \* room in the image: ENEXE_MAX_BYTES without header and strings
  StackMax   \* calls the stack of the kernel has room for

VARIABLES
  lines, world,
  code,      \* what Compile made of lines; empty if it gave up
  n          \* the machine that runs it

nvars == <<lines, world, code, n>>

---------------------------------------------------------------------------
(* Compile *)

Ins(i, x, y) == [i |-> i, x |-> x, y |-> y]

(* LoadReg, the store behind an operation, SignExtendRax *)
Load(reg, arg) == <<Ins("load", reg, arg)>>
Store(reg, x) == <<Ins("store", reg, x)>>
Extend(w) == IF w = 8 THEN <<>> ELSE <<Ins("extend", "rax", w)>>
StoreArg(i, arg) == <<Ins("arg", i, arg)>>
CallFn(f) == <<Ins("fn", f, 0)>>

(* Faulty variant of NegatedCode: the opposites of < and > leave out =. *)
NegatedCodeStrict(cmp) ==
  CASE cmp = "=" -> "!" [] cmp = "!" -> "="
    [] cmp = "<" -> ">" [] cmp = ">" -> "<" [] cmp = "l" -> ">" [] cmp = "g" -> "<"

(* cc ^= 1 *)
NegatedCode(cmp) ==
  CASE cmp = "=" -> "!" [] cmp = "!" -> "="
    [] cmp = "<" -> "g" [] cmp = ">" -> "l" [] cmp = "l" -> ">" [] cmp = "g" -> "<"

ConditionCode(line) == IF line.neg THEN NegatedCode(line.cmp) ELSE line.cmp

(* OP_DIV by a constant needs no test.  Jumps inside a line count the      *)
(* instructions they skip (Rel8 and Patch8).                               *)
DivCode(line) ==
  LET x == line.a.value
      divide == Load("rax", line.a) \o <<Ins("idiv", 0, 0)>> \o Store("rax", x)
  IN  IF line.b.isVar
        THEN Load("rcx", line.b) \o <<Ins("test", "rcx", 0), Ins("skip", "=", 4)>>
             \o divide \o <<Ins("skip", "always", 1), Ins("zero", x, 0)>>
        ELSE IF line.b.value = 0 THEN <<Ins("zero", x, 0)>> ELSE Load("rcx", line.b) \o divide

RndCode(line) ==
  LET bounded == <<Ins("div", 0, 0)>> \o Store("rdx", line.a.value)
  IN  <<Ins("random", 0, 0)>> \o Load("rcx", line.b) \o <<Ins("test", "rcx", 0), Ins("skip", "l", 3)>>
      \o bounded \o <<Ins("skip", "always", 1), Ins("zero", line.a.value, 0)>>

(* Faulty variant of GosubCode: the stack is kept aligned on the way back only. *)
GosubCodeUnpadded(line) == <<Ins("call", "always", line.target), Ins("unpad", 0, 0)>>

(* sub rsp, 8; call; add rsp, 8 *)
GosubCode(line) == <<Ins("pad", 0, 0), Ins("call", "always", line.target), Ins("unpad", 0, 0)>>

(* The instructions of a line.  Jumps to lines are fixed up later; behind  *)
(* the last line is the epilogue.                                          *)
CodeOf(line, end) ==
  CASE line.op \in {"set", "set_byte", "set_short", "set_int", "set_long"} ->
         Load("rax", line.b) \o Extend(WidthOf(line)) \o Store("rax", line.a.value)
    [] line.op = "trunc" ->
         Load("rax", line.a) \o Extend(WidthOf(line)) \o Store("rax", line.a.value)
    [] line.op \in {"add", "sub"} -> Load("rax", line.b) \o <<Ins(line.op, line.a.value, 0)>>
    [] line.op = "mul" ->
         Load("rax", line.b) \o <<Ins("imul", line.a, 0)>> \o Store("rax", line.a.value)
    [] line.op = "div" -> DivCode(line)
    [] line.op = "rnd" -> RndCode(line)
    [] line.op = "goto" -> <<Ins("jump", "always", line.target)>>
    [] line.op = "if" ->
         Load("rax", line.a) \o <<Ins("cmp", "rax", line.b), Ins("jump", ConditionCode(line), line.target)>>
    [] line.op = "key" -> Load("rcx", line.b) \o CallFn("keydown") \o Store("rax", line.a.value)
    [] line.op = "screen" -> CallFn("screenw") \o Store("rax", line.a.value)
                             \o CallFn("screenh") \o Store("rax", line.b.value)
    [] line.op = "millis" -> CallFn("millis") \o Store("rax", line.a.value)
    [] line.op = "wait" -> Load("rcx", line.a) \o CallFn("wait")
    [] line.op = "end" -> <<Ins("jump", "always", end)>>
    [] line.op = "rect" ->
         StoreArg(1, line.a) \o StoreArg(2, line.b) \o StoreArg(3, line.c)
           \o (StoreArg(4, line.d) \o StoreArg(5, line.e) \o CallFn("rect"))
    [] line.op \in {"text", "num"} ->
         StoreArg(1, line.a) \o StoreArg(2, line.b) \o StoreArg(3, line.c) \o CallFn(line.op)
    [] line.op = "flip" -> CallFn("flip") \o <<Ins("test", "rax", 0), Ins("jump", "=", end)>>
    [] line.op = "alloc" -> StoreArg(1, line.b) \o CallFn("alloc") \o Store("rax", line.a.value)
    [] line.op = "poke" ->
         StoreArg(1, line.a) \o StoreArg(2, line.b) \o StoreArg(3, line.c) \o CallFn("poke")
    [] line.op = "peek" ->
         StoreArg(1, line.a) \o StoreArg(2, line.b) \o CallFn("peek") \o Store("rax", line.c.value)
    [] line.op = "gosub" -> GosubCode(line)
    [] line.op = "return" -> <<Ins("ret", 0, 0)>>

(* What is emitted up to the end of each line. *)
Emitted(ls) ==
  LET upto[i \in 0 .. Len(ls)] ==
        IF i = 0 THEN <<>> ELSE upto[i - 1] \o CodeOf(ls[i], Len(ls) + 1)
  IN  upto

(* lineOffset: where the code of a line begins. *)
LineOffset(upto, i) == Len(upto[i - 1]) + 1

(* Patch32 of a fixup. *)
Patched(ins, upto) ==
  IF ins.i \in {"jump", "call"} THEN [ins EXCEPT !.y = LineOffset(upto, @)] ELSE ins

(* Compile: nothing if there is no room. *)
Compile(ls) ==
  LET upto == Emitted(ls)
      emitted == Append(upto[Len(ls)], Ins("leave", 0, 0))
  IN  IF Len(emitted) > CodeCap THEN <<>>
      ELSE [k \in 1 .. Len(emitted) |-> Patched(emitted[k], upto)]

---------------------------------------------------------------------------
(* The machine *)

(* RunImage: EnCtx is cleared, the keyboard and the screen too.  phase is  *)
(* "run", "over", "trap", or "wild" (behind a return without a call or an  *)
(* overrun stack: whatever the memory there holds is executed).            *)
Loaded ==
  [ip |-> 1, rax |-> 0, rcx |-> 0, rdx |-> 0, flags |-> <<0, 0>>, stack |-> <<>>, args |-> <<0, 0, 0, 0, 0>>,
   vars |-> [x \in Var |-> 0], rngState |-> world.seed, hasArena |-> FALSE, arenaUsed |-> 0,
   written |-> <<>>, keysDown |-> {}, until |-> -1, now |-> 0,
   phase |-> IF code = <<>> THEN "refused" ELSE "run", canvas |-> <<>>, frames |-> <<>>]

Same == UNCHANGED <<lines, world, code>>

Active == n.phase = "run" /\ n.until = -1
I == code[n.ip]

(* An instruction of this kind is executed, with s as its outcome. *)
Runs(kinds, s) == Active /\ I.i \in kinds /\ n' = s /\ Same

On(s) == [s EXCEPT !.ip = @ + 1]
Reg(s, reg, v) == CASE reg = "rax" -> [s EXCEPT !.rax = v] [] reg = "rcx" -> [s EXCEPT !.rcx = v]
RegVal(reg) == CASE reg = "rax" -> n.rax [] reg = "rcx" -> n.rcx [] reg = "rdx" -> n.rdx

LoadIns == Runs({"load"}, On(Reg(n, I.x, Val(I.y, n.vars))))
StoreIns == Runs({"store"}, On([n EXCEPT !.vars[I.y] = RegVal(I.x)]))
ExtendIns == Runs({"extend"}, On([n EXCEPT !.rax = Wrap(I.y, @)]))
ZeroIns == Runs({"zero"}, On([n EXCEPT !.vars[I.x] = 0]))
ArgIns == Runs({"arg"}, On([n EXCEPT !.args[I.x] = Val(I.y, n.vars)]))

(* add and sub to memory; imul with memory *)
AddIns ==
  Runs({"add", "sub"},
       On([n EXCEPT !.vars[I.x] = Wrap(8, IF I.i = "add" THEN @ + n.rax ELSE @ - n.rax)]))
MulIns == Runs({"imul"}, On([n EXCEPT !.rax = Wrap(8, @ * Val(I.x, n.vars))]))

(* cqo and idiv, with the processor's divide error; unsigned div *)
IdivIns ==
  Runs({"idiv"}, IF n.rcx = 0 \/ Traps(n.rax, n.rcx) THEN [n EXCEPT !.phase = "trap"]
                 ELSE On([n EXCEPT !.rax = Quotient(@, n.rcx)]))
DivIns == Runs({"div"}, On([n EXCEPT !.rdx = n.rax % n.rcx]))

(* The generator steps whether the limit is positive or not. *)
RandomIns ==
  Runs({"random"}, On([n EXCEPT !.rax = RandNext[n.rngState], !.rngState = RandNext[@]]))

(* The flags of cmp and test are kept as the pair that was compared. *)
CompareIns ==
  Runs({"cmp", "test"}, On([n EXCEPT !.flags = IF I.i = "cmp" THEN <<RegVal(I.x), Val(I.y, n.vars)>>
                                                             ELSE <<RegVal(I.x), 0>>]))
Taken == I.x = "always" \/ Compare(I.x, n.flags[1], n.flags[2])

SkipIns == Runs({"skip"}, [n EXCEPT !.ip = @ + 1 + (IF Taken THEN I.y ELSE 0)])
JumpIns == Runs({"jump"}, [n EXCEPT !.ip = IF Taken THEN I.y ELSE @ + 1])

(* A return takes what is on top of the stack, and runs wild if nothing is *)
(* there but what the prologue left.                                       *)
Top == n.stack[Len(n.stack)]
Popped == SubSeq(n.stack, 1, Len(n.stack) - 1)

CallIns ==
  Runs({"call"}, IF Len(n.stack) >= 2 * StackMax THEN [n EXCEPT !.phase = "wild"]
                 ELSE [n EXCEPT !.stack = Append(@, n.ip + 1), !.ip = I.y])
PadIns ==
  Runs({"pad", "unpad"}, On([n EXCEPT !.stack = IF I.i = "pad" THEN Append(@, 0) ELSE Popped]))
RetIns ==
  Runs({"ret"}, IF n.stack = <<>> THEN [n EXCEPT !.phase = "wild"]
                ELSE [n EXCEPT !.ip = Top, !.stack = Popped])

(* The epilogue, and the end of RunImage: the arena is given back. *)
LeaveIns ==
  Runs({"leave"}, [n EXCEPT !.phase = "over", !.hasArena = FALSE, !.arenaUsed = 0, !.written = <<>>])

---------------------------------------------------------------------------
(* The functions of Engine.cc *)

Calls(f, s) == Active /\ I.i = "fn" /\ I.x = f /\ n' = s /\ Same
Returns(s, v) == On([s EXCEPT !.rax = v])

(* PumpState *)
Pumped == [n EXCEPT !.keysDown = HeldAt(world.held, n.now)]

EnKeyDown == Calls("keydown", Returns(Pumped, IF n.rcx \in Pumped.keysDown THEN 1 ELSE 0))
EnScreenW == Calls("screenw", Returns(n, ScreenW))
EnScreenH == Calls("screenh", Returns(n, ScreenH))
EnMillis == Calls("millis", Returns(n, Wrap(8, n.now)))

(* EnWait: not for numbers below one; otherwise the loop pumps the keyboard. *)
EnWait ==
  Calls("wait", IF n.rcx <= 0 THEN On(n) ELSE [n EXCEPT !.until = n.now + n.rcx])
EnWaiting ==
  /\ n.phase = "run" /\ n.until # -1
  /\ n' = IF n.now < n.until
            THEN [n EXCEPT !.now = @ + 1, !.keysDown = HeldAt(world.held, n.now + 1)]
            ELSE On([n EXCEPT !.until = -1])
  /\ Same

(* EnRect, EnText, EnNum *)
EnDraw ==
  \/ Calls("rect", On([n EXCEPT !.canvas = Drawn(@, <<"rect">> \o n.args)]))
  \/ \E f \in {"text", "num"} :
       Calls(f, On([n EXCEPT !.canvas = Drawn(@, <<f, n.args[1], n.args[2], n.args[3]>>)]))

FlipResult(now) == IF KEY_ESC \in HeldAt(world.held, now) THEN 0 ELSE 1

(* EnFlip: present, clear, pump.  ctx.fuel is set and never read. *)
EnFlip ==
  Calls("flip", Returns([n EXCEPT !.frames = Append(@, n.canvas), !.canvas = <<>>,
                                  !.now = @ + 1, !.keysDown = HeldAt(world.held, n.now + 1)],
                        FlipResult(n.now + 1)))

(* EnAlloc, EnPoke, EnPeek *)
Amount(v) == IF v < 1 THEN 1 ELSE v
EnAlloc ==
  Calls("alloc",
    LET used == IF n.hasArena THEN n.arenaUsed ELSE 1
        fits == world.memory /\ used + Amount(n.args[1]) <= ArenaSlots
    IN  Returns([n EXCEPT !.hasArena = world.memory,
                          !.arenaUsed = IF fits THEN used + Amount(n.args[1]) ELSE used],
                IF fits THEN used ELSE -1))

Slot == Wrap(8, n.args[1] + n.args[2])

InArena == n.hasArena /\ Slot >= 1 /\ Slot < n.arenaUsed

EnPoke ==
  Calls("poke", IF InArena
    THEN On([n EXCEPT !.written = [s \in DOMAIN @ \cup {Slot} |-> IF s = Slot THEN n.args[3] ELSE @[s]]])
    ELSE On(n))
EnPeek ==
  Calls("peek", Returns(n, IF ~InArena THEN 0
                           ELSE IF Slot \in DOMAIN n.written THEN n.written[Slot] ELSE world.residue))

Steps ==
  \/ LoadIns \/ StoreIns \/ ExtendIns \/ ZeroIns \/ ArgIns \/ AddIns \/ MulIns \/ IdivIns \/ DivIns
  \/ RandomIns \/ CompareIns \/ SkipIns \/ JumpIns \/ CallIns \/ PadIns \/ RetIns \/ LeaveIns
  \/ EnKeyDown \/ EnScreenW \/ EnScreenH \/ EnMillis \/ EnWait \/ EnWaiting \/ EnDraw \/ EnFlip
  \/ EnAlloc \/ EnPoke \/ EnPeek

(* RunImage of what Compile made of a script. *)
NativeInit ==
  /\ IsScript(lines) /\ world \in Worlds
  /\ code = Compile(lines)
  /\ n = Loaded

NativeSpec == NativeInit /\ [][Steps]_nvars

---------------------------------------------------------------------------
(* Code runs inside of itself: every jump, call and return goes to an      *)
(* instruction, and the functions of the kernel are called with the stack  *)
(* aligned, in whatever sub.                                               *)
RunsInside ==
  n.phase = "run" =>
    /\ n.ip \in DOMAIN code
    /\ code[n.ip].i = "fn" => Len(n.stack) % 2 = 0

Over == n.phase \in {"over", "trap", "wild", "refused"}

=============================================================================

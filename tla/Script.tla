------------------------------- MODULE Script -------------------------------
(***************************************************************************)
(* The interpreter of EnScript: Script::Step and Script::RunLoop           *)
(* (src/Script/Script.cc).                                                 *)
(*                                                                         *)
(* A call of Step executes lines until the script flips, ends, or has used *)
(* its fuel; RunLoop presents what was drawn, looks at the keyboard, and   *)
(* calls Step again unless the script has ended or ESC is down.            *)
(***************************************************************************)
EXTENDS ScriptLang

CONSTANTS
  Fuel,        \* lines a call of Step executes: 200000
  CallDepth    \* SCRIPT_CALL_DEPTH

ASSUME ScriptAssumption == {Fuel, CallDepth} \subseteq Nat \ {0}

VARIABLES
  lines,       \* Script::lines, as Load left them
  world,       \* keys held over time, whether frames can be had, seed
  m            \* the interpreter

svars == <<lines, world, m>>

(* The fields of m are those of Script, and                                *)
(*   loop      where RunLoop is: "pump", "step", "present", "last" (the     *)
(*             call of Step returned false), "over", "trap"                *)
(*   written   the slots of the arena written so far, with their values    *)
(*   until     the end of a wait under way, or -1                          *)
(*   canvas    what was drawn on Graphics::back since it was cleared       *)
(*   frames    history: what was presented                                 *)
(*   blocks    history: the slots every alloc was given                    *)
(*   strays    history: what happened that compiled code does otherwise    *)

(* ResetState, the variables zeroed as they are found, the start of        *)
(* RunLoop.                                                                *)
Fresh ==
  [pc |-> 1, vars |-> [x \in Var |-> 0], callStack |-> <<>>, executed |-> 0,
   rngState |-> world.seed, hasArena |-> FALSE, arenaUsed |-> 0, written |-> <<>>,
   keysDown |-> {}, until |-> -1, now |-> 0, loop |-> "pump",
   canvas |-> <<>>, frames |-> <<>>, blocks |-> {}, strays |-> {}]

Same == UNCHANGED <<lines, world>>

(* RunLoop ends: FreeArena. *)
Ended(s) == [s EXCEPT !.loop = "over", !.hasArena = FALSE, !.arenaUsed = 0, !.written = <<>>]

(* PumpState, and the test for ESC in front of Step. *)
Pump ==
  /\ m.loop = "pump"
  /\ LET pumped == [m EXCEPT !.keysDown = HeldAt(world.held, m.now), !.executed = 0]
     IN  m' = IF KEY_ESC \notin pumped.keysDown THEN [pumped EXCEPT !.loop = "step"]
              ELSE IF m.frames = <<>> THEN Ended([pumped EXCEPT !.strays = {"start"}])
              ELSE Ended(pumped)
  /\ Same

(* PresentFrame, back.clear, and out of the loop if there is no more. *)
Present ==
  /\ m.loop \in {"present", "last"}
  /\ LET shown == [m EXCEPT !.frames = Append(@, m.canvas), !.canvas = <<>>, !.now = @ + 1]
     IN  m' = IF m.loop = "last" THEN Ended(shown) ELSE [shown EXCEPT !.loop = "pump"]
  /\ Same

---------------------------------------------------------------------------
(* Script::Step, line by line *)

(* Faulty variant of Fueled: there is no limit. *)
FueledAlways == TRUE

(* ++executed > 200000 *)
Fueled == m.executed < Fuel

Running == m.loop = "step" /\ m.until = -1 /\ m.pc <= Len(lines)

L == lines[m.pc]
A == Val(L.a, m.vars)
B == Val(L.b, m.vars)
C == Val(L.c, m.vars)
D == Val(L.d, m.vars)
E == Val(L.e, m.vars)

(* A line of one of these operations is executed, with s as its outcome. *)
Executes(ops, s) ==
  /\ Running /\ Fueled /\ L.op \in ops
  /\ m' = [s EXCEPT !.executed = IF @ < Fuel THEN @ + 1 ELSE @]
  /\ Same

On(s) == [s EXCEPT !.pc = @ + 1]
Assigned(x, v) == On([m EXCEPT !.vars[x] = v])

(* The fuel is used up: the frame is presented as it is. *)
OutOfFuel ==
  /\ Running /\ ~Fueled
  /\ m' = [m EXCEPT !.loop = "present", !.strays = @ \cup {"fuel"}]
  /\ Same

RunOff ==
  /\ m.loop = "step" /\ m.until = -1 /\ m.pc > Len(lines)
  /\ m' = [m EXCEPT !.loop = "last"]
  /\ Same

(* OP_SET, OP_SET_BYTE, OP_SET_SHORT, OP_SET_INT, OP_SET_LONG; OP_TRUNC *)
Set ==
  Executes({"set", "set_byte", "set_short", "set_int", "set_long"},
           Assigned(L.a.value, Wrap(WidthOf(L), B)))

Trunc == Executes({"trunc"}, Assigned(L.a.value, Wrap(WidthOf(L), A)))

(* OP_ADD, OP_SUB, OP_MUL *)
Add == Executes({"add"}, Assigned(L.a.value, Wrap(8, A + B)))
Sub == Executes({"sub"}, Assigned(L.a.value, Wrap(8, A - B)))
Mul == Executes({"mul"}, Assigned(L.a.value, Wrap(8, A * B)))

Divided(x, d) == IF d # 0 THEN Quotient(x, d) ELSE 0

(* OP_DIV; of the least number by -1: the divide error of the processor. *)
Div ==
  Executes({"div"}, IF Traps(A, B) THEN [m EXCEPT !.loop = "trap"]
                                   ELSE Assigned(L.a.value, Divided(A, B)))

Rolled(max) == RandNext[m.rngState] % max

(* OP_RND: the generator only steps if the limit is positive. *)
Rnd ==
  Executes({"rnd"}, IF B > 0 THEN [Assigned(L.a.value, Rolled(B)) EXCEPT !.rngState = RandNext[@]]
                             ELSE [Assigned(L.a.value, 0) EXCEPT !.strays = @ \cup {"rnd"}])

Goto == Executes({"goto"}, [m EXCEPT !.pc = L.target])

(* Faulty variant of ReturnAddress: the call itself. *)
ReturnAddressOfCall == m.pc

ReturnAddress == m.pc + 1

(* Faulty variant of RoomToCall: one call too many. *)
RoomToCallOneMore == Len(m.callStack) <= CallDepth

RoomToCall == Len(m.callStack) < CallDepth

(* OP_GOSUB, unless the calls are too deep; OP_RETURN, unless there is no call. *)
Gosub ==
  Executes({"gosub"},
           IF RoomToCall
             THEN [m EXCEPT !.callStack = Append(@, ReturnAddress), !.pc = L.target]
             ELSE [m EXCEPT !.loop = "last", !.strays = @ \cup {"depth"}])

Return ==
  Executes({"return"},
           IF m.callStack # <<>>
             THEN [m EXCEPT !.pc = m.callStack[Len(m.callStack)],
                            !.callStack = SubSeq(@, 1, Len(@) - 1)]
             ELSE [m EXCEPT !.loop = "last", !.strays = @ \cup {"return"}])

End == Executes({"end"}, [m EXCEPT !.loop = "last"])

Hit == Compare(L.cmp, A, B) # L.neg

If == Executes({"if"}, IF Hit THEN [m EXCEPT !.pc = L.target] ELSE On(m))

(* OP_RECT, OP_TEXT, OP_NUM: into the back buffer. *)
Draw ==
  \/ Executes({"rect"}, On([m EXCEPT !.canvas = Drawn(@, <<L.op, A, B, C, D, E>>)]))
  \/ Executes({"text", "num"}, On([m EXCEPT !.canvas = Drawn(@, <<L.op, A, B, C>>)]))

(* OP_KEY: as of the last PumpState.  The key is a constant. *)
Key == Executes({"key"}, Assigned(L.a.value, IF L.b.value \in m.keysDown THEN 1 ELSE 0))

(* OP_SCREEN, OP_MILLIS *)
Screen ==
  Executes({"screen"},
           On([m EXCEPT !.vars = [@ EXCEPT ![L.a.value] = ScreenW, ![L.b.value] = ScreenH]]))

Millis == Executes({"millis"}, Assigned(L.a.value, Wrap(8, m.now)))

(* OP_WAIT: the end of the wait is computed without a sign, so a negative  *)
(* number waits until the clock would wrap, or not at all.                 *)
Wait ==
  Executes({"wait"}, [m EXCEPT !.until = Unsigned(m.now + A),
                               !.strays = IF A < 0 THEN @ \cup {"wait"} ELSE @])

(* A millisecond in the loop of OP_WAIT, which pumps the keyboard. *)
Waiting ==
  /\ m.loop = "step" /\ m.now < m.until
  /\ m' = [m EXCEPT !.now = @ + 1, !.keysDown = HeldAt(world.held, m.now + 1)]
  /\ Same

Waited ==
  /\ m.loop = "step" /\ m.until # -1 /\ m.now >= m.until
  /\ m' = On([m EXCEPT !.until = -1])
  /\ Same

Flip == Executes({"flip"}, On([m EXCEPT !.loop = "present"]))

---------------------------------------------------------------------------
(* The arena: the slots below arenaUsed are handed out, from 1. *)

Amount(v) == IF v < 1 THEN 1 ELSE v

(* Faulty variant of Fits: up to and including the slot behind the arena. *)
FitsAndOneMore(used, v) == used + Amount(v) <= ArenaSlots + 1

Fits(used, v) == used + Amount(v) <= ArenaSlots

(* OP_ALLOC: the first one takes the frames; while there are none to be    *)
(* had, the next one tries again.                                          *)
Alloc ==
  Executes({"alloc"},
    LET used == IF m.hasArena THEN m.arenaUsed ELSE 1
        fits == world.memory /\ Fits(used, B)
        base == IF fits THEN used ELSE -1
    IN  [Assigned(L.a.value, base) EXCEPT
           !.hasArena = world.memory,
           !.arenaUsed = IF fits THEN used + Amount(B) ELSE used,
           !.blocks = IF fits THEN @ \cup {used .. used + Amount(B) - 1} ELSE @])

InArena(slot) == m.hasArena /\ slot >= 1 /\ slot < m.arenaUsed

Slot == Wrap(8, A + B)

(* OP_POKE, OP_PEEK.  A slot not written yet holds what the frames held    *)
(* before.                                                                 *)
Poke ==
  Executes({"poke"},
    IF InArena(Slot)
      THEN On([m EXCEPT !.written = [s \in DOMAIN @ \cup {Slot} |-> IF s = Slot THEN C ELSE @[s]]])
      ELSE On(m))

Stale == InArena(Slot) /\ Slot \notin DOMAIN m.written

Peek ==
  Executes({"peek"},
    IF Stale THEN [Assigned(L.c.value, world.residue) EXCEPT !.strays = @ \cup {"stale"}]
             ELSE Assigned(L.c.value, IF InArena(Slot) THEN m.written[Slot] ELSE 0))

Steps ==
  \/ Pump \/ Present \/ OutOfFuel \/ RunOff
  \/ Set \/ Trunc \/ Add \/ Sub \/ Mul \/ Div \/ Rnd
  \/ Goto \/ Gosub \/ Return \/ End \/ If
  \/ Draw \/ Key \/ Screen \/ Millis \/ Wait \/ Waiting \/ Waited \/ Flip
  \/ Alloc \/ Poke \/ Peek

Over == m.loop \in {"over", "trap"}

=============================================================================

----------------------------- MODULE PlayProofs -----------------------------
(***************************************************************************)
(* Proofs about Play, for every set of scripts and worlds, every size of   *)
(* arena, call stack and fuel.                                             *)
(*                                                                         *)
(* ArenaSound is not inductive: that a new block is apart from the ones    *)
(* before needs that they fill the arena up to arenaUsed (ArenaShape).     *)
(* TypeOK gives that a line's operands are numbers and its jumps stay      *)
(* inside the script, which ReturnsBehindCalls needs of the program        *)
(* counter.                                                                *)
(***************************************************************************)
EXTENDS Play, SequenceTheorems, TLAPS

Fields == {"pc", "vars", "callStack", "executed", "rngState", "hasArena", "arenaUsed", "written",
           "keysDown", "until", "now", "loop", "canvas", "frames", "blocks", "strays"}

(* The blocks fill the arena up to arenaUsed; after RunLoop has ended the  *)
(* arena is gone.                                                          *)
ArenaShape ==
  IF m.hasArena
    THEN /\ world.memory
         /\ m.arenaUsed >= 1
         /\ m.arenaUsed = 1 \/ m.arenaUsed <= ArenaSlots
         /\ UNION m.blocks = 1 .. m.arenaUsed - 1
    ELSE DOMAIN m.written = {} /\ (Over \/ m.blocks = {})

(* A wait is under way at a line. *)
WaitInside == m.until # -1 => m.pc \in DOMAIN lines

IInv ==
  /\ DOMAIN m = Fields
  /\ TypeOK
  /\ ArenaShape
  /\ ArenaSound
  /\ ReturnsBehindCalls
  /\ WaitInside

---------------------------------------------------------------------------
(* Numbers *)

LEMMA WrapIsInt ==
  ASSUME NEW w \in {1, 2, 4, 8}, NEW v \in Int
  PROVE  Wrap(w, v) \in Int
<1>1. Half[w] \in Nat \ {0}
  BY LangAssumption
<1>2. (v + Half[w]) % (2 * Half[w]) \in Int
  BY <1>1
<1>3. QED
  BY <1>1, <1>2 DEF Wrap

LEMMA QuotientIsInt ==
  ASSUME NEW x \in Int, NEW d \in Int, d # 0
  PROVE  Quotient(x, d) \in Int
<1> DEFINE abs(k) == IF k < 0 THEN -k ELSE k
<1>1. abs(x) \in Int /\ abs(d) \in Int /\ abs(d) > 0
  OBVIOUS
<1> HIDE DEF abs
<1>2. abs(x) \div abs(d) \in Int
  BY <1>1
<1>3. QED
  BY <1>2 DEF Quotient, abs

LEMMA LongsAreInts == Long \subseteq Int /\ MinLong \in Int
  BY LangAssumption DEF Long, MinLong

LEMMA ValIsInt ==
  ASSUME NEW arg \in Arg, NEW vs \in [Var -> Int]
  PROVE  Val(arg, vs) \in Int
  BY LongsAreInts DEF Val, Arg

---------------------------------------------------------------------------
(* Lines *)

(* What is known of a line that is executed. *)
LEMMA LineSound ==
  ASSUME IInv, Running
  PROVE  /\ WellFormed(L, Len(lines))
         /\ m.pc \in DOMAIN lines
         /\ m.pc + 1 \in 1 .. Len(lines) + 1
  BY DEF IInv, TypeOK, IsScript, Running, L

LEMMA WidthSound ==
  ASSUME NEW line, NEW k, WellFormed(line, k)
  PROVE  WidthOf(line) \in {1, 2, 4, 8}
<1>1. CASE line.op = "trunc"
  <2>1. PICK w \in {1, 2, 4} : line.b = Con(w)
    BY <1>1 DEF WellFormed
  <2>2. line.b.value = w
    BY <2>1 DEF Con
  <2>3. QED
    BY <1>1, <2>2 DEF WidthOf
<1>2. CASE line.op # "trunc"
  BY <1>2 DEF WidthOf
<1>3. QED
  BY <1>1, <1>2

(* A, B and C are numbers, B unless the line asks for a key. *)
LEMMA OperandsSound ==
  ASSUME IInv, Running
  PROVE  /\ A \in Int
         /\ L.op # "key" => B \in Int
         /\ C \in Int
  BY LineSound, ValIsInt DEF IInv, TypeOK, WellFormed, A, B, C

(* The variable a line assigns to. *)
LEMMA ResultSound ==
  ASSUME IInv, Running
  PROVE  /\ L.op \in Assigns => L.a.value \in Var
         /\ L.op = "screen" => L.b.value \in Var
         /\ L.op = "peek" => L.c.value \in Var
  BY LineSound DEF WellFormed, Arg

---------------------------------------------------------------------------
(* Steps that leave the call stack and the arena alone *)

Undisturbed(s) ==
  /\ DOMAIN s = Fields
  /\ s.callStack = m.callStack /\ s.hasArena = m.hasArena /\ s.arenaUsed = m.arenaUsed
  /\ s.written = m.written /\ s.blocks = m.blocks

LEMMA QuietKeeps ==
  ASSUME IInv, UNCHANGED <<lines, world>>, ~Over,
         Undisturbed(m'),
         m'.pc \in 1 .. Len(lines) + 1,
         m'.vars \in [Var -> Int],
         m'.rngState \in DOMAIN RandNext,
         m'.now \in Nat,
         m'.until # -1 => m'.pc \in DOMAIN lines
  PROVE  IInv'
<1>1. TypeOK'
  BY DEF IInv, TypeOK, Undisturbed
<1>2. ArenaShape'
  BY DEF IInv, ArenaShape, Undisturbed
<1>3. ArenaSound'
  BY DEF IInv, ArenaSound, Undisturbed
<1>4. ReturnsBehindCalls'
  BY DEF IInv, ReturnsBehindCalls, Undisturbed
<1>5. WaitInside'
  BY DEF WaitInside
<1>6. QED
  BY <1>1, <1>2, <1>3, <1>4, <1>5 DEF IInv, Undisturbed

(* The end of RunLoop, whatever else the step did before it. *)
LEMMA EndedKeeps ==
  ASSUME IInv, UNCHANGED <<lines, world>>, ~Over,
         NEW s, DOMAIN s = Fields, s.now \in Nat,
         \A f \in Fields \ {"keysDown", "executed", "strays", "frames", "canvas", "now"} : s[f] = m[f],
         m' = Ended(s)
  PROVE  IInv'
<1>1. /\ DOMAIN m' = Fields /\ m'.pc = m.pc /\ m'.vars = m.vars /\ m'.rngState = m.rngState
      /\ m'.callStack = m.callStack /\ m'.until = m.until /\ m'.hasArena = FALSE /\ m'.arenaUsed = 0
      /\ m'.written = <<>> /\ m'.blocks = m.blocks /\ m'.loop = "over"
      /\ m'.now \in Nat
  <2>1. /\ s.pc = m.pc /\ s.vars = m.vars /\ s.rngState = m.rngState /\ s.callStack = m.callStack
        /\ s.until = m.until /\ s.blocks = m.blocks
    BY DEF Fields
  <2>2. DOMAIN m' = Fields
    BY DEF Ended
  <2>3. /\ m'.pc = s.pc /\ m'.vars = s.vars /\ m'.rngState = s.rngState /\ m'.callStack = s.callStack
        /\ m'.until = s.until /\ m'.blocks = s.blocks /\ m'.now = s.now
    BY DEF Ended, Fields
  <2>4. m'.hasArena = FALSE /\ m'.arenaUsed = 0 /\ m'.written = <<>> /\ m'.loop = "over"
    BY DEF Ended, Fields
  <2>5. QED
    BY <2>1, <2>2, <2>3, <2>4, Zenon
<1>2. DOMAIN m'.written = {}
  BY <1>1
<1>3. TypeOK'
  <2>1. m'.hasArena = FALSE
    BY <1>1
  <2>2. m'.hasArena \in BOOLEAN
    BY <2>1, Zenon
  <2>3. QED
    BY <1>1, <2>2 DEF IInv, TypeOK
<1>4. ArenaShape'
  BY <1>1, <1>2 DEF IInv, ArenaShape, Over
<1>5. ArenaSound'
  BY <1>1, <1>2 DEF IInv, ArenaSound
<1>6. ReturnsBehindCalls'
  BY <1>1 DEF IInv, ReturnsBehindCalls
<1>7. WaitInside'
  BY <1>1 DEF IInv, WaitInside
<1>8. QED
  BY <1>1, <1>3, <1>4, <1>5, <1>6, <1>7 DEF IInv

LEMMA PumpKeeps ==
  ASSUME IInv, Pump
  PROVE  IInv'
<1> DEFINE pumped == [m EXCEPT !.keysDown = HeldAt(world.held, m.now), !.executed = 0]
           strayed == [pumped EXCEPT !.strays = {"start"}]
<1>1. ~Over /\ UNCHANGED <<lines, world>>
  BY DEF Pump, Over, Same
<1>2. m' = [pumped EXCEPT !.loop = "step"] \/ m' = Ended(strayed) \/ m' = Ended(pumped)
  BY DEF Pump
<1>3. DOMAIN m = Fields /\ m.now \in Nat
  BY DEF IInv, TypeOK
<1>4. CASE m' = [pumped EXCEPT !.loop = "step"]
  BY <1>1, <1>3, <1>4, QuietKeeps DEF IInv, TypeOK, WaitInside, Fields, Undisturbed
<1>5. CASE m' = Ended(strayed)
  <2>1. /\ DOMAIN strayed = Fields /\ strayed.now \in Nat
        /\ \A f \in Fields \ {"keysDown", "executed", "strays", "frames", "canvas", "now"} :
             strayed[f] = m[f]
    BY <1>3 DEF Fields
  <2>2. QED
    BY <1>1, <1>5, <2>1, EndedKeeps
<1>6. CASE m' = Ended(pumped)
  <2>1. /\ DOMAIN pumped = Fields /\ pumped.now \in Nat
        /\ \A f \in Fields \ {"keysDown", "executed", "strays", "frames", "canvas", "now"} :
             pumped[f] = m[f]
    BY <1>3 DEF Fields
  <2>2. QED
    BY <1>1, <1>6, <2>1, EndedKeeps
<1>7. QED
  BY <1>2, <1>4, <1>5, <1>6

LEMMA PresentKeeps ==
  ASSUME IInv, Present
  PROVE  IInv'
<1> DEFINE shown == [m EXCEPT !.frames = Append(@, m.canvas), !.canvas = <<>>, !.now = @ + 1]
<1>1. ~Over /\ UNCHANGED <<lines, world>>
  BY DEF Present, Over, Same
<1>2. m' = Ended(shown) \/ m' = [shown EXCEPT !.loop = "pump"]
  BY DEF Present
<1>3. DOMAIN m = Fields /\ m.now \in Nat
  BY DEF IInv, TypeOK
<1>4. CASE m' = Ended(shown)
  <2>1. /\ DOMAIN shown = Fields /\ shown.now = m.now + 1
        /\ \A f \in Fields \ {"keysDown", "executed", "strays", "frames", "canvas", "now"} :
             shown[f] = m[f]
    BY <1>3 DEF Fields
  <2>2. shown.now \in Nat
    BY <1>3, <2>1
  <2>3. QED
    BY <1>1, <1>4, <2>1, <2>2, EndedKeeps
<1>5. CASE m' = [shown EXCEPT !.loop = "pump"]
  BY <1>1, <1>3, <1>5, QuietKeeps DEF IInv, TypeOK, WaitInside, Fields, Undisturbed
<1>6. QED
  BY <1>2, <1>4, <1>5

(* Lines that end the call of Step, jump, draw or wait. *)
LEMMA JumpKeeps ==
  ASSUME IInv, OutOfFuel \/ RunOff \/ End \/ Goto \/ If \/ Draw \/ Wait \/ Waiting \/ Waited \/ Flip
  PROVE  IInv'
<1>1. DOMAIN m = Fields /\ ~Over /\ UNCHANGED <<lines, world>>
  BY DEF IInv, OutOfFuel, RunOff, End, Goto, If, Draw, Wait, Waiting, Waited, Flip, Executes,
         Running, Over, Same
<1>2. /\ m.pc \in 1 .. Len(lines) + 1 /\ m.vars \in [Var -> Int] /\ m.rngState \in DOMAIN RandNext
      /\ (m.until # -1 => m.pc \in DOMAIN lines) /\ m.now \in Nat
  BY DEF IInv, TypeOK, WaitInside
<1>3. Undisturbed(m') /\ m'.pc \in 1 .. Len(lines) + 1 /\ m'.vars = m.vars /\ m'.rngState = m.rngState
      /\ (m'.until # -1 => m'.pc \in DOMAIN lines) /\ m'.now \in Nat
  <2>1. CASE OutOfFuel \/ RunOff
    BY <1>1, <1>2, <2>1 DEF OutOfFuel, RunOff, Running, Fields, Undisturbed
  <2>2. CASE Waiting
    BY <1>1, <1>2, <2>2 DEF Waiting, Fields, Undisturbed
  <2>3. CASE Waited
    <3>1. m.pc + 1 \in 1 .. Len(lines) + 1
      BY <1>2, <2>3 DEF Waited, IInv, TypeOK, IsScript
    <3>2. QED
      BY <1>1, <1>2, <2>3, <3>1 DEF Waited, On, Fields, Undisturbed
  <2>4. CASE End
    BY <1>1, <1>2, <2>4 DEF End, Executes, Running, Fields, Undisturbed
  <2>5. CASE Goto
    <3>1. Running /\ L.op \in Jumps
      BY <2>5 DEF Goto, Executes, Jumps
    <3>2. L.target \in 1 .. Len(lines) + 1
      BY <3>1, LineSound DEF WellFormed
    <3>3. QED
      BY <1>1, <1>2, <2>5, <3>2 DEF Goto, Executes, Running, Fields, Undisturbed
  <2>6. CASE If
    <3>1. Running /\ L.op \in Jumps
      BY <2>6 DEF If, Executes, Jumps
    <3>2. L.target \in 1 .. Len(lines) + 1 /\ m.pc + 1 \in 1 .. Len(lines) + 1
      BY <3>1, LineSound DEF WellFormed
    <3>3. QED
      BY <1>1, <1>2, <2>6, <3>2 DEF If, Executes, Running, On, Fields, Undisturbed
  <2>7. CASE Draw
    <3>1. m.pc + 1 \in 1 .. Len(lines) + 1
      BY <2>7, LineSound DEF Draw, Executes
    <3>2. QED
      BY <1>1, <1>2, <2>7, <3>1 DEF Draw, Executes, Running, On, Fields, Undisturbed
  <2>8. CASE Wait
    <3>1. m.pc \in DOMAIN lines
      BY <2>8, LineSound DEF Wait, Executes
    <3>2. QED
      BY <1>1, <1>2, <2>8, <3>1 DEF Wait, Executes, Fields, Undisturbed
  <2>9. CASE Flip
    <3>1. m.pc + 1 \in 1 .. Len(lines) + 1
      BY <2>9, LineSound DEF Flip, Executes
    <3>2. QED
      BY <1>1, <1>2, <2>9, <3>1 DEF Flip, Executes, Running, On, Fields, Undisturbed
  <2>10. QED
    BY <2>1, <2>2, <2>3, <2>4, <2>5, <2>6, <2>7, <2>8, <2>9
<1>4. QED
  BY <1>1, <1>2, <1>3, QuietKeeps

(* Lines that assign to variables. *)
LEMMA AssignedKeeps ==
  ASSUME IInv, Running, UNCHANGED <<lines, world>>,
         NEW x \in Var, NEW v \in Int, NEW e,
         m' = [Assigned(x, v) EXCEPT !.executed = e]
  PROVE  IInv'
<1>1. DOMAIN m = Fields /\ m.vars \in [Var -> Int] /\ m.rngState \in DOMAIN RandNext /\ ~Over
      /\ m.until = -1 /\ m.now \in Nat
  BY DEF IInv, TypeOK, Running, Over
<1>2. m.pc + 1 \in 1 .. Len(lines) + 1
  BY LineSound
<1>3. /\ Undisturbed(m') /\ m'.pc = m.pc + 1 /\ m'.vars = [m.vars EXCEPT ![x] = v]
      /\ m'.rngState = m.rngState /\ m'.until = -1 /\ m'.now = m.now
  BY <1>1 DEF Assigned, On, Undisturbed, Fields
<1>4. m'.vars \in [Var -> Int]
  BY <1>1, <1>3
<1>5. QED
  BY <1>1, <1>2, <1>3, <1>4, QuietKeeps

LEMMA ArithKeeps ==
  ASSUME IInv, Set \/ Trunc \/ Add \/ Sub \/ Mul \/ Key \/ Millis
  PROVE  IInv'
<1>1. Running /\ UNCHANGED <<lines, world>> /\ L.op \in Assigns
  BY DEF Set, Trunc, Add, Sub, Mul, Key, Millis, Executes, Same, Assigns
<1>2. L.a.value \in Var /\ A \in Int /\ (L.op # "key" => B \in Int) /\ WidthOf(L) \in {1, 2, 4, 8}
  BY <1>1, ResultSound, OperandsSound, LineSound, WidthSound
<1> DEFINE e == IF m.executed < Fuel THEN m.executed + 1 ELSE m.executed
<1>3. \E v \in Int : m' = [Assigned(L.a.value, v) EXCEPT !.executed = e]
  <2>1. DOMAIN m = Fields /\ m.now \in Int
    BY DEF IInv, TypeOK
  <2>2. \A v : Assigned(L.a.value, v).executed = m.executed
    BY <2>1 DEF Assigned, On, Fields
  <2>3. CASE Set
    BY <1>2, <2>2, <2>3, WrapIsInt DEF Set, Executes
  <2>4. CASE Trunc
    BY <1>2, <2>2, <2>4, WrapIsInt DEF Trunc, Executes
  <2>5. CASE Add
    BY <1>2, <2>2, <2>5, WrapIsInt DEF Add, Executes
  <2>6. CASE Sub
    BY <1>2, <2>2, <2>6, WrapIsInt DEF Sub, Executes
  <2>7. CASE Mul
    BY <1>2, <2>2, <2>7, WrapIsInt DEF Mul, Executes
  <2>8. CASE Key
    BY <2>2, <2>8 DEF Key, Executes
  <2>9. CASE Millis
    BY <2>1, <2>2, <2>9, WrapIsInt DEF Millis, Executes
  <2>10. QED
    BY <2>3, <2>4, <2>5, <2>6, <2>7, <2>8, <2>9
<1>4. QED
  BY <1>1, <1>2, <1>3, AssignedKeeps

LEMMA DivKeeps ==
  ASSUME IInv, Div
  PROVE  IInv'
<1>1. Running /\ UNCHANGED <<lines, world>> /\ L.op = "div"
  BY DEF Div, Executes, Same
<1>2. L.a.value \in Var /\ A \in Int /\ B \in Int
  BY <1>1, ResultSound, OperandsSound DEF Assigns
<1>3. Divided(A, B) \in Int
  BY <1>2, QuotientIsInt DEF Divided
<1>4. DOMAIN m = Fields
  BY DEF IInv
<1> DEFINE e == IF m.executed < Fuel THEN m.executed + 1 ELSE m.executed
<1>5. CASE Traps(A, B)
  <2>1. m' = [[m EXCEPT !.loop = "trap"] EXCEPT !.executed = e]
    BY <1>4, <1>5 DEF Div, Executes, Fields
  <2>2. Undisturbed(m') /\ m'.pc = m.pc /\ m'.vars = m.vars /\ m'.rngState = m.rngState
        /\ m'.until = m.until /\ m'.now = m.now
    BY <1>4, <2>1 DEF Undisturbed, Fields
  <2>3. ~Over /\ m.until = -1
    BY <1>1 DEF Running, Over
  <2>4. QED
    BY <1>1, <2>2, <2>3, QuietKeeps DEF IInv, TypeOK
<1>6. CASE ~Traps(A, B)
  <2>1. Assigned(L.a.value, Divided(A, B)).executed = m.executed
    BY <1>4 DEF Assigned, On, Fields
  <2>2. m' = [Assigned(L.a.value, Divided(A, B)) EXCEPT !.executed = e]
    BY <1>6, <2>1 DEF Div, Executes
  <2>3. QED
    BY <1>1, <1>2, <1>3, <2>2, AssignedKeeps
<1>7. QED
  BY <1>5, <1>6

LEMMA ScreenKeeps ==
  ASSUME IInv, Screen
  PROVE  IInv'
<1>1. Running /\ UNCHANGED <<lines, world>> /\ L.op = "screen" /\ ~Over /\ m.until = -1
  BY DEF Screen, Executes, Same, Running, Over
<1>2. L.a.value \in Var /\ L.b.value \in Var
  BY <1>1, ResultSound DEF Assigns
<1>3. DOMAIN m = Fields /\ m.pc + 1 \in 1 .. Len(lines) + 1
  BY <1>1, LineSound DEF IInv
<1> DEFINE vs == [[m.vars EXCEPT ![L.a.value] = ScreenW] EXCEPT ![L.b.value] = ScreenH]
<1>4. Undisturbed(m') /\ m'.pc = m.pc + 1 /\ m'.vars = vs /\ m'.rngState = m.rngState
      /\ m'.until = m.until /\ m'.now = m.now
  BY <1>3 DEF Screen, Executes, On, Undisturbed, Fields
<1>5. vs \in [Var -> Int]
  <2>1. m.vars \in [Var -> Int] /\ ScreenW \in Int /\ ScreenH \in Int
    BY DEF IInv, TypeOK, ScreenW, ScreenH
  <2>2. [m.vars EXCEPT ![L.a.value] = ScreenW] \in [Var -> Int]
    BY <2>1
  <2>3. QED
    BY <2>1, <2>2
<1>6. QED
  BY <1>1, <1>3, <1>4, <1>5, QuietKeeps DEF IInv, TypeOK

(* The generator steps to a state it can be in. *)
LEMMA RndKeeps ==
  ASSUME IInv, Rnd
  PROVE  IInv'
<1>1. Running /\ UNCHANGED <<lines, world>> /\ L.op = "rnd" /\ ~Over /\ m.until = -1
  BY DEF Rnd, Executes, Same, Running, Over
<1>2. L.a.value \in Var /\ B \in Int
  BY <1>1, ResultSound, OperandsSound DEF Assigns
<1>3. DOMAIN m = Fields /\ m.pc + 1 \in 1 .. Len(lines) + 1
  BY <1>1, LineSound DEF IInv
<1>4. RandNext[m.rngState] \in DOMAIN RandNext /\ RandNext[m.rngState] \in Int
  BY LangAssumption DEF IInv, TypeOK
<1> DEFINE v == IF B > 0 THEN Rolled(B) ELSE 0
<1>5. v \in Int
  BY <1>2, <1>4 DEF Rolled
<1>6. Undisturbed(m') /\ m'.pc = m.pc + 1 /\ m'.vars = [m.vars EXCEPT ![L.a.value] = v]
      /\ m'.until = m.until /\ m'.now = m.now /\ m'.rngState \in {m.rngState, RandNext[m.rngState]}
  <2>1. CASE B > 0
    BY <1>3, <2>1 DEF Rnd, Executes, Assigned, On, Undisturbed, Fields
  <2>2. CASE ~(B > 0)
    BY <1>3, <2>2 DEF Rnd, Executes, Assigned, On, Undisturbed, Fields
  <2>3. QED
    BY <2>1, <2>2
<1>7. m'.vars \in [Var -> Int]
  BY <1>2, <1>5, <1>6 DEF IInv, TypeOK
<1>8. QED
  BY <1>1, <1>3, <1>4, <1>6, <1>7, QuietKeeps DEF IInv, TypeOK

---------------------------------------------------------------------------
(* Calls *)

(* Steps that change the call stack only. *)
LEMMA StackKeeps ==
  ASSUME IInv, Running, UNCHANGED <<lines, world>>, DOMAIN m' = Fields,
         m'.pc \in 1 .. Len(lines) + 1,
         m'.callStack \in Seq(1 .. Len(lines) + 1), Len(m'.callStack) <= CallDepth,
         \A i \in DOMAIN m'.callStack :
           m'.callStack[i] - 1 \in DOMAIN lines /\ lines[m'.callStack[i] - 1].op = "gosub",
         \A f \in Fields \ {"pc", "callStack", "executed", "loop", "strays"} : m'[f] = m[f]
  PROVE  IInv'
<1>1. /\ m'.vars = m.vars /\ m'.rngState = m.rngState /\ m'.hasArena = m.hasArena /\ m'.now = m.now
      /\ m'.arenaUsed = m.arenaUsed /\ m'.written = m.written /\ m'.blocks = m.blocks
      /\ m'.until = m.until
  BY DEF Fields
<1>2. TypeOK'
  BY <1>1 DEF IInv, TypeOK
<1>3. ArenaShape'
  BY <1>1 DEF IInv, ArenaShape, Running, Over
<1>4. ArenaSound'
  BY <1>1 DEF IInv, ArenaSound
<1>5. ReturnsBehindCalls'
  BY DEF ReturnsBehindCalls
<1>6. WaitInside'
  BY <1>1 DEF WaitInside, Running
<1>7. QED
  BY <1>2, <1>3, <1>4, <1>5, <1>6 DEF IInv

LEMMA GosubKeeps ==
  ASSUME IInv, Gosub
  PROVE  IInv'
<1>1. Running /\ UNCHANGED <<lines, world>> /\ L.op = "gosub"
  BY DEF Gosub, Executes, Same
<1>2. L.target \in 1 .. Len(lines) + 1 /\ m.pc \in DOMAIN lines /\ m.pc + 1 \in 1 .. Len(lines) + 1
      /\ m.pc \in 1 .. Len(lines) + 1
  BY <1>1, LineSound DEF WellFormed, Jumps, IInv, TypeOK
<1>3. DOMAIN m = Fields /\ m.callStack \in Seq(1 .. Len(lines) + 1) /\ Len(m.callStack) <= CallDepth
  BY DEF IInv, TypeOK
<1>4. CASE RoomToCall
  <2> DEFINE st == Append(m.callStack, m.pc + 1)
  <2>1. m'.callStack = st /\ m'.pc = L.target /\ DOMAIN m' = Fields
        /\ \A f \in Fields \ {"pc", "callStack", "executed", "loop", "strays"} : m'[f] = m[f]
    BY <1>3, <1>4 DEF Gosub, Executes, ReturnAddress, Fields
  <2>2. st \in Seq(1 .. Len(lines) + 1) /\ Len(st) = Len(m.callStack) + 1
        /\ \A i \in 1 .. Len(m.callStack) : st[i] = m.callStack[i]
        /\ st[Len(m.callStack) + 1] = m.pc + 1
    BY <1>2, <1>3, AppendProperties
  <2>3. Len(st) <= CallDepth
    BY <1>3, <1>4, <2>2, ScriptAssumption, LenProperties DEF RoomToCall
  <2>4. ASSUME NEW i \in DOMAIN st
        PROVE  st[i] - 1 \in DOMAIN lines /\ lines[st[i] - 1].op = "gosub"
    <3>1. i \in 1 .. Len(m.callStack) \/ i = Len(m.callStack) + 1
      <4>1. DOMAIN st = 1 .. Len(st)
        BY <2>2, LenProperties
      <4>2. Len(m.callStack) \in Nat
        BY <1>3, LenProperties
      <4> HIDE DEF st
      <4>3. QED
        BY <2>2, <4>1, <4>2
    <3>2. CASE i \in 1 .. Len(m.callStack)
      BY <1>3, <2>2, <3>2, LenProperties DEF IInv, ReturnsBehindCalls
    <3>3. CASE i = Len(m.callStack) + 1
      <4>1. st[i] - 1 = m.pc
        BY <1>2, <2>2, <3>3
      <4>2. QED
        BY <1>1, <1>2, <4>1 DEF L
    <3>4. QED
      BY <3>1, <3>2, <3>3
  <2>5. QED
    BY <1>1, <1>2, <2>1, <2>2, <2>3, <2>4, StackKeeps
<1>5. CASE ~RoomToCall
  <2>1. m'.callStack = m.callStack /\ m'.pc = m.pc /\ DOMAIN m' = Fields
        /\ \A f \in Fields \ {"pc", "callStack", "executed", "loop", "strays"} : m'[f] = m[f]
    BY <1>3, <1>5 DEF Gosub, Executes, Fields
  <2>2. QED
    BY <1>1, <1>2, <1>3, <2>1, StackKeeps DEF IInv, ReturnsBehindCalls
<1>6. QED
  BY <1>4, <1>5

LEMMA ReturnKeeps ==
  ASSUME IInv, Return
  PROVE  IInv'
<1>1. Running /\ UNCHANGED <<lines, world>>
  BY DEF Return, Executes, Same
<1>2. DOMAIN m = Fields /\ m.callStack \in Seq(1 .. Len(lines) + 1) /\ Len(m.callStack) <= CallDepth
      /\ m.pc \in 1 .. Len(lines) + 1
  BY DEF IInv, TypeOK
<1>3. CASE m.callStack # <<>>
  <2> DEFINE k == Len(m.callStack)
             st == SubSeq(m.callStack, 1, k - 1)
  <2>1. m'.callStack = st /\ m'.pc = m.callStack[k] /\ DOMAIN m' = Fields
        /\ \A f \in Fields \ {"pc", "callStack", "executed", "loop", "strays"} : m'[f] = m[f]
    BY <1>2, <1>3 DEF Return, Executes, Fields
  <2>2. k \in Nat /\ k > 0 /\ CallDepth \in Nat
    BY <1>2, <1>3, EmptySeq, LenProperties, ScriptAssumption
  <2>3. m.callStack[k] \in 1 .. Len(lines) + 1
    BY <1>2, <2>2, ElementOfSeq
  <2>4. st \in Seq(1 .. Len(lines) + 1) /\ Len(st) = k - 1
        /\ \A i \in 1 .. k - 1 : st[i] = m.callStack[i]
    BY <1>2, <2>2
  <2>5. ASSUME NEW i \in DOMAIN st
        PROVE  st[i] - 1 \in DOMAIN lines /\ lines[st[i] - 1].op = "gosub"
    <3>1. i \in 1 .. k - 1 /\ i \in DOMAIN m.callStack
      BY <1>2, <2>2, <2>4, LenProperties
    <3>2. QED
      BY <2>4, <3>1 DEF IInv, ReturnsBehindCalls
  <2>6. Len(st) <= CallDepth
    BY <1>2, <2>2, <2>4
  <2>7. QED
    BY <1>1, <2>1, <2>3, <2>4, <2>5, <2>6, StackKeeps
<1>4. CASE m.callStack = <<>>
  <2>1. m'.callStack = m.callStack /\ m'.pc = m.pc /\ DOMAIN m' = Fields
        /\ \A f \in Fields \ {"pc", "callStack", "executed", "loop", "strays"} : m'[f] = m[f]
    BY <1>2, <1>4 DEF Return, Executes, Fields
  <2>2. QED
    BY <1>1, <1>2, <2>1, StackKeeps DEF IInv, ReturnsBehindCalls
<1>5. QED
  BY <1>3, <1>4

---------------------------------------------------------------------------
(* The arena *)

(* Steps that change the arena and a variable. *)
LEMMA RestKeeps ==
  ASSUME IInv, Running, UNCHANGED <<lines, world>>, DOMAIN m' = Fields,
         m'.pc = m.pc + 1, m'.vars \in [Var -> Int],
         m'.hasArena \in BOOLEAN, m'.arenaUsed \in Nat, ArenaShape', ArenaSound',
         \A s \in DOMAIN m'.written : m'.written[s] \in Int,
         \A f \in {"rngState", "callStack", "until", "now"} : m'[f] = m[f]
  PROVE  IInv'
<1>1. m'.rngState = m.rngState /\ m'.callStack = m.callStack /\ m'.until = -1 /\ m'.now = m.now
  BY DEF Running
<1>2. m'.pc \in 1 .. Len(lines) + 1
  BY LineSound
<1>3. TypeOK'
  BY <1>1, <1>2 DEF IInv, TypeOK
<1>4. ReturnsBehindCalls'
  BY <1>1 DEF IInv, ReturnsBehindCalls
<1>5. WaitInside'
  BY <1>1 DEF WaitInside
<1>6. QED
  BY <1>3, <1>4, <1>5 DEF IInv

LEMMA AllocKeeps ==
  ASSUME IInv, Alloc
  PROVE  IInv'
<1> DEFINE used == IF m.hasArena THEN m.arenaUsed ELSE 1
           fits == world.memory /\ Fits(used, B)
           base == IF fits THEN used ELSE -1
           new == used .. used + Amount(B) - 1
<1>1. Running /\ UNCHANGED <<lines, world>> /\ L.op = "alloc" /\ ~Over
  BY DEF Alloc, Executes, Same, Running, Over
<1>2. L.a.value \in Var /\ B \in Int /\ Amount(B) \in Nat /\ Amount(B) >= 1
  BY <1>1, ResultSound, OperandsSound DEF Assigns, Amount
<1>3. DOMAIN m = Fields /\ m.arenaUsed \in Nat /\ m.vars \in [Var -> Int] /\ ArenaSlots \in Nat
  BY LangAssumption DEF IInv, TypeOK
<1>4. used \in Nat /\ used >= 1
  BY <1>3 DEF IInv, ArenaShape
<1>5. /\ m'.pc = m.pc + 1 /\ m'.vars = [m.vars EXCEPT ![L.a.value] = base] /\ DOMAIN m' = Fields
      /\ \A f \in {"rngState", "callStack", "until", "now", "written"} : m'[f] = m[f]
      /\ m'.hasArena = world.memory
      /\ m'.arenaUsed = IF fits THEN used + Amount(B) ELSE used
      /\ m'.blocks = IF fits THEN m.blocks \cup {new} ELSE m.blocks
  BY <1>3 DEF Alloc, Executes, Assigned, On, Fields
<1>6. m'.vars \in [Var -> Int]
  <2>1. base \in Int
    BY <1>4
  <2>2. QED
    BY <1>2, <1>3, <1>5, <2>1
<1>7. m'.written = m.written
  BY <1>5
<1>8. m'.arenaUsed \in Nat /\ \A s \in DOMAIN m'.written : m'.written[s] \in Int
  BY <1>2, <1>4, <1>5, <1>7 DEF IInv, TypeOK
<1>9. m'.hasArena \in BOOLEAN
  <2>1. world.memory \in BOOLEAN
    BY DEF IInv, TypeOK, Worlds
  <2>2. QED
    BY <1>5, <2>1, Zenon
<1>10. CASE ~world.memory
  <2>1. ~m.hasArena
    BY <1>10 DEF IInv, ArenaShape
  <2>2. m'.blocks = m.blocks /\ ~m'.hasArena
    BY <1>5, <1>10
  <2>3. ArenaShape'
    BY <1>1, <1>7, <2>1, <2>2 DEF IInv, ArenaShape
  <2>4. ArenaSound'
    BY <1>7, <2>2 DEF IInv, ArenaSound
  <2>5. QED
    BY <1>1, <1>5, <1>6, <1>8, <1>9, <2>3, <2>4, RestKeeps
<1>11. CASE world.memory
  <2>1. m'.hasArena
    BY <1>5, <1>11
  <2>2. /\ UNION m.blocks = 1 .. used - 1
        /\ used = 1 \/ used <= ArenaSlots
    <3>1. CASE m.hasArena
      BY <3>1 DEF IInv, ArenaShape
    <3>2. CASE ~m.hasArena
      BY <1>1, <3>2 DEF IInv, ArenaShape
    <3>3. QED
      BY <3>1, <3>2
  <2>3. DOMAIN m.written \subseteq UNION m.blocks
    BY DEF IInv, ArenaSound
  <2>4. CASE ~fits
    <3>1. m'.blocks = m.blocks /\ m'.arenaUsed = used
      BY <1>5, <2>4
    <3>2. ArenaShape'
      <4>1. UNCHANGED world
        BY <1>1
      <4> HIDE DEF used
      <4>2. QED
        BY <1>4, <1>11, <2>1, <2>2, <3>1, <4>1 DEF ArenaShape
    <3>3. ArenaSound'
      BY <1>7, <3>1 DEF IInv, ArenaSound
    <3>4. QED
      BY <1>1, <1>5, <1>6, <1>8, <1>9, <3>2, <3>3, RestKeeps
  <2>5. CASE fits
    <3>1. m'.blocks = m.blocks \cup {new} /\ m'.arenaUsed = used + Amount(B)
          /\ used + Amount(B) <= ArenaSlots
      BY <1>5, <2>5 DEF Fits
    <3>2. UNCHANGED world
      BY <1>1
    <3> DEFINE top == used + Amount(B)
    <3>3. new = used .. top - 1 /\ top \in Nat /\ top > used
      BY <1>2, <1>4
    <3> HIDE DEF used, new, top
    <3> DEFINE before == UNION m.blocks
    <3>4. before = 1 .. used - 1 /\ UNION m'.blocks = before \cup new
      BY <2>2, <3>1
    <3> HIDE DEF before
    <3>5. UNION m'.blocks = 1 .. top - 1
      <4>1. before \cup new = 1 .. top - 1
        BY <1>4, <3>3, <3>4
      <4>2. QED
        BY <3>4, <4>1
    <3>6. ArenaShape'
      BY <1>4, <1>11, <2>1, <3>1, <3>2, <3>3, <3>5 DEF ArenaShape, top
    <3>7. ArenaSound'
      <4>1. new \subseteq 1 .. ArenaSlots - 1
        BY <1>3, <1>4, <3>1, <3>3 DEF top
      <4>2. new \cap before = {}
        BY <1>4, <3>3, <3>4
      <4>3. \A b \in m.blocks : b \cap new = {}
        BY <4>2 DEF before
      <4>4. DOMAIN m'.written \subseteq UNION m'.blocks
        BY <1>7, <2>3, <3>4 DEF before
      <4>5. \A b \in m'.blocks : b \subseteq 1 .. ArenaSlots - 1
        BY <3>1, <4>1 DEF IInv, ArenaSound
      <4>6. \A b, c \in m'.blocks : b = c \/ b \cap c = {}
        BY <3>1, <4>3 DEF IInv, ArenaSound
      <4>7. QED
        BY <4>4, <4>5, <4>6 DEF ArenaSound
    <3>8. QED
      BY <1>1, <1>5, <1>6, <1>8, <1>9, <3>6, <3>7, RestKeeps
  <2>6. QED
    BY <2>4, <2>5
<1>12. QED
  BY <1>10, <1>11

LEMMA PokeKeeps ==
  ASSUME IInv, Poke
  PROVE  IInv'
<1> DEFINE after == [s \in DOMAIN m.written \cup {Slot} |-> IF s = Slot THEN C ELSE m.written[s]]
<1>1. Running /\ UNCHANGED <<lines, world>> /\ ~Over /\ L.op = "poke"
  BY DEF Poke, Executes, Same, Running, Over
<1>2. DOMAIN m = Fields /\ m.vars \in [Var -> Int] /\ m.hasArena \in BOOLEAN /\ m.arenaUsed \in Nat
  BY DEF IInv, TypeOK
<1>3. Slot \in Int
  BY <1>1, OperandsSound, WrapIsInt DEF Slot
<1>4. /\ m'.pc = m.pc + 1 /\ DOMAIN m' = Fields
      /\ \A f \in Fields \ {"pc", "executed", "written"} : m'[f] = m[f]
      /\ m'.written = IF InArena(Slot) THEN after ELSE m.written
  <2>1. CASE InArena(Slot)
    BY <1>2, <2>1 DEF Poke, Executes, On, Fields
  <2>2. CASE ~InArena(Slot)
    BY <1>2, <2>2 DEF Poke, Executes, On, Fields
  <2>3. QED
    BY <2>1, <2>2
<1>5. m'.vars = m.vars /\ m'.hasArena = m.hasArena /\ m'.arenaUsed = m.arenaUsed
      /\ m'.blocks = m.blocks /\ m'.loop = m.loop
      /\ \A f \in {"rngState", "callStack", "until", "now"} : m'[f] = m[f]
  BY <1>4 DEF Fields
<1>6. DOMAIN m'.written = IF InArena(Slot) THEN DOMAIN m.written \cup {Slot} ELSE DOMAIN m.written
  BY <1>4
<1>7. InArena(Slot) => Slot \in UNION m.blocks
  <2> SUFFICES ASSUME InArena(Slot)
               PROVE  Slot \in UNION m.blocks
    OBVIOUS
  <2>1. m.hasArena /\ Slot \in 1 .. m.arenaUsed - 1
    BY <1>2, <1>3 DEF InArena
  <2>2. UNION m.blocks = 1 .. m.arenaUsed - 1
    BY <2>1 DEF IInv, ArenaShape
  <2>3. QED
    BY <2>1, <2>2
<1>8. ArenaShape'
  BY <1>1, <1>5, <1>6 DEF IInv, ArenaShape, InArena
<1>9. ArenaSound'
  BY <1>5, <1>6, <1>7 DEF IInv, ArenaSound
<1>10. m'.hasArena \in BOOLEAN
  BY <1>2, <1>5, Zenon
<1>11. \A s \in DOMAIN m'.written : m'.written[s] \in Int
  <2>1. C \in Int /\ \A s \in DOMAIN m.written : m.written[s] \in Int
    BY <1>1, OperandsSound DEF IInv, TypeOK
  <2>2. QED
    BY <1>4, <2>1
<1>12. QED
  BY <1>1, <1>2, <1>4, <1>5, <1>8, <1>9, <1>10, <1>11, RestKeeps

LEMMA PeekKeeps ==
  ASSUME IInv, Peek
  PROVE  IInv'
<1>1. Running /\ UNCHANGED <<lines, world>> /\ ~Over /\ L.op = "peek" /\ m.until = -1
  BY DEF Peek, Executes, Same, Running, Over
<1>2. DOMAIN m = Fields /\ m.pc + 1 \in 1 .. Len(lines) + 1
  BY <1>1, LineSound DEF IInv
<1>3. L.c.value \in Var
  BY <1>1, ResultSound
<1> DEFINE v == IF Stale THEN world.residue ELSE IF InArena(Slot) THEN m.written[Slot] ELSE 0
<1>4. v \in Int
  <2>1. world.residue \in Int
    BY LongsAreInts DEF IInv, TypeOK, Worlds
  <2>2. CASE Stale
    BY <2>1, <2>2
  <2>3. CASE ~Stale
    BY <2>3 DEF Stale, IInv, TypeOK
  <2>4. QED
    BY <2>2, <2>3
<1>5. Undisturbed(m') /\ m'.pc = m.pc + 1 /\ m'.vars = [m.vars EXCEPT ![L.c.value] = v]
      /\ m'.until = m.until /\ m'.now = m.now /\ m'.rngState = m.rngState
  <2>1. CASE Stale
    BY <1>2, <2>1 DEF Peek, Executes, Assigned, On, Undisturbed, Fields
  <2>2. CASE ~Stale
    BY <1>2, <2>2 DEF Peek, Executes, Assigned, On, Undisturbed, Fields
  <2>3. QED
    BY <2>1, <2>2
<1>6. m'.vars \in [Var -> Int]
  <2>1. m.vars \in [Var -> Int]
    BY DEF IInv, TypeOK
  <2>2. QED
    BY <1>3, <1>4, <1>5, <2>1
<1>7. QED
  BY <1>1, <1>2, <1>5, <1>6, QuietKeeps DEF IInv, TypeOK

---------------------------------------------------------------------------
LEMMA InitSound == Init => IInv
<1> SUFFICES ASSUME Init PROVE IInv
  OBVIOUS
<1>1. IsScript(lines) /\ world \in Worlds /\ m = Fresh
  BY PlayedAssumption DEF Init
<1>2. DOMAIN m = Fields /\ m.pc = 1 /\ m.vars = [x \in Var |-> 0] /\ m.callStack = <<>> /\ m.now = 0
      /\ m.arenaUsed = 0 /\ m.until = -1 /\ m.blocks = {} /\ m.written = <<>> /\ m.rngState = world.seed
  BY <1>1 DEF Fresh, Fields
<1>3. m.hasArena = FALSE
  BY <1>1 DEF Fresh
<1>4. TypeOK
  <2>1. m.callStack \in Seq(1 .. Len(lines) + 1) /\ Len(m.callStack) <= CallDepth
    BY <1>2, ScriptAssumption
  <2>2. m.hasArena \in BOOLEAN
    BY <1>3, Zenon
  <2>3. world.seed \in DOMAIN RandNext
    BY <1>1 DEF Worlds
  <2>4. QED
    BY <1>1, <1>2, <2>1, <2>2, <2>3 DEF TypeOK, IsScript
<1>5. ArenaShape /\ ArenaSound
  BY <1>2, <1>3 DEF ArenaShape, ArenaSound
<1>6. ReturnsBehindCalls /\ WaitInside
  BY <1>2 DEF ReturnsBehindCalls, WaitInside
<1>7. QED
  BY <1>2, <1>4, <1>5, <1>6 DEF IInv

LEMMA NextKeeps == IInv /\ [Next]_svars => IInv'
<1> SUFFICES ASSUME IInv, [Next]_svars PROVE IInv'
  OBVIOUS
<1>1. CASE Steps
  BY <1>1, PumpKeeps, PresentKeeps, JumpKeeps, ArithKeeps, DivKeeps, ScreenKeeps, RndKeeps,
     GosubKeeps, ReturnKeeps, AllocKeeps, PokeKeeps, PeekKeeps DEF Steps
<1>2. CASE UNCHANGED svars
  BY <1>2 DEF svars, IInv, TypeOK, ArenaShape, ArenaSound, ReturnsBehindCalls, WaitInside, Over
<1>3. QED
  BY <1>1, <1>2 DEF Next, Done

LEMMA Invariance == Spec => []IInv
  BY InitSound, NextKeeps, PTL DEF Spec

(* Whatever script is played, its program counter stays inside it, its     *)
(* variables are numbers and its calls are at most SCRIPT_CALL_DEPTH deep. *)
THEOREM TypeCorrect == Spec => []TypeOK
<1>1. IInv => TypeOK
  BY DEF IInv
<1>2. QED
  BY <1>1, Invariance, PTL

(* OP_ALLOC, OP_POKE and OP_PEEK keep to the arena and its blocks apart.   *)
THEOREM ArenaAlwaysSound == Spec => []ArenaSound
<1>1. IInv => ArenaSound
  BY DEF IInv
<1>2. QED
  BY <1>1, Invariance, PTL

(* OP_RETURN only ever goes on behind a gosub.                             *)
THEOREM AlwaysReturnsBehindCalls == Spec => []ReturnsBehindCalls
<1>1. IInv => ReturnsBehindCalls
  BY DEF IInv
<1>2. QED
  BY <1>1, Invariance, PTL

=============================================================================

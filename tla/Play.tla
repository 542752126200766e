-------------------------------- MODULE Play --------------------------------
(***************************************************************************)
(* The command play: a script, played by the interpreter in a world.       *)
(***************************************************************************)
EXTENDS Script

CONSTANT Played    \* scripts, each with a world it is played in

ASSUME PlayedAssumption == \A g \in Played : IsScript(g[1]) /\ g[2] \in Worlds

Init ==
  /\ \E g \in Played : lines = g[1] /\ world = g[2]
  /\ m = Fresh

Done == Over /\ UNCHANGED svars

Next == Steps \/ Done

Spec == Init /\ [][Next]_svars

---------------------------------------------------------------------------
TypeOK ==
  /\ IsScript(lines) /\ world \in Worlds
  /\ m.pc \in 1 .. Len(lines) + 1
  /\ m.vars \in [Var -> Int]
  /\ m.callStack \in Seq(1 .. Len(lines) + 1) /\ Len(m.callStack) <= CallDepth
  /\ m.rngState \in DOMAIN RandNext
  /\ \A s \in DOMAIN m.written : m.written[s] \in Int
  /\ m.hasArena \in BOOLEAN /\ m.arenaUsed \in Nat /\ m.now \in Nat

(* Blocks alloc has handed out share no slot and lie inside the frames of  *)
(* the arena, and poke writes nothing but such slots: the bounds of        *)
(* OP_ALLOC and OP_POKE agree.                                             *)
ArenaSound ==
  /\ \A b \in m.blocks : b \subseteq 1 .. ArenaSlots - 1
  /\ \A b, c \in m.blocks : b = c \/ b \cap c = {}
  /\ DOMAIN m.written \subseteq UNION m.blocks

(* Every address on the call stack is that behind a gosub, whatever jumps  *)
(* out of and into subroutines the script makes.                           *)
ReturnsBehindCalls ==
  \A i \in DOMAIN m.callStack :
    /\ m.callStack[i] - 1 \in DOMAIN lines
    /\ lines[m.callStack[i] - 1].op = "gosub"

(* With ESC held every played script ends, or traps: the fuel brings a loop *)
(* without flip back to RunLoop, which looks at the keyboard.  A wait does  *)
(* not look at it, but every wait is finite.                                *)
EscEndsPlay == <>Over

=============================================================================

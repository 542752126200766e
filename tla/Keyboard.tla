------------------------------ MODULE Keyboard ------------------------------
(***************************************************************************)
(* The PS/2 keyboard (src/input/keyboard.cc): one stream of scan codes     *)
(* with two readers.  In the shell and the editor ReadKey makes characters *)
(* of them; in a game PumpState keeps track of which keys are down.        *)
(***************************************************************************)
EXTENDS Integers, Sequences, FiniteSets

CONSTANTS
  Players,    \* the sets of keys a player may use: what a key is, code, whether E0 comes first, modifier
  MaxCodes    \* bound on the bytes waiting to be read when a key moves

VARIABLES
  player,     \* the keys that are used
  held,       \* those that are down
  queue,      \* bytes in the keyboard controller
  game,       \* whether a game runs
  waits,      \* a reader has read E0 and waits for the byte behind it
  flags,      \* shiftPressed, altGrPressed, ctrlPressed: the set of those that are TRUE
  keysDown,
  got,        \* what the last ReadKey made of which code
  read,       \* history: the keys down according to the codes read
  begun,      \* history: those of them whose press was read in this game
  adrift      \* history: modifiers for which the flag was last passed by

vars == <<player, held, queue, game, waits, flags, keysDown, got, read, begun, adrift>>

PrefixByte == [code |-> "E0", make |-> TRUE]
Nothing == [key |-> "none", as |-> "none", of |-> PrefixByte, mods |-> {}]

(* Codes; those of Ctrl and of the keys of the main block are the same     *)
(* with and without E0.                                                    *)
Chars == {"a", "8", "s"}
Arrows == {"up"}
Codes == Chars \cup Arrows \cup {"home", "esc", "lshift", "rshift", "alt", "ctrl"}
Mods == {"shift", "altgr", "ctrl"}

(* Keys of which a game can ask *)
Tracked == Chars \cup Arrows \cup {"esc"}

ASSUME KeyboardAssumption ==
  /\ Players \subseteq SUBSET [name: STRING, code: Codes, ext: BOOLEAN, mod: Mods \cup {"none"}]
  /\ MaxCodes \in Nat \ {0}

(* What is printed on the keys is what their codes stand for; what is not  *)
(* among the keys a game can ask for has a name of its own.                *)
ASSUME LayoutAssumption ==
  \A p \in Players : \A k \in p :
    /\ k.mod = "altgr" <=> k.code = "alt" /\ k.ext
    /\ k.mod = "ctrl" <=> k.code = "ctrl"
    /\ k.mod = "shift" <=> k.code \in {"lshift", "rshift"} /\ ~k.ext
    /\ k.name \in Tracked <=> k.code \in (IF k.ext THEN Arrows ELSE Chars \cup {"esc"})
    /\ k.name \in Tracked => k.name = k.code
    /\ \A j \in p : j.name = k.name => j = k

Bytes(k, make) ==
  (IF k.ext THEN <<PrefixByte>> ELSE <<>>) \o <<[code |-> k.code, make |-> make, key |-> k]>>

---------------------------------------------------------------------------
(* The player *)

(* A key goes down, or is repeated while it is. *)
Press(k) ==
  /\ Len(queue) < MaxCodes
  /\ held' = held \cup {k} /\ queue' = queue \o Bytes(k, TRUE)
  /\ UNCHANGED <<game, waits, flags, keysDown, got, read, begun, adrift>>
Release(k) ==
  /\ k \in held /\ Len(queue) < MaxCodes
  /\ held' = held \ {k} /\ queue' = queue \o Bytes(k, FALSE)
  /\ UNCHANGED <<game, waits, flags, keysDown, got, read, begun, adrift>>

---------------------------------------------------------------------------
(* ReadKey *)

(* Faulty variant of ModifierOf: the code behind E0 is not looked at on its own. *)
ModifierAnyway(code, ext) ==
  CASE code = "alt" -> {"altgr"} [] code = "ctrl" -> {"ctrl"}
    [] code \in {"lshift", "rshift"} -> {"shift"} [] OTHER -> {}

(* The flag a code stands for.  Alt without E0 is not AltGr, and a shift   *)
(* behind E0 comes from the keyboard itself.                               *)
ModifierOf(code, ext) ==
  CASE code = "alt" /\ ext -> {"altgr"} [] code = "ctrl" -> {"ctrl"}
    [] code \in {"lshift", "rshift"} /\ ~ext -> {"shift"} [] OTHER -> {}

(* Faulty variant of CharOf: a release counts as a key. *)
CharOfBoth(byte, ext) ==
  IF ext THEN (IF byte.code \in Arrows \cup {"home"} THEN byte.code ELSE "none")
  ELSE IF byte.code = "esc" THEN "esc"
  ELSE IF "ctrl" \in flags THEN (IF byte.code = "s" THEN "^s" ELSE "none")
  ELSE IF byte.code \in Chars THEN byte.code ELSE "none"

(* What key a code stands for; behind E0 the keys of the main block and of *)
(* the number pad are none, and neither is the release of any key.         *)
CharOf(byte, ext) ==
  IF ~byte.make THEN "none"
  ELSE IF ext THEN (IF byte.code \in Arrows \cup {"home"} THEN byte.code ELSE "none")
  ELSE IF byte.code = "esc" THEN "esc"
  ELSE IF "ctrl" \in flags THEN (IF byte.code = "s" THEN "^s" ELSE "none")
  ELSE IF byte.code \in Chars THEN byte.code ELSE "none"

(* The characters AltGr's table has. *)
AltGrHas == {"8"}

(* Faulty variant of PlaneOf: AltGr's table is final. *)
PlaneOfAltGr(code, mods) ==
  IF "altgr" \in mods THEN "altgr" ELSE IF "shift" \in mods THEN "shift" ELSE "plain"

(* The table a character is taken from: AltGr's if it has one there, then  *)
(* that of shift, which always has.                                        *)
PlaneOf(code, mods) ==
  IF "altgr" \in mods /\ code \in AltGrHas THEN "altgr" ELSE IF "shift" \in mods THEN "shift" ELSE "plain"

(* The modifiers among these keys. *)
ModsOf(keys) == {k.mod : k \in keys} \ {"none"}

(* A code has been read: the flag it sets or clears, if it is read by      *)
(* ReadKey, and whether the flag now says what is held.                    *)
Follows(byte, ext, byReadKey) ==
  LET mods == ModifierOf(byte.code, ext)
      now == IF byte.make THEN read \cup {byte.key} ELSE read \ {byte.key}
  IN  /\ read' = now
      /\ flags' = IF ~byReadKey THEN flags ELSE IF byte.make THEN flags \cup mods ELSE flags \ mods
      /\ adrift' = IF byReadKey /\ (byte.make \/ mods \cap ModsOf(now) = {})
                     THEN adrift \ mods ELSE adrift \cup mods

Byte == Head(queue)
IsPrefix_ == Byte = PrefixByte

(* PollKey: ReadKey, which waits for the code behind E0. *)
ReadKey ==
  /\ ~game /\ queue # <<>>
  /\ queue' = Tail(queue) /\ waits' = IsPrefix_
  /\ IF IsPrefix_ THEN got' = Nothing /\ UNCHANGED <<flags, read, adrift>>
     ELSE /\ Follows(Byte, waits, TRUE)
          /\ got' = LET key == IF ModifierOf(Byte.code, waits) # {} THEN "none" ELSE CharOf(Byte, waits)
                    IN  [key |-> key, of |-> Byte, mods |-> ModsOf(read),
                         as |-> IF key \in Chars THEN PlaneOf(key, flags) ELSE "none"]
  /\ UNCHANGED <<held, game, keysDown, begun>>

---------------------------------------------------------------------------
(* Games: PumpState, as often as the game calls it *)

(* The entry of keysDown for a code; \x08, the number pad, home: none. *)
StateOf(code, ext) ==
  IF ext THEN {code} \cap Arrows ELSE {code} \cap ({"esc"} \cup Chars)

PumpState ==
  /\ game /\ queue # <<>>
  /\ queue' = Tail(queue) /\ waits' = IsPrefix_
  /\ IF IsPrefix_ THEN UNCHANGED <<flags, read, begun, adrift, keysDown>>
     ELSE /\ Follows(Byte, waits, FALSE)
          /\ keysDown' = IF Byte.make THEN keysDown \cup StateOf(Byte.code, waits)
                         ELSE keysDown \ StateOf(Byte.code, waits)
          /\ begun' = IF Byte.make THEN begun \cup {Byte.key} ELSE begun \ {Byte.key}
  /\ UNCHANGED <<held, game, got>>

(* Faulty variant of ClearedStates: what was down at the end of the last   *)
(* game counts as down.                                                    *)
ClearedNot == keysDown

ClearedStates == {}

(* RunLoop, RunImage: ClearStates.  The game ends between two calls. *)
StartGame ==
  /\ ~game /\ ~waits /\ game' = TRUE /\ keysDown' = ClearedStates /\ begun' = {}
  /\ UNCHANGED <<held, queue, waits, flags, got, read, adrift>>
EndGame ==
  /\ game /\ ~waits /\ game' = FALSE
  /\ UNCHANGED <<held, queue, waits, flags, keysDown, got, read, begun, adrift>>

Init ==
  /\ player \in Players
  /\ held = {} /\ queue = <<>> /\ game = FALSE /\ waits = FALSE
  /\ flags = {} /\ keysDown = {} /\ got = Nothing
  /\ read = {} /\ begun = {} /\ adrift = {}

Next ==
  /\ \/ \E k \in player : Press(k) \/ Release(k)
     \/ ReadKey \/ PumpState \/ StartGame \/ EndGame
  /\ UNCHANGED player

Spec == Init /\ [][Next]_vars

---------------------------------------------------------------------------
TypeOK ==
  /\ player \in Players /\ held \subseteq player /\ read \subseteq player /\ (game => begun \subseteq read)
  /\ queue \in Seq([code: Codes, make: BOOLEAN, key: player] \cup {PrefixByte})
  /\ flags \cup adrift \subseteq Mods
  /\ keysDown \subseteq Tracked
  /\ game \in BOOLEAN /\ waits \in BOOLEAN
  /\ waits => (queue # <<>> /\ Byte # PrefixByte /\ Byte.key.ext)

(* The two readers never take the second byte of a code for a code of its  *)
(* own, whichever of them read the first: a key is only reported for the   *)
(* press of that very key.                                                 *)
NoGhostKey ==
  /\ TypeOK
  /\ got.key # "none" =>
       /\ got.of.make
       /\ got.key = got.of.key.code \/ (got.key = "^s" /\ got.of.key.code = "s")
       /\ got.of.key.ext = (got.key \in Arrows \cup {"home"})

(* A flag says whether one of its keys is held, except after a game read a *)
(* code of such a key, or after one of two held ones was let go, until the *)
(* next of its codes is read.                                              *)
FlagsFollow ==
  \A mod \in Mods \ adrift : (mod \in flags) = (mod \in ModsOf(read))

Meant(key, mods) ==
  CASE "altgr" \in mods /\ key = "8" -> "altgr"
    [] "altgr" \notin mods \/ key # "8" -> IF "shift" \in mods THEN "shift" ELSE "plain"

(* What is typed is what the player meant: the character comes from the    *)
(* table of the modifiers held when the key was pressed, though it is read *)
(* later.                                                                  *)
TypedAsMeant ==
  [][(got' # got /\ got'.as # "none" /\ adrift = {}) => got'.as = Meant(got'.key, got'.mods)]_vars

(* What a game asks for are the keys whose press it has read and which     *)
(* were not let go since, and no others.  Once it has read all codes, no   *)
(* key is down that is not held, whatever was held or let go before the    *)
(* game and in earlier ones.                                               *)
DownIsHeld ==
  game =>
    /\ keysDown = {k.name : k \in begun} \cap Tracked
    /\ queue = <<>> => \A c \in keysDown : \E k \in held : k.name = c

=============================================================================

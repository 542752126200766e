------------------------------- MODULE Frames -------------------------------
(***************************************************************************)
(* The physical frame allocator (src/Memory/Frames.cc) and everything that *)
(* takes frames from it: page tables (src/Memory/Paging.cc), the heap      *)
(* (src/Memory/Heap.cc), the interpreter (src/Script/Script.cc) and the    *)
(* runner of compiled games (src/Compiler/RunImage.cc, src/Engine).        *)
(*                                                                         *)
(* The bitmap has a bit for each frame below the highest address of the    *)
(* memory map; it is represented by the set of the bits that are set.      *)
(***************************************************************************)
EXTENDS Integers, FiniteSets

CONSTANTS
  FrameCount,   \* frames below the highest address of the memory map
  LowFrames,    \* frames of the first MiB
  Maps,         \* sets of frames a memory map may call conventional
  MaxTables,    \* bound on the page tables built
  HeapFrames,   \* HEAP_RESERVE_BYTES in frames
  CodeSizes,    \* sizes of compiled games, in frames
  ArenaFrames   \* SCRIPT_ARENA_BYTES in frames

FrameSet == 0 .. FrameCount - 1

ASSUME SizeAssumption ==
  /\ {FrameCount, MaxTables} \subseteq Nat
  /\ {LowFrames, HeapFrames, ArenaFrames} \cup CodeSizes \subseteq Nat \ {0}
ASSUME MapAssumption == Maps \subseteq SUBSET FrameSet

VARIABLES
  map,         \* the frames the memory map calls conventional
  bitmap,      \* the frames whose bit is set: taken, or not memory at all
  freeFrames,  \* Frames::freeFrames
  blocks,      \* the blocks handed out and not given back
  game         \* the game that runs: none, a script, or a compiled one

vars == <<map, bitmap, freeFrames, blocks, game>>

Owners == {"table", "heap", "code", "arena"}
Games == {"none", "script", "native"}
Block(o, f, n) == [owner |-> o, first |-> f, count |-> n]
FramesOf(b) == b.first .. b.first + b.count - 1
OwnedBy(o) == {b \in blocks : b.owner = o}

---------------------------------------------------------------------------
(* Reserve(0, 0x100000). *)
Low == {f \in FrameSet : f < LowFrames}

(* Faulty variant of Init: Reserve takes the first MiB without counting it. *)
InitUncounted ==
  /\ map \in Maps
  /\ bitmap = (FrameSet \ map) \cup Low
  /\ freeFrames = Cardinality(map)
  /\ blocks = {}
  /\ game = "none"

(* Frames::Init: every bit is set, those of conventional memory are        *)
(* cleared and counted, and the first MiB is reserved.                     *)
Init ==
  /\ map \in Maps
  /\ bitmap = (FrameSet \ map) \cup Low
  /\ freeFrames = Cardinality(map \ Low)
  /\ blocks = {}
  /\ game = "none"

(* Faulty variant of Clear: only the first frame is looked at. *)
ClearFirst(f, n) == f + n <= FrameCount /\ f \notin bitmap

(* The n frames from f on exist and are clear. *)
Clear(f, n) == f + n <= FrameCount /\ \A g \in f .. f + n - 1 : g \notin bitmap

(* Frames::Alloc, one frame being the alignment every caller asks for: the *)
(* first n frames in a row that are clear, given to an owner.  Address 0   *)
(* is the failure, and leaves everything as it is.                         *)
AllocFrames(o, n) ==
  \E f \in FrameSet :
    /\ Clear(f, n)
    /\ \A g \in 0 .. f - 1 : ~Clear(g, n)
    /\ bitmap' = bitmap \cup (f .. f + n - 1)
    /\ freeFrames' = freeFrames - n
    /\ blocks' = blocks \cup {Block(o, f, n)}

(* Faulty variant of FreeBlocks: the last frame of each block is kept. *)
FreeButLast(B) ==
  LET given == UNION {FramesOf(b) \ {b.first + b.count - 1} : b \in B}
  IN  /\ bitmap' = bitmap \ given
      /\ freeFrames' = freeFrames + Cardinality(given \cap bitmap)
      /\ blocks' = blocks \ B

(* Frames::Free of blocks that are given back together.                    *)
FreeBlocks(B) ==
  LET given == (UNION {FramesOf(b) : b \in B}) \cap FrameSet
  IN  /\ bitmap' = bitmap \ given
      /\ freeFrames' = freeFrames + Cardinality(given \cap bitmap)
      /\ blocks' = blocks \ B

---------------------------------------------------------------------------
(* Paging::NewTabel *)
NewTable ==
  /\ game = "none"
  /\ Cardinality(OwnedBy("table")) < MaxTables
  /\ AllocFrames("table", 1)
  /\ UNCHANGED <<map, game>>

(* Heap::Init, once in a boot *)
HeapInit ==
  /\ game = "none"
  /\ OwnedBy("heap") = {}
  /\ AllocFrames("heap", HeapFrames)
  /\ UNCHANGED <<map, game>>

(* RunImage takes frames for the code; it returns LOAD_NO_PAGES if it gets *)
(* none, and nothing has changed.                                          *)
StartNative(n) ==
  /\ game = "none"
  /\ AllocFrames("code", n)
  /\ game' = "native"
  /\ UNCHANGED map

StartScript ==
  /\ game = "none"
  /\ game' = "script"
  /\ UNCHANGED <<map, bitmap, freeFrames, blocks>>

(* OP_ALLOC and EnAlloc: the first allocation of a game takes its arena.   *)
(* When there is no room for one the game goes on without it, and the next *)
(* allocation tries again.                                                 *)
TakeArena ==
  /\ game # "none"
  /\ OwnedBy("arena") = {}
  /\ AllocFrames("arena", ArenaFrames)
  /\ UNCHANGED <<map, game>>

(* Faulty variant of GameBlocks: the arena is kept for the next game. *)
CodeOnly == OwnedBy("code")

(* What is given back when a game ends. *)
GameBlocks == OwnedBy("arena") \cup OwnedBy("code")

(* The end of RunImage, and Script::FreeArena. *)
EndGame ==
  /\ game # "none"
  /\ FreeBlocks(GameBlocks)
  /\ game' = "none"
  /\ UNCHANGED map

Next ==
  \/ NewTable
  \/ HeapInit
  \/ \E n \in CodeSizes : StartNative(n)
  \/ StartScript
  \/ TakeArena
  \/ EndGame

Spec == Init /\ [][Next]_vars

---------------------------------------------------------------------------
(* Properties *)

TypeOK ==
  /\ map \in SUBSET FrameSet
  /\ bitmap \in SUBSET FrameSet
  /\ freeFrames \in 0 .. FrameCount
  /\ blocks \in SUBSET [owner : Owners, first : FrameSet, count : Nat \ {0}]
  /\ game \in Games

(* Memory handed out is memory: conventional, above the first MiB (so that *)
(* an address of 0 always means failure), inside the bitmap, marked there, *)
(* and in the hands of one owner only.                                     *)
BlocksSound ==
  /\ \A b \in blocks : FramesOf(b) \subseteq (map \ Low) \cap bitmap
  /\ \A b, c \in blocks : b # c => FramesOf(b) \cap FramesOf(c) = {}

(* No frame gets lost: each frame that was free at boot is clear, or in a  *)
(* block somebody holds.                                                   *)
NothingLost == map \ Low = (FrameSet \ bitmap) \cup UNION {FramesOf(b) : b \in blocks}

(* The counter the mem command prints agrees with the bitmap. *)
CounterExact == freeFrames = Cardinality(FrameSet \ bitmap)

(* A game that has ended has given back all it took. *)
GamesLeaveNothing == game = "none" => \A b \in blocks : b.owner \in {"table", "heap"}

=============================================================================

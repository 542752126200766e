---------------------------- MODULE MachineProofs ----------------------------
(***************************************************************************)
(* Proofs about Frames and Boot: the memory the kernel is given and hands  *)
(* out, and the way it gets there; for every memory map, every size, and   *)
(* any number of commands typed.  The two modules share no state.          *)
(*                                                                         *)
(* The invariants of Frames hold each other up: a block being freed is     *)
(* known to be marked in the bitmap (BlocksSound), which keeps the counter *)
(* exact; the counter being exact bounds it (TypeOK); and the frames of a  *)
(* new block being clear, they are in no other block.  Their conjunction   *)
(* is inductive.                                                           *)
(*                                                                         *)
(* What the properties of Boot say of the shell is decided while the boot  *)
(* is under way: Brought says what has come up at each step of             *)
(* init_kernel, MapFollows how far the kernel's copy of the memory map may *)
(* be behind the firmware's.                                               *)
(***************************************************************************)
EXTENDS Boot, Frames, FiniteSetTheorems, TLAPS

---------------------------------------------------------------------------
(* Frames *)

IInv ==
  /\ TypeOK
  /\ BlocksSound
  /\ NothingLost
  /\ CounterExact
  /\ GamesLeaveNothing

(* The set of frames is finite and has FrameCount elements. *)
LEMMA FrameSetFinite ==
  /\ IsFiniteSet(FrameSet)
  /\ Cardinality(FrameSet) = FrameCount
<1>1. FrameCount \in Nat
  BY SizeAssumption
<1>2. 0 \in Int /\ FrameCount - 1 \in Int
  BY <1>1
<1>3. /\ IsFiniteSet(0 .. FrameCount - 1)
      /\ Cardinality(0 .. FrameCount - 1)
           = IF 0 > FrameCount - 1 THEN 0 ELSE (FrameCount - 1) - 0 + 1
  BY <1>2, FS_Interval
<1>4. QED
  BY <1>1, <1>3 DEF FrameSet

(* A set of frames is finite and has at most FrameCount elements. *)
LEMMA FramesFinite ==
  ASSUME NEW S \in SUBSET FrameSet
  PROVE  /\ IsFiniteSet(S)
         /\ Cardinality(S) \in 0 .. FrameCount
<1>1. IsFiniteSet(S) /\ Cardinality(S) <= FrameCount
  BY FrameSetFinite, FS_Subset
<1>2. Cardinality(S) \in Nat
  BY <1>1, FS_CardinalityType
<1>3. QED
  BY <1>1, <1>2, SizeAssumption

(* What Frames::Alloc changes, for any owner and size: the block is apart  *)
(* from every other one, and everything stays accounted for.               *)
LEMMA AllocKeeps ==
  ASSUME IInv, NEW o \in Owners, NEW n \in Nat \ {0}, AllocFrames(o, n), UNCHANGED map
  PROVE  /\ bitmap' \in SUBSET FrameSet
         /\ freeFrames' \in 0 .. FrameCount
         /\ blocks' \in SUBSET [owner : Owners, first : FrameSet, count : Nat \ {0}]
         /\ BlocksSound'
         /\ NothingLost'
         /\ CounterExact'
<1>1. PICK f \in FrameSet :
        /\ Clear(f, n)
        /\ bitmap' = bitmap \cup (f .. f + n - 1)
        /\ freeFrames' = freeFrames - n
        /\ blocks' = blocks \cup {Block(o, f, n)}
  BY DEF AllocFrames
<1> DEFINE new == f .. f + n - 1
<1>2. f \in Int /\ n \in Int /\ n > 0 /\ FrameCount \in Int
  BY SizeAssumption DEF FrameSet
<1>3. new \subseteq FrameSet \ bitmap
  BY <1>1, <1>2 DEF Clear, FrameSet
<1>4. FramesOf(Block(o, f, n)) = new
  BY DEF FramesOf, Block
<1>5. bitmap' \in SUBSET FrameSet
  BY <1>1, <1>3 DEF IInv, TypeOK
<1>6. blocks' \in SUBSET [owner : Owners, first : FrameSet, count : Nat \ {0}]
  BY <1>1 DEF IInv, TypeOK, Block
<1>7. new \subseteq map \ Low
  <2>1. FrameSet \ bitmap \subseteq map \ Low
    BY DEF IInv, NothingLost
  <2>2. QED
    BY <1>3, <2>1
<1>8. BlocksSound'
  <2>1. ASSUME NEW b \in blocks'
        PROVE  FramesOf(b) \subseteq (map \ Low) \cap bitmap'
    <3>1. CASE b \in blocks
      BY <3>1, <1>1 DEF IInv, BlocksSound
    <3>2. CASE b = Block(o, f, n)
      BY <3>2, <1>1, <1>4, <1>7
    <3>3. QED
      BY <2>1, <3>1, <3>2, <1>1
  <2>2. ASSUME NEW b \in blocks', NEW c \in blocks', b # c
        PROVE  FramesOf(b) \cap FramesOf(c) = {}
    <3>1. \A d \in blocks : FramesOf(d) \cap new = {}
      BY <1>3 DEF IInv, BlocksSound
    <3>2. CASE b \in blocks /\ c \in blocks
      BY <3>2, <2>2 DEF IInv, BlocksSound
    <3>3. CASE b = Block(o, f, n) /\ c \in blocks
      BY <3>3, <3>1, <1>4
    <3>4. CASE b \in blocks /\ c = Block(o, f, n)
      BY <3>4, <3>1, <1>4
    <3>5. QED
      BY <2>2, <3>2, <3>3, <3>4, <1>1
  <2>3. QED
    BY <2>1, <2>2, Zenon DEF BlocksSound, Low
<1>9. NothingLost'
  <2>1. UNION {FramesOf(b) : b \in blocks'} = (UNION {FramesOf(b) : b \in blocks}) \cup new
    BY <1>1, <1>4
  <2>2. map \ Low = (FrameSet \ bitmap) \cup UNION {FramesOf(b) : b \in blocks}
    BY DEF IInv, NothingLost
  <2>3. map \ Low = (FrameSet \ bitmap') \cup UNION {FramesOf(b) : b \in blocks'}
    BY <1>1, <1>3, <2>1, <2>2
  <2>4. QED
    BY <2>3 DEF NothingLost, Low
<1>10. CounterExact'
  <2>1. FrameSet \ bitmap' = (FrameSet \ bitmap) \ new
    BY <1>1
  <2>2. IsFiniteSet(FrameSet \ bitmap)
    BY FramesFinite
  <2>3. Cardinality(FrameSet \ bitmap') = Cardinality(FrameSet \ bitmap) - Cardinality(new)
    <3>1. (FrameSet \ bitmap) \cap new = new
      BY <1>3
    <3>2. QED
      BY <2>1, <2>2, <3>1, FS_Difference, Zenon
  <2>4. Cardinality(new) = n
    <3>1. f + n - 1 \in Int /\ ~(f > f + n - 1) /\ (f + n - 1) - f + 1 = n
      BY <1>2
    <3>2. QED
      BY <3>1, <1>2, FS_Interval
  <2>5. QED
    BY <2>3, <2>4, <1>1 DEF IInv, CounterExact
<1>11. freeFrames' \in 0 .. FrameCount
  <2>1. FrameSet \ bitmap' \in SUBSET FrameSet
    OBVIOUS
  <2>2. QED
    BY <2>1, <1>10, FramesFinite DEF CounterExact, FrameSet
<1>12. QED
  BY <1>5, <1>6, <1>8, <1>9, <1>10, <1>11

(* What Frames::Free changes when it is given blocks that are held. *)
LEMMA FreeKeeps ==
  ASSUME IInv, NEW B \in SUBSET blocks, FreeBlocks(B), UNCHANGED map
  PROVE  /\ bitmap' \in SUBSET FrameSet
         /\ freeFrames' \in 0 .. FrameCount
         /\ blocks' \in SUBSET [owner : Owners, first : FrameSet, count : Nat \ {0}]
         /\ BlocksSound'
         /\ NothingLost'
         /\ CounterExact'
<1> DEFINE held == UNION {FramesOf(b) : b \in B}
           given == held \cap FrameSet
<1>1. /\ bitmap' = bitmap \ given
      /\ freeFrames' = freeFrames + Cardinality(given \cap bitmap)
      /\ blocks' = blocks \ B
  BY DEF FreeBlocks
<1>2. held \subseteq bitmap /\ held \subseteq map \ Low
  BY DEF IInv, BlocksSound
<1>3. bitmap \in SUBSET FrameSet
  BY DEF IInv, TypeOK
<1>4. given = held
  BY <1>2, <1>3
<1>5. bitmap' \in SUBSET FrameSet
  BY <1>1, <1>3
<1>6. blocks' \in SUBSET [owner : Owners, first : FrameSet, count : Nat \ {0}]
  BY <1>1 DEF IInv, TypeOK
<1>7. BlocksSound'
  <2>1. ASSUME NEW b \in blocks'
        PROVE  FramesOf(b) \subseteq (map \ Low) \cap bitmap'
    <3>1. FramesOf(b) \subseteq (map \ Low) \cap bitmap
      BY <1>1 DEF IInv, BlocksSound
    <3>2. \A c \in B : FramesOf(b) \cap FramesOf(c) = {}
      BY <1>1 DEF IInv, BlocksSound
    <3>3. FramesOf(b) \cap held = {}
      BY <3>2
    <3>4. QED
      BY <3>1, <3>3, <1>1, <1>4
  <2>2. ASSUME NEW b \in blocks', NEW c \in blocks', b # c
        PROVE  FramesOf(b) \cap FramesOf(c) = {}
    BY <2>2, <1>1 DEF IInv, BlocksSound
  <2>3. QED
    BY <2>1, <2>2, Zenon DEF BlocksSound, Low
<1>8. NothingLost'
  <2>1. UNION {FramesOf(b) : b \in blocks} = (UNION {FramesOf(b) : b \in blocks'}) \cup held
    BY <1>1
  <2>2. map \ Low = (FrameSet \ bitmap) \cup UNION {FramesOf(b) : b \in blocks}
    BY DEF IInv, NothingLost
  <2>3. FrameSet \ bitmap' = (FrameSet \ bitmap) \cup held
    BY <1>1, <1>2, <1>3, <1>4
  <2>4. map \ Low = (FrameSet \ bitmap') \cup UNION {FramesOf(b) : b \in blocks'}
    BY <2>1, <2>2, <2>3
  <2>5. QED
    BY <2>4 DEF NothingLost, Low
<1>9. CounterExact'
  <2>1. FrameSet \ bitmap' = (FrameSet \ bitmap) \cup held
    BY <1>1, <1>2, <1>3, <1>4
  <2>2. held \in SUBSET FrameSet /\ FrameSet \ bitmap \in SUBSET FrameSet
    BY <1>2, <1>3
  <2>3. IsFiniteSet(held) /\ IsFiniteSet(FrameSet \ bitmap)
    BY <2>2, FramesFinite
  <2>4. (FrameSet \ bitmap) \cap held = {}
    BY <1>2
  <2>5. Cardinality(FrameSet \ bitmap')
          = Cardinality(FrameSet \ bitmap) + Cardinality(held) - Cardinality({})
    BY <2>1, <2>3, <2>4, FS_Union, Zenon
  <2>6. Cardinality({}) = 0
    BY FS_EmptySet
  <2>7. Cardinality(held) \in Nat /\ Cardinality(FrameSet \ bitmap) \in Nat
    BY <2>3, FS_CardinalityType
  <2>8. given \cap bitmap = held
    BY <1>2, <1>4
  <2>9. freeFrames' = Cardinality(FrameSet \ bitmap) + Cardinality(held)
    BY <1>1, <2>8 DEF IInv, CounterExact
  <2>10. QED
    BY <2>5, <2>6, <2>7, <2>9 DEF CounterExact, FrameSet
<1>10. freeFrames' \in 0 .. FrameCount
  <2>1. FrameSet \ bitmap' \in SUBSET FrameSet
    OBVIOUS
  <2>2. QED
    BY <2>1, <1>9, FramesFinite DEF CounterExact, FrameSet
<1>11. QED
  BY <1>5, <1>6, <1>7, <1>8, <1>9, <1>10

(* Frames::Init establishes the invariant, whatever the memory map says. *)
LEMMA InitIInv == Init => IInv
<1> SUFFICES ASSUME Init PROVE IInv
  OBVIOUS
<1>1. map \in SUBSET FrameSet
  BY MapAssumption DEF Init
<1>2. /\ bitmap = (FrameSet \ map) \cup Low
      /\ freeFrames = Cardinality(map \ Low)
      /\ blocks = {}
      /\ game = "none"
  BY DEF Init
<1>3. Low \subseteq FrameSet
  BY DEF Low
<1>4. FrameSet \ bitmap = map \ Low
  BY <1>1, <1>2, <1>3
<1>5. CounterExact
  BY <1>2, <1>4 DEF CounterExact
<1>6. freeFrames \in 0 .. FrameCount
  <2>1. map \ Low \in SUBSET FrameSet
    BY <1>1
  <2>2. QED
    BY <2>1, <1>2, FramesFinite
<1>7. TypeOK
  BY <1>1, <1>2, <1>3, <1>6 DEF TypeOK, Games
<1>8. BlocksSound
  BY <1>2 DEF BlocksSound
<1>9. NothingLost
  BY <1>2, <1>4 DEF NothingLost
<1>10. GamesLeaveNothing
  BY <1>2 DEF GamesLeaveNothing
<1>11. QED
  BY <1>5, <1>7, <1>8, <1>9, <1>10 DEF IInv

(* Every step keeps the invariant. *)
LEMMA NextIInv == IInv /\ [Next]_vars => IInv'
<1> SUFFICES ASSUME IInv, [Next]_vars PROVE IInv'
  OBVIOUS
<1>1. map \in SUBSET FrameSet /\ game \in Games
  BY DEF IInv, TypeOK
<1>2. ASSUME NEW o \in {"table", "heap"}, NEW n \in Nat \ {0}, AllocFrames(o, n),
             game = "none", UNCHANGED <<map, game>>
      PROVE  IInv'
  <2>1. o \in Owners
    BY DEF Owners
  <2>2. /\ bitmap' \in SUBSET FrameSet
        /\ freeFrames' \in 0 .. FrameCount
        /\ blocks' \in SUBSET [owner : Owners, first : FrameSet, count : Nat \ {0}]
        /\ BlocksSound' /\ NothingLost' /\ CounterExact'
    BY <1>2, <2>1, AllocKeeps
  <2>3. TypeOK'
    BY <1>1, <1>2, <2>2 DEF TypeOK, FrameSet
  <2>4. GamesLeaveNothing'
    BY <1>2 DEF IInv, GamesLeaveNothing, AllocFrames, Block
  <2>5. QED
    BY <2>2, <2>3, <2>4 DEF IInv
<1>3. ASSUME NEW o \in {"code", "arena"}, NEW n \in Nat \ {0}, AllocFrames(o, n),
             game' \in Games \ {"none"}, UNCHANGED map
      PROVE  IInv'
  <2>1. o \in Owners
    BY DEF Owners
  <2>2. /\ bitmap' \in SUBSET FrameSet
        /\ freeFrames' \in 0 .. FrameCount
        /\ blocks' \in SUBSET [owner : Owners, first : FrameSet, count : Nat \ {0}]
        /\ BlocksSound' /\ NothingLost' /\ CounterExact'
    BY <1>3, <2>1, AllocKeeps
  <2>3. TypeOK'
    BY <1>1, <1>3, <2>2 DEF TypeOK, FrameSet
  <2>4. GamesLeaveNothing'
    BY <1>3 DEF GamesLeaveNothing
  <2>5. QED
    BY <2>2, <2>3, <2>4 DEF IInv
<1>4. CASE NewTable
  BY <1>2, <1>4 DEF NewTable
<1>5. CASE HeapInit
  BY <1>2, <1>5, SizeAssumption DEF HeapInit
<1>6. ASSUME NEW n \in CodeSizes, StartNative(n)
      PROVE  IInv'
  BY <1>3, <1>6, SizeAssumption DEF StartNative, Games
<1>7. CASE TakeArena
  BY <1>1, <1>3, <1>7, SizeAssumption DEF TakeArena
<1>8. CASE StartScript
  BY <1>8 DEF StartScript, IInv, TypeOK, Games, BlocksSound, NothingLost, CounterExact,
              GamesLeaveNothing, Low, FrameSet
<1>9. CASE EndGame
  <2>1. GameBlocks \in SUBSET blocks
    BY DEF GameBlocks, OwnedBy
  <2>2. /\ bitmap' \in SUBSET FrameSet
        /\ freeFrames' \in 0 .. FrameCount
        /\ blocks' \in SUBSET [owner : Owners, first : FrameSet, count : Nat \ {0}]
        /\ BlocksSound' /\ NothingLost' /\ CounterExact'
    BY <1>9, <2>1, FreeKeeps DEF EndGame
  <2>3. TypeOK'
    BY <1>1, <1>9, <2>2 DEF TypeOK, FrameSet, EndGame, Games
  <2>4. blocks' = blocks \ GameBlocks
    BY <1>9 DEF EndGame, FreeBlocks
  <2>5. \A b \in blocks' : b.owner \in {"table", "heap"}
    BY <2>4 DEF GameBlocks, OwnedBy, IInv, TypeOK, Owners
  <2>6. QED
    BY <2>2, <2>3, <2>5 DEF IInv, GamesLeaveNothing
<1>10. CASE UNCHANGED vars
  BY <1>10 DEF vars, IInv, TypeOK, BlocksSound, NothingLost, CounterExact,
               GamesLeaveNothing, Low, FrameSet
<1>11. QED
  BY <1>4, <1>5, <1>6, <1>7, <1>8, <1>9, <1>10 DEF Next

(* The conjunction of the invariants holds in every reachable state. *)
THEOREM Invariance == Spec => []IInv
BY InitIInv, NextIInv, PTL DEF Spec

(* Type correctness of the allocator, Frames::freeFrames never leaving the *)
(* range of the bitmap.                                                    *)
THEOREM TypeCorrect == Spec => []TypeOK
<1>1. IInv => TypeOK
  BY DEF IInv
<1>2. QED
  BY <1>1, Invariance, PTL

(* Frames::Alloc never hands out a frame twice, nor one that is not memory. *)
THEOREM BlocksAlwaysSound == Spec => []BlocksSound
<1>1. IInv => BlocksSound
  BY DEF IInv
<1>2. QED
  BY <1>1, Invariance, PTL

(* Frames::Alloc and Frames::Free lose no frame. *)
THEOREM NothingEverLost == Spec => []NothingLost
<1>1. IInv => NothingLost
  BY DEF IInv
<1>2. QED
  BY <1>1, Invariance, PTL

(* Frames::freeFrames is always the number of clear bits. *)
THEOREM CounterAlwaysExact == Spec => []CounterExact
<1>1. IInv => CounterExact
  BY DEF IInv
<1>2. QED
  BY <1>1, Invariance, PTL

(* RunImage and Script::FreeArena give back all a game has taken. *)
THEOREM GamesAlwaysLeaveNothing == Spec => []GamesLeaveNothing
<1>1. IInv => GamesLeaveNothing
  BY DEF IInv
<1>2. QED
  BY <1>1, Invariance, PTL

---------------------------------------------------------------------------
(* Boot *)

USE BootAssumption

Steps ==
  {"gop", "back", "size", "mapbuffer", "map", "bitmap", "lastmap", "exit", "tables", "heap",
   "nvme", "identify", "queues", "part", "shell"}

Firmware == [size : Nat, key : Nat, inCharge : BOOLEAN]

BootTypeOK ==
  /\ pc \in Steps
  /\ fw \in Firmware
  /\ memoryMap \in [room : Int, holds : Int, key : Int]
  /\ frames \in BOOLEAN /\ ownTables \in BOOLEAN /\ heap \in BOOLEAN
  /\ part \in BOOLEAN /\ fs \in BOOLEAN
  /\ drive \in [nsid : BOOLEAN, blockSize : BOOLEAN, io : BOOLEAN]
  /\ trap \in {"none", "gop", "pool", "submit", "division"}
  /\ typed \in 0 .. MaxCommands

BeforeDrive ==
  {"gop", "back", "size", "mapbuffer", "map", "bitmap", "lastmap", "exit", "tables", "heap"}

(* What is ready stands on what was brought up before it. *)
Brought ==
  /\ pc \in BeforeDrive => ~heap
  /\ pc \notin {"part", "shell"} => ~drive.io
  /\ pc # "shell" => ~part /\ ~fs
  /\ heap => frames
  /\ pc \in {"identify", "queues", "part"} => heap
  /\ pc \in {"queues", "part"} => drive.nsid /\ drive.blockSize
  /\ pc = "part" => drive.io
  /\ drive.io => drive.nsid /\ drive.blockSize /\ heap
  /\ drive.blockSize => drive.nsid
  /\ part \/ fs => drive.io

Half == trap = "submit" => drive.nsid /\ ~drive.io

(* The firmware's map grows at most twice behind the kernel's room for it, *)
(* and is no longer changed once the kernel has read it the last time.     *)
MapFollows ==
  (Running /\ memoryMap.room >= 0) =>
    /\ pc = "mapbuffer" => fw.size + 2 * PoolGrowth <= memoryMap.room
    /\ pc \in {"map", "bitmap"} => fw.size + PoolGrowth <= memoryMap.room
    /\ pc = "lastmap" => fw.size <= memoryMap.room
    /\ pc = "exit" => memoryMap.holds = fw.key /\ memoryMap.key = fw.key
    /\ pc \in AfterExit => ~fw.inCharge /\ memoryMap.holds = fw.key

Ready == BootTypeOK /\ Brought /\ Half /\ trap # "division"

(* AllocatePool keeps the firmware's record in shape. *)
LEMMA PoolSound ==
  ASSUME fw \in Firmware, Pool
  PROVE  /\ fw' \in Firmware
         /\ fw'.size <= fw.size + PoolGrowth
         /\ fw'.inCharge = fw.inCharge
<1>1. PICK more \in 0 .. PoolGrowth : fw' = [fw EXCEPT !.size = @ + more, !.key = @ + 1]
  BY DEF Pool
<1>2. fw' = [size |-> fw.size + more, key |-> fw.key + 1, inCharge |-> fw.inCharge]
  BY <1>1 DEF Firmware
<1>3. QED
  BY <1>2 DEF Firmware

(* GetMemoryMap keeps the room. *)
LEMMA MapGotSound ==
  ASSUME fw \in Firmware, memoryMap \in [room : Int, holds : Int, key : Int]
  PROVE  /\ MapGot \in [room : Int, holds : Int, key : Int]
         /\ MapGot.room = memoryMap.room
         /\ fw.size <= memoryMap.room => MapGot.holds = fw.key /\ MapGot.key = fw.key
<1>1. CASE fw.size <= memoryMap.room
  <2>1. MapGot = [room |-> memoryMap.room, holds |-> fw.key, key |-> fw.key]
    BY <1>1 DEF MapGot
  <2>2. QED
    BY <2>1 DEF Firmware
<1>2. CASE ~(fw.size <= memoryMap.room)
  BY <1>2 DEF MapGot
<1>3. QED
  BY <1>1, <1>2

(* The size of a block is only asked of a namespace that is known. *)
LEMMA IdentifiedSound ==
  ASSUME NEW found \in Identified
  PROVE  /\ found.nsid \in BOOLEAN /\ found.blockSize \in BOOLEAN
         /\ found.blockSize => found.nsid
<1>1. \/ found = [nsid |-> FALSE, blockSize |-> FALSE]
      \/ found = [nsid |-> TRUE, blockSize |-> FALSE]
      \/ found = [nsid |-> TRUE, blockSize |-> TRUE]
  BY Zenon DEF Identified
<1>2. CASE found = [nsid |-> FALSE, blockSize |-> FALSE]
  BY <1>2, Zenon
<1>3. CASE found = [nsid |-> TRUE, blockSize |-> FALSE]
  BY <1>3, Zenon
<1>4. CASE found = [nsid |-> TRUE, blockSize |-> TRUE]
  BY <1>4, Zenon
<1>5. QED
  BY <1>1, <1>2, <1>3, <1>4

(* Nothing is up when the firmware starts the kernel. *)
LEMMA InitReady == BootInit => Ready
<1> SUFFICES ASSUME BootInit PROVE Ready
  OBVIOUS
<1>1. PICK size \in MapSizes : fw = [size |-> size, key |-> 0, inCharge |-> TRUE]
  BY DEF BootInit
<1>2. fw \in Firmware
  BY <1>1 DEF Firmware
<1>3. memoryMap \in [room : Int, holds : Int, key : Int]
  BY DEF BootInit
<1>4. drive \in [nsid : BOOLEAN, blockSize : BOOLEAN, io : BOOLEAN] /\ ~drive.io /\ ~drive.blockSize
  BY DEF BootInit
<1>5. BootTypeOK
  <2>1. typed \in 0 .. MaxCommands
    BY DEF BootInit
  <2>2. QED
    BY <1>2, <1>3, <1>4, <2>1 DEF BootInit, BootTypeOK, Steps
<1>6. Brought /\ Half /\ trap # "division"
  BY <1>4 DEF BootInit, Brought, Half, BeforeDrive
<1>7. QED
  BY <1>5, <1>6 DEF Ready

(* Each step of the boot, and each command, stands on what came up before. *)
LEMMA NextReady == Ready /\ [BootNext]_bootVars => Ready'
<1> SUFFICES ASSUME Ready, [BootNext]_bootVars PROVE Ready'
  OBVIOUS
<1> USE DEF Ready, BootTypeOK, Brought, Half, Steps, BeforeDrive, At, Running, memory, volume, bootVars, Crash, Spare, Typed, Asks, Asked, Parse, Answers, Found, InRange
<1>0. CASE Locate
  BY <1>0 DEF Locate
<1>1. CASE BackBuffer
  BY <1>1, PoolSound DEF BackBuffer
<1>2. CASE MapSize
  <2>1. memoryMap' = [room |-> fw.size + 4, holds |-> memoryMap.holds, key |-> memoryMap.key]
    BY <1>2 DEF MapSize
  <2>2. memoryMap' \in [room : Int, holds : Int, key : Int]
    BY <2>1 DEF Firmware
  <2>3. QED
    BY <1>2, <2>2 DEF MapSize
<1>3. CASE MapBuffer
  <2>1. NoBuffer \in [room : Int, holds : Int, key : Int]
    BY DEF NoBuffer
  <2>2. QED
    BY <1>3, <2>1, PoolSound DEF MapBuffer
<1>4. CASE MapForBitmap
  BY <1>4, MapGotSound DEF MapForBitmap
<1>5. CASE Bitmap
  BY <1>5, PoolSound DEF Bitmap
<1>6. CASE LastMap
  BY <1>6, MapGotSound DEF LastMap
<1>7. CASE ExitBootServices
  BY <1>7 DEF ExitBootServices, Firmware
<1>8. CASE Tables
  BY <1>8 DEF Tables
<1>9. CASE MakeHeap
  BY <1>9 DEF MakeHeap
<1>10. CASE NvmeInit
  BY <1>10 DEF NvmeInit
<1>11. CASE IdentifyAll
  <2>1. PICK found \in Identified :
          /\ drive' = [drive EXCEPT !.nsid = found.nsid, !.blockSize = found.blockSize]
          /\ At("identify", IF found.blockSize THEN "queues" ELSE "shell")
    BY <1>11 DEF IdentifyAll
  <2>2. /\ found.nsid \in BOOLEAN /\ found.blockSize \in BOOLEAN
        /\ found.blockSize => found.nsid
    BY <2>1, IdentifiedSound
  <2>3. drive' = [nsid |-> found.nsid, blockSize |-> found.blockSize, io |-> FALSE]
    BY <2>1
  <2>4. QED
    BY <1>11, <2>1, <2>2, <2>3 DEF IdentifyAll
<1>12. CASE CreateIoQueues
  BY <1>12 DEF CreateIoQueues
<1>13. CASE Mount
  BY <1>13 DEF Mount
<1>14. CASE CmdRead
  BY <1>14 DEF CmdRead
<1>15. CASE CmdTable
  BY <1>15 DEF CmdTable
<1>16. CASE CmdMount
  <2>1. PICK ok \in Parse : Asked(ok, TRUE) /\ part' \in Found(ok)
    BY <1>16 DEF CmdMount
  <2>2. /\ ok = "ok" => drive.io /\ drive.nsid
        /\ ok = "crash" => ~drive.io /\ drive.nsid
        /\ trap' \in {trap, "submit"} /\ (trap' = "submit" => ok = "crash")
    BY <1>16, <2>1 DEF CmdMount
  <2>3. part' \in BOOLEAN /\ (part' => ok = "ok")
    BY <2>1
  <2>4. UNCHANGED <<pc, fw, memoryMap, memory, drive, fs>> /\ typed' \in 0 .. MaxCommands /\ pc = "shell"
    BY <1>16 DEF CmdMount
  <2>5. BootTypeOK'
    BY <2>2, <2>3, <2>4
  <2>6. Brought' /\ Half' /\ trap' # "division"
    BY <2>2, <2>3, <2>4
  <2>7. QED
    BY <2>5, <2>6
<1>17. CASE CmdPart
  BY <1>17 DEF CmdPart
<1>18. CASE CmdFormat
  BY <1>18 DEF CmdFormat
<1>19. CASE Stopped
  BY <1>19 DEF Stopped
<1>20. CASE UNCHANGED bootVars
  BY <1>20 DEF bootVars
<1>21. QED
  BY <1>0, <1>1, <1>2, <1>3, <1>4, <1>5, <1>6, <1>7, <1>8, <1>9, <1>10, <1>11, <1>12, <1>13, <1>14, <1>15, <1>16, <1>17, <1>18, <1>19, <1>20 DEF BootNext

(* As long as the spare room covers the two pools behind MapSize, the map  *)
(* is read whole, and the last reading is of the map ExitBootServices is   *)
(* asked about.                                                            *)
LEMMA InitMap == BootInit => MapFollows
BY DEF BootInit, MapFollows, AfterExit

(* The kernel's copy of the map keeps up, pool by pool. *)
LEMMA NextMap ==
  ASSUME 2 * PoolGrowth <= Spare, BootTypeOK, MapFollows, [BootNext]_bootVars
  PROVE  MapFollows'
<1>1. fw.size \in Nat /\ memoryMap.room \in Int /\ fw \in Firmware
  BY DEF BootTypeOK, Firmware
<1> USE DEF MapFollows, AfterExit, At, Running, Crash, bootVars
<1>2. CASE Locate \/ BackBuffer
  BY <1>2 DEF Locate, BackBuffer
<1>3. CASE MapSize
  <2>1. memoryMap'.room = fw.size + Spare
    BY <1>3 DEF MapSize, BootTypeOK
  <2>2. QED
    BY <1>1, <1>3, <2>1 DEF MapSize, Spare
<1>4. CASE MapBuffer
  <2>1. CASE Pool /\ UNCHANGED <<memoryMap, memory, volume, trap, typed>>
    <3>1. fw'.size \in Nat /\ fw'.size <= fw.size + PoolGrowth
      BY <1>1, <2>1, PoolSound DEF Firmware
    <3>2. QED
      BY <1>1, <1>4, <2>1, <3>1 DEF MapBuffer
  <2>2. CASE memoryMap' = NoBuffer
    <3>1. memoryMap'.room = -1
      BY <2>2 DEF NoBuffer, BootTypeOK
    <3>2. QED
      BY <3>1
  <2>3. QED
    BY <1>4, <2>1, <2>2 DEF MapBuffer
<1>5. CASE MapForBitmap
  BY <1>1, <1>5, MapGotSound DEF MapForBitmap, BootTypeOK
<1>6. CASE Bitmap
  <2>1. CASE Pool
    <3>1. fw'.size \in Nat /\ fw'.size <= fw.size + PoolGrowth
      BY <1>1, <2>1, PoolSound DEF Firmware
    <3>2. QED
      BY <1>1, <1>6, <3>1 DEF Bitmap
  <2>2. CASE UNCHANGED fw
    BY <1>1, <1>6, <2>2 DEF Bitmap
  <2>3. QED
    BY <1>6, <2>1, <2>2 DEF Bitmap
<1>7. CASE LastMap
  BY <1>1, <1>7, MapGotSound DEF LastMap, BootTypeOK
<1>8. CASE ExitBootServices
  <2>1. fw' = [size |-> fw.size, key |-> fw.key, inCharge |-> memoryMap.key # fw.key]
    BY <1>1, <1>8 DEF ExitBootServices, Firmware
  <2>2. QED
    BY <1>8, <2>1 DEF ExitBootServices
<1>9. CASE Tables \/ MakeHeap \/ NvmeInit \/ IdentifyAll \/ CreateIoQueues \/ Mount
  BY <1>9 DEF Tables, MakeHeap, NvmeInit, IdentifyAll, CreateIoQueues, Mount
<1>10. CASE CmdRead \/ CmdTable \/ CmdMount \/ CmdPart \/ CmdFormat
  BY <1>10 DEF CmdRead, CmdTable, CmdMount, CmdPart, CmdFormat, Typed
<1>11. CASE Stopped \/ UNCHANGED bootVars
  BY <1>11 DEF Stopped
<1>12. QED
  BY <1>2, <1>3, <1>4, <1>5, <1>6, <1>7, <1>8, <1>9, <1>10, <1>11 DEF BootNext

---------------------------------------------------------------------------
(* What is ready always stands on what it needs. *)
LEMMA AlwaysReady == BootSpec => []Ready
BY InitReady, NextReady, PTL DEF BootSpec

(* Every variable stays in its range, however the boot ends.               *)
THEOREM BootTypeCorrect == BootSpec => []BootTypeOK
<1>1. Ready => BootTypeOK
  BY DEF Ready
<1>2. QED
  BY <1>1, AlwaysReady, PTL

(* The kernel takes the machine over with the memory map of that moment,   *)
(* if each of the two pools behind MapSize adds at most two descriptors:   *)
(* four is what kernel.cc asks for besides.                                *)
THEOREM AlwaysHandedOver ==
  ASSUME 2 * PoolGrowth <= Spare
  PROVE  BootSpec => []MemoryHandedOver
<1>1. BootTypeOK /\ MapFollows /\ [BootNext]_bootVars => MapFollows'
  BY NextMap
<1>2. MapFollows => MemoryHandedOver
  BY DEF MapFollows, MemoryHandedOver, Running
<1>3. QED
  BY <1>1, <1>2, InitMap, BootTypeCorrect, PTL DEF BootSpec

(* No command divides by an unknown block size, and only a drive that was  *)
(* given up between its namespace and its queues lets one crash in Submit. *)
THEOREM CrashesAlwaysHalfReady == BootSpec => []CrashesOnlyHalfReady
<1>1. Ready => CrashesOnlyHalfReady
  BY DEF Ready, Half, CrashesOnlyHalfReady
<1>2. QED
  BY <1>1, AlwaysReady, PTL

(* Partition and file system are only mounted on a drive that came up      *)
(* whole, with memory behind it.                                           *)
THEOREM AlwaysMountedOnDrive == BootSpec => []MountedOnDrive
<1>1. Ready => MountedOnDrive
  <2> SUFFICES ASSUME Ready, part \/ fs PROVE drive = [nsid |-> TRUE, blockSize |-> TRUE, io |-> TRUE] /\ heap /\ frames
    BY DEF MountedOnDrive
  <2>1. drive \in [nsid : BOOLEAN, blockSize : BOOLEAN, io : BOOLEAN]
    BY DEF Ready, BootTypeOK
  <2>2. drive.nsid /\ drive.blockSize /\ drive.io /\ heap /\ frames
    BY DEF Ready, Brought
  <2>3. QED
    BY <2>1, <2>2
<1>2. QED
  BY <1>1, AlwaysReady, PTL

=============================================================================

-------------------------------- MODULE Boot --------------------------------
(***************************************************************************)
(* The way from the firmware to the shell: init_kernel (src/kernel.cc; up  *)
(* to the heap, init_runtime of src/Runtime/Runtime.cc is the same), the   *)
(* bring-up of the drive (src/PCIe/storage/nvme.cc), and the shell         *)
(* commands that use the drive whatever became of it.                      *)
(*                                                                         *)
(* Every step may fail.  init_kernel asks for no status of the firmware:   *)
(* it goes on with the null pointer it was left, which either crashes or   *)
(* does not, and it goes on to the shell whatever the drive answers.       *)
(***************************************************************************)
EXTENDS Integers

CONSTANTS
  MapSizes,    \* descriptors the firmware's memory map may have at first
  PoolGrowth,  \* descriptors AllocatePool may add to it
  MaxCommands  \* bound on commands typed

ASSUME BootAssumption ==
  MapSizes \subseteq Nat /\ PoolGrowth \in Nat /\ MaxCommands \in Nat

VARIABLES
  pc,          \* the step of init_kernel, then "shell"
  fw,          \* the firmware: size of its memory map, key, whether it is in charge
  memoryMap,   \* room, which of the firmware's maps it holds, mapKey
  frames,      \* Frames::bitmap is there
  ownTables, heap,   \* Paging::ownTables; Heap has memory
  drive,       \* nsid and blockSize known; io has its queues
  part, fs,    \* Part::mounted, EnFS::mounted
  trap,        \* what crashed, or "none"
  typed        \* commands typed so far

bootVars == <<pc, fw, memoryMap, frames, ownTables, heap, drive, part, fs, trap, typed>>

memory == <<frames, ownTables, heap>>
volume == <<drive, part, fs>>

Running == trap = "none"
At(step, next) == pc = step /\ pc' = next /\ Running
Crash(why) == trap' = why /\ UNCHANGED <<fw, memory, volume, typed>>

---------------------------------------------------------------------------
(* The firmware *)

(* AllocatePool: every success makes another map. *)
Pool == \E more \in 0 .. PoolGrowth : fw' = [fw EXCEPT !.size = @ + more, !.key = @ + 1]

(* GetMemoryMap: nothing is filled in if there is not enough room.  mapSize *)
(* is then what would be needed.                                            *)
MapGot == IF fw.size <= memoryMap.room THEN [memoryMap EXCEPT !.holds = fw.key, !.key = fw.key] ELSE memoryMap

(* The graphics protocol; if there is none its mode is read at address 0. *)
Locate ==
  /\ At("gop", "back")
  /\ \/ UNCHANGED <<fw, memoryMap, memory, volume, trap, typed>>
     \/ UNCHANGED memoryMap /\ Crash("gop")

(* The back buffer; its status is not looked at before it is cleared. *)
BackBuffer ==
  /\ At("back", "size")
  /\ UNCHANGED memoryMap
  /\ \/ (Pool \/ UNCHANGED fw) /\ UNCHANGED <<memory, volume, trap, typed>>
     \/ Crash("pool")

(* Faulty variant of Spare: room for what one pool adds. *)
SpareOne == 2

(* mapSize += 4 * descriptorSize *)
Spare == 4

MapSize ==
  /\ At("size", "mapbuffer")
  /\ memoryMap' = [memoryMap EXCEPT !.room = fw.size + Spare]
  /\ UNCHANGED <<fw, memory, volume, trap, typed>>

(* Without a buffer no call fills one in, and what is at address 0 is read. *)
NoBuffer == [memoryMap EXCEPT !.room = -1]

MapBuffer ==
  /\ At("mapbuffer", "map")
  /\ \/ Pool /\ UNCHANGED <<memoryMap, memory, volume, trap, typed>>
     \/ memoryMap' = NoBuffer /\ UNCHANGED <<fw, memory, volume, trap, typed>>
     \/ memoryMap' = NoBuffer /\ Crash("pool")

MapForBitmap ==
  /\ At("map", "bitmap")
  /\ memoryMap' = MapGot
  /\ UNCHANGED <<fw, memory, volume, trap, typed>>

(* Without memory for the bitmap there will be no frames. *)
Bitmap ==
  /\ At("bitmap", "lastmap")
  /\ \/ Pool /\ frames' = TRUE
     \/ frames' = FALSE /\ UNCHANGED fw
  /\ UNCHANGED <<memoryMap, ownTables, heap, volume, trap, typed>>

LastMap ==
  /\ At("lastmap", "exit")
  /\ memoryMap' = MapGot
  /\ UNCHANGED <<fw, memory, volume, trap, typed>>

(* ExitBootServices refuses a key that is not that of its map. *)
ExitBootServices ==
  /\ At("exit", "tables")
  /\ fw' = [fw EXCEPT !.inCharge = memoryMap.key # fw.key]
  /\ UNCHANGED <<memoryMap, memory, volume, trap, typed>>

---------------------------------------------------------------------------
(* Memory: Frames::Init, BuildKernelTables and Activate, Heap::Init *)

Tables ==
  /\ At("tables", "heap")
  /\ ownTables' \in (IF frames THEN BOOLEAN ELSE {FALSE})
  /\ UNCHANGED <<fw, memoryMap, frames, heap, volume, trap, typed>>

MakeHeap ==
  /\ At("heap", "nvme")
  /\ heap' \in (IF frames THEN BOOLEAN ELSE {FALSE})
  /\ UNCHANGED <<fw, memoryMap, frames, ownTables, volume, trap, typed>>

---------------------------------------------------------------------------
(* The drive *)

(* Nvme::Init: there is a device with registers, they can be mapped, the   *)
(* controller becomes disabled and enabled in time, there is a heap.       *)
NvmeInit ==
  /\ \/ heap /\ At("nvme", "identify")
     \/ At("nvme", "shell")
  /\ UNCHANGED <<fw, memoryMap, memory, volume, trap, typed>>

(* IdentifyAll: what its three commands, and the buffer they need, leave   *)
(* behind.  The second command makes nsid, the third blockSize.            *)
Identified ==
  {[nsid |-> FALSE, blockSize |-> FALSE], [nsid |-> TRUE, blockSize |-> FALSE],
   [nsid |-> TRUE, blockSize |-> TRUE]}

IdentifyAll ==
  /\ \E found \in Identified :
       /\ drive' = [drive EXCEPT !.nsid = found.nsid, !.blockSize = found.blockSize]
       /\ At("identify", IF found.blockSize THEN "queues" ELSE "shell")
  /\ UNCHANGED <<fw, memoryMap, memory, part, fs, trap, typed>>

(* CreateIoQueues: the queues are ready on this side before the controller *)
(* is told of them; without memory for them there are none.                *)
CreateIoQueues ==
  /\ \/ At("queues", "part") /\ drive' = [drive EXCEPT !.io = TRUE]
     \/ At("queues", "shell") /\ \E ready \in BOOLEAN : drive' = [drive EXCEPT !.io = ready]
  /\ UNCHANGED <<fw, memoryMap, memory, part, fs, trap, typed>>

(* Submit: without queues it divides by their number of entries.  Queues   *)
(* whose creation was given up may be there by now.                        *)
Answers == IF drive.io THEN {"ok", "failed"} ELSE {"crash"}

(* Faulty variant of Parse: it goes ahead without a namespace. *)
ParseUnasked == Answers

(* Gpt::Parse, up to what the table says. *)
Parse == IF drive.nsid THEN Answers ELSE {"failed"}

(* A command asks the drive, and does nothing more if that fails; "sized"  *)
(* ones divide by the size of a block when it succeeds.                    *)
Asked(ok, sized) ==
  trap' = IF ok = "crash" THEN "submit"
          ELSE IF ok = "ok" /\ sized /\ ~drive.blockSize THEN "division" ELSE trap

(* Faulty variant of Found: a table that cannot be read leaves the         *)
(* partitions of before.                                                   *)
FoundStale(ok) == BOOLEAN

(* Part::Mount: whether a partition of the type is in the table is for the *)
(* drive to say.                                                           *)
Found(ok) == IF ok = "ok" THEN BOOLEAN ELSE {FALSE}

(* Part::Mount and EnFS::Mount, whose result is what the drive holds. *)
Mount ==
  /\ At("part", "shell")
  /\ \E ok \in Parse : Asked(ok, TRUE) /\ part' \in Found(ok)
  /\ fs' \in (IF part' THEN BOOLEAN ELSE {FALSE})
  /\ UNCHANGED <<fw, memoryMap, memory, drive, typed>>

---------------------------------------------------------------------------
(* Commands *)

Typed == pc = "shell" /\ Running /\ typed < MaxCommands /\ typed' = typed + 1

Asks(answers, sized) == \E ok \in answers : Asked(ok, sized)

(* nvmeread; gpt, free, mkpart: the table is read first. *)
CmdRead ==
  /\ Typed /\ Asks(IF drive.nsid /\ heap THEN Answers ELSE {"failed"}, FALSE)
  /\ UNCHANGED <<pc, fw, memoryMap, memory, volume>>

CmdTable ==
  /\ Typed /\ Asks(Parse, TRUE)
  /\ UNCHANGED <<pc, fw, memoryMap, memory, volume>>

(* mount: Part::Mount, and not EnFS::Mount. *)
CmdMount ==
  /\ Typed /\ \E ok \in Parse : Asked(ok, TRUE) /\ part' \in Found(ok)
  /\ UNCHANGED <<pc, fw, memoryMap, memory, drive, fs>>

(* partread, partwrite, wipepart, ls, rm, ..: Part's functions ask InRange *)
(* before they divide.                                                     *)
InRange == IF part THEN Answers ELSE {"failed"}

CmdPart ==
  /\ Typed /\ Asks(InRange, TRUE)
  /\ UNCHANGED <<pc, fw, memoryMap, memory, volume>>

(* Format has the file system mounted before it writes. *)
CmdFormat ==
  /\ Typed /\ part /\ Asks(InRange, TRUE)
  /\ fs' = TRUE
  /\ UNCHANGED <<pc, fw, memoryMap, memory, drive, part>>

BootInit ==
  /\ pc = "gop"
  /\ \E size \in MapSizes : fw = [size |-> size, key |-> 0, inCharge |-> TRUE]
  /\ memoryMap = [room |-> 0, holds |-> -1, key |-> -1]
  /\ frames = FALSE /\ ownTables = FALSE /\ heap = FALSE
  /\ drive = [nsid |-> FALSE, blockSize |-> FALSE, io |-> FALSE]
  /\ part = FALSE /\ fs = FALSE /\ trap = "none" /\ typed = 0

Stopped == (trap # "none" \/ typed = MaxCommands) /\ UNCHANGED bootVars

BootNext ==
  \/ Locate \/ BackBuffer \/ MapSize \/ MapBuffer \/ MapForBitmap \/ Bitmap \/ LastMap \/ ExitBootServices
  \/ Tables \/ MakeHeap \/ NvmeInit \/ IdentifyAll \/ CreateIoQueues \/ Mount
  \/ CmdRead \/ CmdTable \/ CmdMount \/ CmdPart \/ CmdFormat \/ Stopped

BootSpec == BootInit /\ [][BootNext]_bootVars

---------------------------------------------------------------------------
(* The firmware has let go of the machine, and the map Frames::Init is     *)
(* given is that of this moment: none of the pools counts as free memory.  *)
(* Only where there was no buffer for the map can it be otherwise.         *)
AfterExit == {"tables", "heap", "nvme", "identify", "queues", "part", "shell"}
MemoryHandedOver ==
  (pc \in AfterExit /\ Running /\ memoryMap.room >= 0) => (~fw.inCharge /\ memoryMap.holds = fw.key)

(* Whatever step of the boot failed and whatever is typed then, no command *)
(* divides by a block size nobody knows, and none runs into queues that    *)
(* are not there, with one exception: a drive that was given up between    *)
(* its namespace and its queues, whose namespace number was kept.          *)
CrashesOnlyHalfReady ==
  /\ trap # "division"
  /\ trap = "submit" => (drive.nsid /\ ~drive.io)

(* A mounted partition or file system stands on a namespace, a block size, *)
(* queues and memory.                                                      *)
MountedOnDrive ==
  (part \/ fs) => (drive = [nsid |-> TRUE, blockSize |-> TRUE, io |-> TRUE] /\ heap /\ frames)

=============================================================================

-------------------------------- MODULE EnFS --------------------------------
(***************************************************************************)
(* EnFS, the file system of the Engine partition (src/FileSystem/EnFS.cc), *)
(* with the partition layer it writes through (src/PCIe/storage/Part.cc)   *)
(* and the shell commands that drive it: format, rm, rm --frfr, mount and  *)
(* wipepart (src/shell/Shell.cc).                                          *)
(*                                                                         *)
(* The volume is sector 0 (the superblock), the sectors of the file table  *)
(* and a data area handed out by a bump allocator.  Memory holds a copy of *)
(* the superblock and of the table, which every operation changes first    *)
(* and Flush then writes out: superblock, then table.                      *)
(*                                                                         *)
(* One step of this module is one command sent to the drive, or the code   *)
(* between two of them.  A command may fail, and power may be lost while   *)
(* it is in flight: then any subset of its sectors has been written (a     *)
(* sector is atomic, a command of several sectors is not).                 *)
(*                                                                         *)
(* Lengths are in sectors: byteLenght only matters through the number of   *)
(* sectors it needs and through being zero.  A sector of data is a record  *)
(* naming whose data it is.                                                *)
(***************************************************************************)
EXTENDS Integers, FiniteSets

CONSTANTS
  Names,      \* file names a command may use
  NoName,     \* the name in a free table slot
  Values,     \* payloads a file may be written with
  MaxFiles,   \* ENFS_MAX_FILES, the slots of the table
  PerSector,  \* table slots in one sector
  Sectors,    \* Part::sectors, the size of the partition
  MaxLen,     \* bound on the length of a file, in sectors
  Chunk,      \* sectors in one 4096-byte transfer
  MaxFaults,  \* bound on failed transfers and cut operations
  CountMod    \* 2^32, the range of EnFsSuper.fileCount

ASSUME NameAssumption == NoName \notin Names
ASSUME ValueAssumption == Values # {}
ASSUME SizeAssumption ==
  /\ {MaxFiles, PerSector, Chunk, CountMod} \subseteq Nat \ {0}
  /\ {MaxLen, MaxFaults, Sectors} \subseteq Nat
  /\ MaxFiles % PerSector = 0

Slots == 1 .. MaxFiles
TableSectors == MaxFiles \div PerSector
DataStart == 1 + TableSectors
Addr == 0 .. Sectors - 1

(* A volume with room for its superblock and its table. *)
ASSUME RoomAssumption == DataStart <= Sectors

(* The table sector a slot is stored in. *)
SectorOf(s) == 1 + ((s - 1) \div PerSector)
SlotsOf(k) == {s \in Slots : SectorOf(s) = k}

VARIABLES
  disk,     \* contents of the sectors of the partition
  part,     \* Part::mounted
  mounted,  \* EnFS::mounted
  super,    \* EnFS::super: dataUsed and fileCount
  files,    \* EnFS::files
  op,       \* the command being executed and how far it is
  faults,   \* failed transfers and cut operations so far
  acked,    \* history: what the last completed command promised of a name
  sound     \* history: no event has voided the promises: see RmFrfr, Overlong

vars == <<disk, part, mounted, super, files, op, faults, acked, sound>>

---------------------------------------------------------------------------
(* Values *)

FreeEntry == [used |-> FALSE, name |-> NoName, start |-> 0, len |-> 0]
Entry == [used: BOOLEAN, name: Names \cup {NoName}, start: 0 .. Sectors, len: 0 .. MaxLen]
Super == [dataUsed: 0 .. Sectors, fileCount: 0 .. CountMod - 1]
Table == [Slots -> Entry]

(* A sector holds zeros, the superblock, a part of the table or file data. *)
Blank == [kind |-> "blank"]
SuperSector(s) == [kind |-> "super", super |-> s]
TableSector(k, t) == [kind |-> "table", ents |-> [s \in SlotsOf(k) |-> t[s]]]
DataSector(n, v, i) == [kind |-> "data", name |-> n, val |-> v, idx |-> i]

(* What is promised of a name: nothing, that no file has it, or a content. *)
Unknown == [st |-> "unknown"]
Absent == [st |-> "absent"]
Stored(v, l) == [st |-> "stored", val |-> v, len |-> l]
Promises == {Unknown, Absent} \cup {Stored(v, l) : v \in Values, l \in 0 .. MaxLen}

Operation ==
  [pc: {"off", "idle", "zero", "data", "super", "table"},
   cmd: {"none", "write", "rm", "format", "wipe"}, name: Names \cup {NoName},
   slot: Slots, val: Values, pos: 0 .. Sectors, left: 0 .. Sectors, len: 0 .. MaxLen]

Idle == [pc |-> "idle", cmd |-> "none", name |-> NoName, slot |-> 1,
         val |-> CHOOSE v \in Values : TRUE, pos |-> 0, left |-> 0, len |-> 0]
Off == [Idle EXCEPT !.pc = "off"]

Min2(a, b) == IF a < b THEN a ELSE b
Max2(a, b) == IF a < b THEN b ELSE a

Used(t) == {s \in Slots : t[s].used}

(* EnFS::Find: the first used slot with the name, 0 when there is none. *)
FindIn(t, n) ==
  LET hits == {s \in Used(t) : t[s].name = n}
  IN  IF hits = {} THEN 0 ELSE CHOOSE s \in hits : \A x \in hits : s <= x

(* Faulty variant of FirstFree: takes the first slot without looking. *)
FirstSlot(t) == 1

(* The slot scan of WriteFile: the first free slot, 0 when there is none. *)
FirstFree(t) ==
  LET free == Slots \ Used(t)
  IN  IF free = {} THEN 0 ELSE CHOOSE s \in free : \A x \in free : s <= x

(* BufferToTable: what the table sectors of the drive say the table is. *)
TableOf(d) ==
  [s \in Slots |-> IF d[SectorOf(s)].kind = "table" THEN d[SectorOf(s)].ents[s] ELSE FreeEntry]

(* The magic and checksum tests of Mount. *)
SuperValid(d) == d[0].kind = "super"

---------------------------------------------------------------------------
(* The drive *)

(* Part::InRange. *)
InRange(pos, n) == part /\ n > 0 /\ pos < Sectors /\ n <= Sectors - pos

(* Faulty variant of Transfer: the table is written before the superblock. *)
TransferTableFirst ==
  CASE op.pc = "zero"  -> [a \in op.pos .. op.pos + Min2(op.left, Chunk) - 1 |-> Blank]
    [] op.pc = "data"  -> [a \in op.pos .. op.pos + Min2(op.left, Chunk) - 1 |->
                             DataSector(op.name, op.val, a - files[op.slot].start)]
    [] op.pc = "super" -> [a \in 1 .. TableSectors |-> TableSector(a, files)]
    [] op.pc = "table" -> [a \in {0} |-> SuperSector(super)]
    [] OTHER           -> [a \in {} |-> Blank]

(* The sectors the command now in flight writes, and what it writes there. *)
(* Part::Zero converts what is left to 32 bits, which changes nothing as   *)
(* long as a partition has less than 2^32 sectors: the model's have.       *)
Transfer ==
  CASE op.pc = "zero"  -> [a \in op.pos .. op.pos + Min2(op.left, Chunk) - 1 |-> Blank]
    [] op.pc = "data"  -> [a \in op.pos .. op.pos + Min2(op.left, Chunk) - 1 |->
                             DataSector(op.name, op.val, a - files[op.slot].start)]
    [] op.pc = "super" -> [a \in {0} |-> SuperSector(super)]
    [] op.pc = "table" -> [a \in 1 .. TableSectors |-> TableSector(a, files)]
    [] OTHER           -> [a \in {} |-> Blank]

InFlight == op.pc \in {"super", "table"} \/ (op.pc \in {"zero", "data"} /\ op.left > 0)

TransferInRange ==
  CASE op.pc \in {"zero", "data"} -> InRange(op.pos, Min2(op.left, Chunk))
    [] op.pc = "super"            -> InRange(0, 1)
    [] OTHER                      -> InRange(1, TableSectors)

(* The entry of the file being written claims more sectors than it was     *)
(* given: a growth refused for want of space left it an old length and no  *)
(* extent, and a later, shorter write has just allocated one.              *)
Overlong ==
  op.pc = "data" /\ files[op.slot].start + files[op.slot].len > DataStart + super.dataUsed

Landed(S) == [a \in Addr |-> IF a \in S THEN Transfer[a] ELSE disk[a]]

---------------------------------------------------------------------------
Init ==
  /\ disk = [a \in Addr |-> Blank]
  /\ part = FALSE
  /\ mounted = FALSE
  /\ super = [dataUsed |-> 0, fileCount |-> 0]
  /\ files = [s \in Slots |-> FreeEntry]
  /\ op = Off
  /\ faults = 0
  /\ acked = [n \in Names |-> Unknown]
  /\ sound = FALSE

Fault == faults < MaxFaults /\ faults' = faults + 1
NoFault == UNCHANGED faults

Promise(n, a) == acked' = [acked EXCEPT ![n] = a]
PromiseAll(a) == acked' = [n \in Names |-> a]

memory == <<part, mounted, super, files>>

(* The memory of a machine that has just been switched on. *)
Forgotten ==
  /\ part' = FALSE
  /\ mounted' = FALSE
  /\ super' = [dataUsed |-> 0, fileCount |-> 0]
  /\ files' = [s \in Slots |-> FreeEntry]

---------------------------------------------------------------------------
(* Boot (init_kernel) and the mount command *)

(* Part::Mount followed by EnFS::Mount, every command answered. *)
Boot ==
  /\ op.pc = "off"
  /\ op' = Idle
  /\ part' = TRUE
  /\ mounted' = SuperValid(disk)
  /\ super' = IF SuperValid(disk) THEN disk[0].super ELSE super
  /\ files' = IF SuperValid(disk) THEN TableOf(disk) ELSE files
  /\ NoFault
  /\ UNCHANGED <<disk, acked, sound>>

(* A command of the boot fails: no partition, or no superblock, or the     *)
(* superblock taken over and no table.                                     *)
BootFails ==
  /\ op.pc = "off"
  /\ op' = Idle
  /\ part' \in BOOLEAN
  /\ super' \in {super} \cup (IF part' /\ SuperValid(disk) THEN {disk[0].super} ELSE {})
  /\ Fault
  /\ UNCHANGED <<disk, mounted, files, acked, sound>>

(* The mount command remounts the partition, never the file system. *)
MountPart ==
  /\ op.pc = "idle"
  /\ \/ part' = TRUE /\ NoFault
     \/ part' = FALSE /\ Fault
  /\ UNCHANGED <<disk, mounted, super, files, op, acked, sound>>

---------------------------------------------------------------------------
(* The commands, up to the first transfer of each *)

Format ==
  /\ op.pc = "idle"
  /\ part
  /\ super' = [dataUsed |-> 0, fileCount |-> 0]
  /\ files' = [s \in Slots |-> FreeEntry]
  /\ mounted' = TRUE
  /\ op' = [Idle EXCEPT !.pc = "super", !.cmd = "format"]
  /\ PromiseAll(Unknown)
  /\ sound' = FALSE
  /\ NoFault
  /\ UNCHANGED <<disk, part>>

(* Faulty variant of Prepared: a file that grows keeps its extent. *)
PreparedInPlace(n, need) ==
  LET s == FindIn(files, n)
  IN  IF s = 0 THEN [FreeEntry EXCEPT !.used = TRUE, !.name = n] ELSE files[s]

(* The entry WriteFile works on, before an extent is allocated for it: the *)
(* extent of a file that grows is given up first.                          *)
Prepared(n, need) ==
  LET s == FindIn(files, n)
  IN  IF s = 0 THEN [FreeEntry EXCEPT !.used = TRUE, !.name = n]
      ELSE [files[s] EXCEPT !.start = IF files[s].len < need THEN 0 ELSE @]

Fits(need) == DataStart + super.dataUsed + need <= Sectors

(* Sectors a file of l sectors of content is given: at least one. *)
Need(l) == Max2(l, 1)

(* EnFS::WriteFile up to its transfers.  When the volume is full the call  *)
(* returns ENFS_NO_SPACE with the entry prepared in memory; when the table *)
(* is full it returns ENFS_NO_SLOT and changes nothing.                    *)
WriteFile(n, v, l) ==
  LET need  == Need(l)
      found == FindIn(files, n)
      slot  == IF found = 0 THEN FirstFree(files) ELSE found
      entry == Prepared(n, need)
      alloc == entry.start = 0 /\ Fits(need)
      start == IF alloc THEN DataStart + super.dataUsed ELSE entry.start
  IN  /\ op.pc = "idle"
      /\ mounted
      /\ slot # 0
      /\ files' = [files EXCEPT ![slot] = [entry EXCEPT !.start = start]]
      /\ super' = [dataUsed  |-> super.dataUsed + (IF alloc THEN need ELSE 0),
                   fileCount |-> (super.fileCount + (IF found = 0 THEN 1 ELSE 0)) % CountMod]
      /\ op' = IF start = 0 THEN Idle
               ELSE [Idle EXCEPT !.pc = "data", !.cmd = "write", !.name = n, !.slot = slot,
                                 !.val = v, !.pos = start, !.left = l, !.len = l]
      /\ Promise(n, Unknown)
      /\ NoFault
      /\ UNCHANGED <<disk, part, mounted, sound>>

(* Faulty variant of RemoveEntry: the entry is forgotten. *)
RemoveNothing(s, n) ==
  /\ super' = [super EXCEPT !.fileCount = (@ + CountMod - 1) % CountMod]
  /\ op' = [Idle EXCEPT !.pc = "super", !.cmd = "rm", !.name = n]
  /\ UNCHANGED files

(* EnFS::Remove of the entry in a slot, up to Flush. *)
RemoveEntry(s, n) ==
  /\ files' = [files EXCEPT ![s] = FreeEntry]
  /\ super' = [super EXCEPT !.fileCount = (@ + CountMod - 1) % CountMod]
  /\ op' = [Idle EXCEPT !.pc = "super", !.cmd = "rm", !.name = n]

Rm(n) ==
  LET s == FindIn(files, n)
  IN  /\ op.pc = "idle"
      /\ mounted
      /\ s # 0
      /\ RemoveEntry(s, n)
      /\ Promise(n, Unknown)
      /\ NoFault
      /\ UNCHANGED <<disk, part, mounted, sound>>

(* rm --frfr zeroes the sectors of the file first.  An entry without an    *)
(* extent makes it zero the start of the volume instead.                   *)
RmFrfr(n) ==
  LET s == FindIn(files, n)
  IN  /\ op.pc = "idle"
      /\ mounted
      /\ s # 0
      /\ op' = [Idle EXCEPT !.pc = "zero", !.cmd = "rm", !.name = n, !.slot = s,
                            !.pos = files[s].start, !.left = Max2(files[s].len, 1)]
      /\ Promise(n, Unknown)
      /\ sound' = (sound /\ files[s].start # 0)
      /\ NoFault
      /\ UNCHANGED <<disk, memory>>

WipePart ==
  /\ op.pc = "idle"
  /\ part
  /\ op' = [Idle EXCEPT !.pc = "zero", !.cmd = "wipe", !.left = Sectors]
  /\ PromiseAll(Unknown)
  /\ sound' = FALSE
  /\ NoFault
  /\ UNCHANGED <<disk, memory>>

---------------------------------------------------------------------------
(* The transfers of a command that are answered without an error *)

(* Faulty variant of ChunkDone: the loop does not advance. *)
ChunkAgain ==
  /\ op.pc \in {"zero", "data"}
  /\ op.left > 0
  /\ TransferInRange
  /\ disk' = Landed(DOMAIN Transfer)
  /\ NoFault
  /\ UNCHANGED <<memory, op, acked, sound>>

(* One chunk of Part::Zero, or of the data of WriteFile. *)
ChunkDone ==
  /\ op.pc \in {"zero", "data"}
  /\ op.left > 0
  /\ TransferInRange
  /\ disk' = Landed(DOMAIN Transfer)
  /\ op' = [op EXCEPT !.pos = @ + Min2(op.left, Chunk), !.left = @ - Min2(op.left, Chunk)]
  /\ NoFault
  /\ UNCHANGED <<memory, acked, sound>>

(* The data is on the drive: set the length, go on to Flush. *)
DataDone ==
  /\ op.pc = "data"
  /\ op.left = 0
  /\ files' = [files EXCEPT ![op.slot].len = op.len]
  /\ op' = [op EXCEPT !.pc = "super"]
  /\ NoFault
  /\ UNCHANGED <<disk, part, mounted, super, acked, sound>>

(* Part::Zero returns true: rm goes on to Remove, wipepart is done. *)
ZeroDone ==
  /\ op.pc = "zero"
  /\ op.left = 0
  /\ IF op.cmd = "rm" THEN RemoveEntry(op.slot, op.name)
     ELSE op' = Idle /\ UNCHANGED <<super, files>>
  /\ NoFault
  /\ UNCHANGED <<disk, part, mounted, acked, sound>>

FlushSuper ==
  /\ op.pc = "super"
  /\ TransferInRange
  /\ disk' = Landed(DOMAIN Transfer)
  /\ op' = [op EXCEPT !.pc = "table"]
  /\ NoFault
  /\ UNCHANGED <<memory, acked, sound>>

(* The last transfer of every operation: it returns ENFS_OK. *)
FlushTable ==
  /\ op.pc = "table"
  /\ TransferInRange
  /\ disk' = Landed(DOMAIN Transfer)
  /\ op' = Idle
  /\ \/ op.cmd = "write" /\ Promise(op.name, Stored(op.val, op.len)) /\ UNCHANGED sound
     \/ op.cmd = "rm" /\ Promise(op.name, Absent) /\ UNCHANGED sound
     \/ op.cmd = "format" /\ PromiseAll(Absent) /\ sound' = TRUE
  /\ NoFault
  /\ UNCHANGED memory

(* A transfer is refused by Part, or fails on the drive after some of its  *)
(* sectors were written: the operation returns ENFS_IO_FAILED.  An         *)
(* overlong entry stays as it is in memory, and what is written after it   *)
(* lands in sectors it claims.                                             *)
TransferFails ==
  /\ InFlight
  /\ \/ ~TransferInRange /\ UNCHANGED disk /\ NoFault
     \/ /\ TransferInRange
        /\ \E S \in SUBSET DOMAIN Transfer : disk' = Landed(S)
        /\ Fault
  /\ op' = Idle
  /\ sound' = (sound /\ ~Overlong)
  /\ UNCHANGED <<memory, acked>>

PowerLoss ==
  /\ op.pc # "off"
  /\ \/ UNCHANGED disk
     \/ /\ InFlight /\ TransferInRange
        /\ \E S \in SUBSET DOMAIN Transfer : disk' = Landed(S)
  /\ op' = Off
  /\ Forgotten
  /\ IF op.pc = "idle" THEN NoFault ELSE Fault
  /\ UNCHANGED <<acked, sound>>

Command ==
  \/ MountPart
  \/ Format
  \/ WipePart
  \/ \E n \in Names : Rm(n) \/ RmFrfr(n)
  \/ \E n \in Names, v \in Values, l \in 0 .. MaxLen : WriteFile(n, v, l)

(* What the kernel does without a key being pressed. *)
Progress ==
  \/ Boot
  \/ BootFails
  \/ ChunkDone
  \/ DataDone
  \/ ZeroDone
  \/ FlushSuper
  \/ FlushTable
  \/ TransferFails

Next == Command \/ Progress \/ PowerLoss

Spec == Init /\ [][Next]_vars

(* Every command sent to the drive is answered or times out after five     *)
(* seconds (Nvme::Submit), so an operation under way goes on.              *)
FairSpec == Spec /\ WF_vars(Progress)

---------------------------------------------------------------------------
(* Properties *)

(* Superblock, table and data each stay in their part of the volume. *)
DiskOK(d) ==
  /\ DOMAIN d = Addr
  /\ d[0] = Blank \/ (d[0].super \in Super /\ d[0] = SuperSector(d[0].super))
  /\ \A k \in 1 .. TableSectors :
       d[k] = Blank \/ (d[k].ents \in [SlotsOf(k) -> Entry] /\ d[k] = TableSector(k, d[k].ents))
  /\ \A a \in DataStart .. Sectors - 1 :
       d[a] = Blank \/ \E n \in Names, v \in Values, i \in 0 .. MaxLen - 1 : d[a] = DataSector(n, v, i)

TypeOK ==
  /\ DiskOK(disk)
  /\ part \in BOOLEAN
  /\ mounted \in BOOLEAN
  /\ super \in Super
  /\ files \in Table
  /\ op \in Operation
  /\ faults \in 0 .. MaxFaults
  /\ acked \in [Names -> Promises]
  /\ sound \in BOOLEAN

(* EnFS::ReadFile of a name through table t finds the content promised. *)
Reads(t, d, n) ==
  acked[n].st = "stored" =>
    LET s == FindIn(t, n)
    IN  /\ s # 0
        /\ t[s].len = acked[n].len
        /\ t[s].start + t[s].len <= Sectors
        /\ \A i \in 0 .. t[s].len - 1 : d[t[s].start + i] = DataSector(n, acked[n].val, i)

(* A file whose last write returned ok reads back exactly as written from  *)
(* the mounted volume, whatever was done to other files, and whatever      *)
(* failed, in between.                                                     *)
ReadsBack == sound /\ mounted => \A n \in Names : Reads(files, disk, n)

(* Cut the power at any instant: what the next boot will read off the      *)
(* drive still has every file that was reported as written.                *)
CrashDurable == sound => SuperValid(disk) /\ \A n \in Names : Reads(TableOf(disk), disk, n)

(* A file whose removal returned ok stays removed, in memory and for every *)
(* boot to come.  A table of several sectors does not give this: see       *)
(* README.md, "A removed file that comes back".                            *)
RemovedStaysRemoved ==
  sound => \A n \in Names : acked[n].st = "absent" =>
             FindIn(TableOf(disk), n) = 0 /\ (mounted => FindIn(files, n) = 0)

Live(t) == {s \in Used(t) : t[s].start # 0}
Extent(e) == e.start .. e.start + Max2(e.len, 1) - 1

ExtentsApart(t, dataUsed) ==
  /\ \A s \in Live(t) : Extent(t[s]) \subseteq DataStart .. DataStart + dataUsed - 1
  /\ \A r, s \in Live(t) : r # s => Extent(t[r]) \cap Extent(t[s]) = {}

(* No two files share a sector and none lies beyond the bump pointer, in   *)
(* the table the operations work on (where an overlong entry counts with   *)
(* the sectors it was given) ...                                           *)
MemoryExtents ==
  sound /\ mounted =>
    ExtentsApart(IF Overlong THEN [files EXCEPT ![op.slot].len = op.len] ELSE files,
                 super.dataUsed)

(* ... and in every table a power cut can leave on the drive: the pointer  *)
(* the next allocation starts from is never behind an extent in the table. *)
DiskExtents == sound => ExtentsApart(TableOf(disk), disk[0].super.dataUsed)

(* fileCount, kept apart from the table it counts, is the number of files  *)
(* as long as no command failed and no power loss cut an operation short.  *)
CountExact ==
  sound /\ mounted /\ faults = 0 => super.fileCount = Cardinality(Used(files)) % CountMod

(* Superblock and table agree with each other, in memory and for every     *)
(* boot to come, wherever the two writes of Flush are cut short.           *)
MetadataSound == TypeOK /\ MemoryExtents /\ DiskExtents /\ CountExact

(* What the next boot would make of the drive, for the names something is  *)
(* promised of: the drive implements the store its callers rely on.        *)
Recovered(n) ==
  LET t == TableOf(disk)
      s == FindIn(t, n)
  IN  IF s = 0 THEN Absent
      ELSE [st |-> "stored", data |-> [i \in 0 .. t[s].len - 1 |-> disk[t[s].start + i]]]

Content == [n \in Names |-> IF sound /\ acked[n] # Unknown THEN Recovered(n) ELSE Unknown]

Store == INSTANCE FileStore WITH
  content <- Content,
  busy    <- op.name

(* A table that the drive writes in one piece makes EnFS implement         *)
(* FileStore: no operation, failure or power loss changes what will be     *)
(* recovered of any name but the one being operated on.                    *)
ImplementsFileStore == Store!Spec

(* "delete files, frfr wipes data": once rm --frfr has zeroed the file, no *)
(* sector of the drive holds data written under its name.                  *)
FrfrWipesData ==
  [][ZeroDone /\ op.cmd = "rm" => \A a \in Addr : disk[a].kind = "data" => disk[a].name # op.name]_vars

(* Every operation comes back to the prompt. *)
CommandReturns == [](op.pc # "idle" => <>(op.pc \in {"idle", "off"}))

=============================================================================

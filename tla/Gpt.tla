-------------------------------- MODULE Gpt ---------------------------------
(***************************************************************************)
(* The partition table of the drive: Gpt::Parse and Gpt::CreatePartition   *)
(* (src/PCIe/storage/Gpt.cc), and the mkpart and free commands that look   *)
(* for a gap between the partitions (src/shell/Shell.cc).                  *)
(*                                                                         *)
(* The drive holds the table twice, each copy an array of entries and a    *)
(* header with the checksum of its array.  CreatePartition rewrites the    *)
(* array of the backup copy, the header of the backup copy, and the array  *)
(* of the primary copy, in that order; a write may fail or the power may   *)
(* be lost at any of them, part of the chunk then being written.           *)
(*                                                                         *)
(* A checksum is represented by what it is the checksum of.  Headers are   *)
(* always readable: nothing here writes the primary one, and the backup    *)
(* one fills a sector, which is atomic.                                    *)
(***************************************************************************)
EXTENDS Integers, FiniteSets, FiniteSetsExt

CONSTANTS
  NumEntries,   \* hdr.numberOfPartitionEntries
  PerChunk,     \* entries in 4096 bytes: all that Parse looks at
  FirstUsable,  \* hdr.firstUsableLba
  LastUsable,   \* hdr.lastUsableLba
  Align,        \* sectors in a MiB
  Tables,       \* the arrays the drive may hold at the start
  MaxFaults     \* bound on failed writes and power losses

ASSUME SizeAssumption ==
  /\ {NumEntries, PerChunk, Align} \subseteq Nat \ {0}
  /\ NumEntries % PerChunk = 0
  /\ {FirstUsable, LastUsable, MaxFaults} \subseteq Nat
  /\ FirstUsable <= LastUsable

Index == 1 .. NumEntries
Lba == FirstUsable .. LastUsable
Chunks == 0 .. (NumEntries \div PerChunk) - 1
ChunkOf(c) == {i \in Index : (i - 1) \div PerChunk = c}

(* An entry with an empty type GUID is free. *)
Free == [used |-> FALSE, start |-> 0, end |-> 0]
Part(s, e) == [used |-> TRUE, start |-> s, end |-> e]
Entry == {Free} \cup [used: {TRUE}, start: Lba, end: Lba]

ASSUME TablesAssumption == Tables \subseteq [Index -> Entry]

VARIABLES
  primaryArray, primaryCrc,  \* the copy Parse reads
  backupArray, backupCrc,    \* the copy at the end of the drive
  array,    \* the array CreatePartition has built in memory
  stage,    \* the write CreatePartition is at
  chunk,    \* the chunk of that write
  faults,
  kept      \* history: partitions of the start, and those reported created

disk == <<primaryArray, primaryCrc, backupArray, backupCrc>>
gptVars == <<disk, array, stage, chunk, faults, kept>>

Parts(t) == {t[i] : i \in {x \in Index : t[x].used}}

(* Faulty variant of Parsed: the last entry is not looked at. *)
ParsedButLast == {primaryArray[i] : i \in {x \in ChunkOf(0) : primaryArray[x].used /\ x # PerChunk}}

(* Gpt::Parse: the entries in the first 4096 bytes of the array. *)
Parsed == {primaryArray[i] : i \in {x \in ChunkOf(0) : primaryArray[x].used}}

Overlap(p, q) == p.start <= q.end /\ q.start <= p.end

---------------------------------------------------------------------------
(* FindGap *)

AlignUp(n) == ((n + Align - 1) \div Align) * Align

(* Faulty variant of Cursor: the partition before the gap, and not the one *)
(* that reaches furthest.                                                  *)
CursorOfPrevious(parts, limit) ==
  LET before == {p \in parts : p.start < limit}
      last == {p \in before : \A q \in before : q.start <= p.start}
  IN  IF before = {} THEN FirstUsable ELSE (CHOOSE p \in last : TRUE).end + 1

(* Where the space in front of a partition or of the end begins: behind    *)
(* all that starts before it.                                              *)
Cursor(parts, limit) ==
  Max({FirstUsable} \cup {p.end + 1 : p \in {q \in parts : q.start < limit}})

Limits(parts) == {p.start : p \in parts} \cup {LastUsable + 1}

(* The whole aligned units between the cursor and the limit. *)
Room(parts, limit) ==
  LET start == AlignUp(Cursor(parts, limit))
  IN  IF start < limit THEN ((limit - start) \div Align) * Align ELSE 0

(* FindGap: the start of the first gap with room for need sectors, or -1. *)
FindGap(parts, need) ==
  LET fitting == {l \in Limits(parts) : Room(parts, l) > 0 /\ Room(parts, l) >= need}
  IN  IF fitting = {} THEN -1 ELSE AlignUp(Cursor(parts, Min(fitting)))

Needs == {n * Align : n \in 1 .. (LastUsable \div Align)}

---------------------------------------------------------------------------
GptInit ==
  /\ primaryArray \in Tables
  /\ primaryCrc = primaryArray
  /\ backupArray = primaryArray
  /\ backupCrc = primaryArray
  /\ array = primaryArray
  /\ stage = "idle"
  /\ chunk = 0
  /\ faults = 0
  /\ kept = Parts(primaryArray)

FreeIndexes == {i \in Index : ~primaryArray[i].used}

(* The test that ends in GPT_BAD_ENTRY_CRC. *)
ArrayTrusted == primaryCrc = primaryArray

(* mkpart, up to the first write: find a gap, check the range against the  *)
(* parsed entries, check the array, fill in its first free entry.          *)
Mkpart(need) ==
  LET start == FindGap(Parsed, need)
      new == Part(start, start + need - 1)
  IN  /\ stage = "idle"
      /\ start # -1
      /\ new.start >= FirstUsable /\ new.end <= LastUsable
      /\ \A p \in Parsed : ~Overlap(new, p)
      /\ ArrayTrusted
      /\ FreeIndexes # {}
      /\ array' = [primaryArray EXCEPT ![Min(FreeIndexes)] = new]
      /\ stage' = "backupArray"
      /\ chunk' = 0
      /\ UNCHANGED <<disk, faults, kept>>

(* The first S entries of a write have reached the array on the drive. *)
Written(t, S) == [i \in Index |-> IF i \in S THEN array[i] ELSE t[i]]

(* On to the next chunk of the array, or to the next of the three writes. *)
NextChunk(next) ==
  IF chunk + 1 \in Chunks THEN chunk' = chunk + 1 /\ UNCHANGED stage
  ELSE chunk' = 0 /\ stage' = next

WriteBackupArray ==
  /\ stage = "backupArray"
  /\ backupArray' = Written(backupArray, ChunkOf(chunk))
  /\ NextChunk("backupHeader")
  /\ UNCHANGED <<primaryArray, primaryCrc, backupCrc, array, faults, kept>>

WriteBackupHeader ==
  /\ stage = "backupHeader"
  /\ backupCrc' = array
  /\ stage' = "primaryArray"
  /\ chunk' = 0
  /\ UNCHANGED <<primaryArray, primaryCrc, backupArray, array, faults, kept>>

(* Faulty variant of WritePrimaryArray: success is reported a write early. *)
ReportEarly ==
  /\ stage = "primaryArray"
  /\ stage' = "idle"
  /\ kept' = kept \cup Parts(array)
  /\ UNCHANGED <<disk, array, chunk, faults>>

(* The last write: GPT_OK.  The header gets its new checksum in memory     *)
(* only, where the next Parse reads the old one over it.                   *)
WritePrimaryArray ==
  /\ stage = "primaryArray"
  /\ primaryArray' = Written(primaryArray, ChunkOf(chunk))
  /\ NextChunk("idle")
  /\ kept' = IF stage' = "idle" THEN kept \cup Parts(array) ELSE kept
  /\ UNCHANGED <<primaryCrc, backupArray, backupCrc, array, faults>>

(* A write fails, or the power is lost in the middle of it: part of the    *)
(* chunk may be written.  The next command starts from what is on the      *)
(* drive either way.                                                       *)
WriteFails ==
  /\ stage # "idle"
  /\ faults < MaxFaults
  /\ faults' = faults + 1
  /\ stage' = "idle"
  /\ chunk' = 0
  /\ \/ UNCHANGED disk
     \/ /\ stage = "backupHeader"
        /\ backupCrc' = array
        /\ UNCHANGED <<primaryArray, primaryCrc, backupArray>>
     \/ \E S \in SUBSET ChunkOf(chunk) :
          \/ /\ stage = "backupArray"
             /\ backupArray' = Written(backupArray, S)
             /\ UNCHANGED <<primaryArray, primaryCrc, backupCrc>>
          \/ /\ stage = "primaryArray"
             /\ primaryArray' = Written(primaryArray, S)
             /\ UNCHANGED <<primaryCrc, backupArray, backupCrc>>
  /\ UNCHANGED <<array, kept>>

GptNext ==
  \/ \E need \in Needs : Mkpart(need)
  \/ WriteBackupArray
  \/ WriteBackupHeader
  \/ WritePrimaryArray
  \/ WriteFails

GptSpec == GptInit /\ [][GptNext]_gptVars

---------------------------------------------------------------------------
(* Properties *)

GptTypeOK ==
  /\ {primaryArray, primaryCrc, backupArray, backupCrc, array} \subseteq [Index -> Entry]
  /\ stage \in {"idle", "backupArray", "backupHeader", "primaryArray"}
  /\ chunk \in Chunks
  /\ faults \in 0 .. MaxFaults
  /\ \A p \in kept : p \in Entry

PrimaryIntact == primaryCrc = primaryArray
BackupIntact == backupCrc = backupArray

(* Wherever mkpart is cut short, one copy of the table still matches its   *)
(* checksum, and an intact copy has every partition there was and every    *)
(* one that was reported as created.                                       *)
NothingForgotten ==
  /\ PrimaryIntact \/ BackupIntact
  /\ PrimaryIntact => kept \subseteq Parts(primaryArray)
  /\ BackupIntact => kept \subseteq Parts(backupArray)

(* Partitions that are apart stay apart, if Parse sees all of them: no     *)
(* step brings two into each other, in either copy of the table.           *)
AllParsed(t) == \A i \in Index \ ChunkOf(0) : ~t[i].used
Apart(t) == \A i, j \in Index : i # j /\ t[i].used /\ t[j].used => ~Overlap(t[i], t[j])
PartsApart ==
  [][AllParsed(primaryArray) /\ Apart(primaryArray) /\ Apart(backupArray) =>
       Apart(primaryArray') /\ Apart(backupArray')]_gptVars

(* The sweep of FindGap, whose partitions may be in any order and may even *)
(* overlap, finds what a search of every aligned start would find: the     *)
(* first range of that size that is usable and free.                       *)
FreeRange(parts, s, need) ==
  s + need - 1 <= LastUsable /\ \A p \in parts : ~Overlap(Part(s, s + need - 1), p)
GapIsFirstFit ==
  \A need \in Needs :
    LET free == {s \in {x \in Lba : x % Align = 0} : FreeRange(Parsed, s, need)}
    IN  FindGap(Parsed, need) = IF free = {} THEN -1 ELSE Min(free)

(* "show unnallocated space": what the free command shows is not part of   *)
(* any partition of the drive, if Parse sees all of them.                  *)
FreeIsUnallocated ==
  stage = "idle" /\ AllParsed(primaryArray) =>
    \A l \in Limits(Parsed) :
      Room(Parsed, l) > 0 =>
        LET s == AlignUp(Cursor(Parsed, l))
        IN  \A p \in Parts(primaryArray) : ~Overlap(Part(s, s + Room(Parsed, l) - 1), p)

(* The two users of the sweep, mkpart and free, are given what is free.    *)
GapsRight == GapIsFirstFit /\ FreeIsUnallocated

=============================================================================

----------------------------- MODULE EnFSProofs ------------------------------
(***************************************************************************)
(* Proofs about EnFS, for a volume, a table and files of any size, any     *)
(* number of names and payloads, and any number of failures.               *)
(*                                                                         *)
(* The argument.  An extent is handed out once and belongs to one slot     *)
(* from then on, so the tables in memory and on the drive, and every       *)
(* mixture of the two a torn write can leave, have no two slots that share *)
(* a sector (DiskApart, MemoryApart, CrossApart).  The transfers of an     *)
(* operation stay in the extent of its slot, and only the tables of both   *)
(* places together say what a name is: where something is promised of a    *)
(* name, both say the same (Kept).  What a drive with a table of one       *)
(* sector promises on top of that needs that no name is twice in a table   *)
(* (Single).                                                               *)
(***************************************************************************)
EXTENDS EnFS, FiniteSetTheorems, WellFoundedInduction, TLAPS

---------------------------------------------------------------------------
(* Numbers *)

LessThan == {p \in Nat \X Nat : p[1] < p[2]}

(* A set of slots has a first one. *)
LEMMA FirstSound ==
  ASSUME NEW S \in SUBSET Nat, S # {}
  PROVE  LET m == CHOOSE s \in S : \A x \in S : s <= x IN m \in S /\ \A x \in S : m <= x
<1>1. IsWellFoundedOn(LessThan, Nat)
  BY NatLessThanWellFounded DEF OpToRel, LessThan
<1>2. PICK x \in S : \A y \in S : ~ (<<y, x>> \in LessThan)
  BY <1>1, WFMin
<1>3. ASSUME NEW y \in S PROVE x <= y
  <2>1. ~ (<<y, x>> \in LessThan) /\ x \in Nat /\ y \in Nat
    BY <1>2
  <2>2. QED
    BY <2>1 DEF LessThan
<1>4. QED
  BY <1>3

(* What is known of the sizes of a volume. *)
LEMMA Sizes ==
  /\ MaxFiles \in Nat \ {0} /\ PerSector \in Nat \ {0} /\ Chunk \in Nat \ {0}
  /\ CountMod \in Nat \ {0} /\ MaxLen \in Nat /\ MaxFaults \in Nat /\ Sectors \in Nat
  /\ TableSectors \in Nat \ {0} /\ DataStart = 1 + TableSectors /\ DataStart <= Sectors
  /\ 1 \in Slots /\ Slots \subseteq Nat /\ IsFiniteSet(Slots)
<1>1. /\ MaxFiles \in Nat \ {0} /\ PerSector \in Nat \ {0} /\ Chunk \in Nat \ {0}
      /\ CountMod \in Nat \ {0} /\ MaxLen \in Nat /\ MaxFaults \in Nat /\ Sectors \in Nat
      /\ MaxFiles % PerSector = 0
  BY SizeAssumption
<1>2. TableSectors \in Nat /\ MaxFiles = TableSectors * PerSector
  BY <1>1 DEF TableSectors
<1>3. TableSectors # 0
  BY <1>1, <1>2
<1>4. 1 \in Slots /\ Slots \subseteq Nat
  BY <1>1 DEF Slots
<1>5. IsFiniteSet(Slots)
  BY <1>1, FS_Interval DEF Slots
<1>6. QED
  BY <1>1, <1>2, <1>3, <1>4, <1>5, RoomAssumption DEF DataStart

(* Every slot is in a sector of the table. *)
LEMMA SlotInTable == \A s \in Slots : SectorOf(s) \in 1 .. TableSectors
<1> SUFFICES ASSUME NEW s \in Slots PROVE SectorOf(s) \in 1 .. TableSectors
  OBVIOUS
<1> DEFINE q == (s - 1) \div PerSector
<1>0. MaxFiles = TableSectors * PerSector
  BY SizeAssumption DEF TableSectors
<1>1. s - 1 \in Nat /\ s - 1 < TableSectors * PerSector
  BY <1>0, Sizes DEF Slots
<1>2. q \in Nat /\ q * PerSector <= s - 1
  BY <1>1, Sizes
<1>3. q < TableSectors
  BY <1>1, <1>2, Sizes
<1>4. QED
  BY <1>2, <1>3, Sizes DEF SectorOf

---------------------------------------------------------------------------
(* The inductive invariant *)

(* The slots whose entry has a name. *)
Has(t, n) == {s \in Used(t) : t[s].name = n}

(* Sectors an entry occupies. *)
Room(e) == Max2(e.len, 1)

(* No extent starts in front of the data area, and the bump pointer does   *)
(* not leave the volume.                                                   *)
Bounded(e) == e.len <= Sectors /\ (e.start # 0 => DataStart <= e.start)
Pointed(u) == DataStart + u.dataUsed <= Sectors

InBounds(d) ==
  /\ \A s \in Slots : Bounded(files[s]) /\ Bounded(TableOf(d)[s])
  /\ Pointed(super)
  /\ SuperValid(d) => Pointed(d[0].super)

(* The first k sectors of the file being written are on the drive. *)
Landing(k) ==
  \A i \in 0 .. k - 1 : disk[files[op.slot].start + i] = DataSector(op.name, op.val, i)

(* What an operation has made sure of on the way to where it is. *)
Named ==
  /\ op.pc \in {"off", "idle"} => op.cmd = "none"
  /\ op.pc = "off" => ~mounted
  /\ IF op.cmd \in {"write", "rm"} THEN op.name \in Names /\ acked[op.name] = Unknown
                                   ELSE op.name = NoName

Writing ==
  op.pc = "data" =>
    /\ mounted
    /\ op.cmd = "write"
    /\ op.slot = FindIn(files, op.name)
    /\ files[op.slot].start # 0
    /\ files[op.slot].start <= op.pos
    /\ op.pos + op.left = files[op.slot].start + op.len
    /\ Landing(op.pos - files[op.slot].start)

Zeroing ==
  op.pc = "zero" =>
    \/ op.cmd = "wipe" /\ ~sound
    \/ /\ op.cmd = "rm"
       /\ mounted
       /\ op.slot = FindIn(files, op.name)
       /\ sound => /\ files[op.slot].start # 0
                   /\ files[op.slot].start <= op.pos
                   /\ op.pos + op.left = files[op.slot].start + Room(files[op.slot])

Flushing ==
  op.pc \in {"super", "table"} =>
    /\ mounted
    /\ op.pc = "table" => disk[0] = SuperSector(super)
    /\ \/ /\ op.cmd = "format"
          /\ ~sound
          /\ super = [dataUsed |-> 0, fileCount |-> 0]
          /\ files = [s \in Slots |-> FreeEntry]
          /\ acked = [n \in Names |-> Unknown]
       \/ /\ op.cmd = "write"
          /\ op.slot = FindIn(files, op.name)
          /\ files[op.slot].start # 0
          /\ files[op.slot].start + op.len <= Sectors
          /\ files[op.slot].len = op.len
          /\ Landing(op.len)
       \/ op.cmd = "rm"

(* Two extents of so many sectors have none in common; an extent ends      *)
(* before the bump pointer.                                                *)
Beside(a, m, b, k) == a + m <= b \/ b + k <= a
Below(a, m, used) == DataStart <= a /\ a + m <= DataStart + used

(* The sectors a slot occupies in memory: those of its entry, or of the    *)
(* file on its way into them, or those it was given if its entry claims    *)
(* more.                                                                   *)
Held(s) ==
  IF op.pc = "data" /\ op.slot = s
    THEN IF Overlong THEN Need(op.len) ELSE Max2(Room(files[s]), op.len)
    ELSE Room(files[s])

DiskApart(d) ==
  sound =>
    /\ SuperValid(d)
    /\ \A s \in Live(TableOf(d)) :
         Below(TableOf(d)[s].start, Room(TableOf(d)[s]), d[0].super.dataUsed)
    /\ \A r, s \in Live(TableOf(d)) : r # s =>
         Beside(TableOf(d)[r].start, Room(TableOf(d)[r]), TableOf(d)[s].start, Room(TableOf(d)[s]))

MemoryApart ==
  sound /\ mounted =>
    /\ \A s \in Live(files) : Below(files[s].start, Held(s), super.dataUsed)
    /\ \A r, s \in Live(files) : r # s => Beside(files[r].start, Held(r), files[s].start, Held(s))

(* No extent of the table in memory meets one of another slot on the       *)
(* drive, and the pointer on the drive is not in front of that in memory.  *)
CrossApart(d) ==
  sound /\ mounted =>
    /\ d[0].super.dataUsed <= super.dataUsed
    /\ \A r \in Live(TableOf(d)), s \in Live(files) : r # s =>
         Beside(TableOf(d)[r].start, Room(TableOf(d)[r]), files[s].start, Held(s))

(* What is promised of a name is on the drive, and both tables agree on    *)
(* which slots have the name and on the entry of the first of them.        *)
Kept(d) ==
  sound => \A n \in Names : acked[n] # Unknown =>
    /\ Reads(TableOf(d), d, n)
    /\ mounted => Has(files, n) = Has(TableOf(d), n)
    /\ acked[n].st = "stored" =>
         LET s == FindIn(TableOf(d), n)
         IN  TableOf(d)[s].start # 0 /\ (mounted => files[s] = TableOf(d)[s])

(* Both counts are right until something fails. *)
Counted ==
  faults = 0 =>
    /\ op.pc # "off" => part
    /\ sound /\ mounted => super.fileCount = Cardinality(Used(files)) % CountMod
    /\ sound /\ op.pc # "table" =>
         disk[0].super.fileCount = Cardinality(Used(TableOf(disk))) % CountMod

IInv ==
  /\ TypeOK
  /\ InBounds(disk)
  /\ Named /\ Writing /\ Zeroing /\ Flushing
  /\ DiskApart(disk) /\ MemoryApart /\ CrossApart(disk)
  /\ Kept(disk)
  /\ Counted

(* With a table of one sector: no table has a name twice, and none has a   *)
(* name that was removed.                                                  *)
Once(t) == \A r, s \in Used(t) : t[r].name = t[s].name => r = s

Single ==
  /\ Once(files) /\ Once(TableOf(disk))
  /\ op.pc \in {"super", "table"} /\ op.cmd = "rm" => Has(files, op.name) = {}
  /\ sound => \A n \in Names : acked[n] = Absent => Has(TableOf(disk), n) = {}

---------------------------------------------------------------------------
(* Tables *)

(* EnFS::Find returns the first of the slots that have the name. *)
LEMMA FindSound ==
  ASSUME NEW t, NEW n
  PROVE  /\ Has(t, n) \subseteq Slots
         /\ FindIn(t, n) = 0 <=> Has(t, n) = {}
         /\ FindIn(t, n) # 0 => /\ FindIn(t, n) \in Has(t, n)
                                /\ \A x \in Has(t, n) : FindIn(t, n) <= x
<1>1. Has(t, n) \in SUBSET Nat /\ Has(t, n) \subseteq Slots /\ 0 \notin Slots
  BY Sizes DEF Has, Used, Slots
<1>2. CASE Has(t, n) = {}
  BY <1>1, <1>2 DEF FindIn, Has
<1>3. CASE Has(t, n) # {}
  <2>1. /\ FindIn(t, n) \in Has(t, n)
        /\ \A x \in Has(t, n) : FindIn(t, n) <= x
    BY <1>1, <1>3, FirstSound DEF FindIn, Has
  <2>2. QED
    BY <1>1, <1>3, <2>1
<1>4. QED
  BY <1>2, <1>3

(* The same slots, the same result. *)
LEMMA SameFind ==
  ASSUME NEW t, NEW u, NEW n, Has(t, n) = Has(u, n)
  PROVE  FindIn(t, n) = FindIn(u, n)
<1> DEFINE First(h) == IF h = {} THEN 0 ELSE CHOOSE s \in h : \A x \in h : s <= x
<1>1. FindIn(t, n) = First(Has(t, n)) /\ FindIn(u, n) = First(Has(u, n))
  BY DEF FindIn, Has
<1> HIDE DEF First
<1>2. QED
  BY <1>1

(* The scan of WriteFile ends at a free slot, if there is one. *)
LEMMA FreeSound ==
  ASSUME NEW t, FirstFree(t) # 0
  PROVE  FirstFree(t) \in Slots /\ ~t[FirstFree(t)].used
<1> DEFINE free == Slots \ Used(t)
<1>1. free \in SUBSET Nat
  BY Sizes
<1>2. free # {} /\ FirstFree(t) = CHOOSE s \in free : \A x \in free : s <= x
  BY DEF FirstFree
<1>3. FirstFree(t) \in free
  BY <1>1, <1>2, FirstSound
<1>4. QED
  BY <1>3 DEF Used

(* What the table sectors say is a table. *)
LEMMA TableSound ==
  ASSUME NEW d, DiskOK(d)
  PROVE  TableOf(d) \in Table
<1> SUFFICES ASSUME NEW s \in Slots, d[SectorOf(s)].kind = "table"
             PROVE  d[SectorOf(s)].ents[s] \in Entry
  <2>1. FreeEntry \in Entry
    BY Sizes DEF FreeEntry, Entry
  <2>2. QED
    BY <2>1 DEF TableOf, Table
<1> DEFINE k == SectorOf(s)
<1>1. k \in 1 .. TableSectors /\ s \in SlotsOf(k)
  BY SlotInTable DEF SlotsOf
<1>2. d[k].ents \in [SlotsOf(k) -> Entry]
  BY <1>1 DEF DiskOK, Blank
<1>3. QED
  BY <1>1, <1>2

(* Only the table sectors say what the table is. *)
LEMMA SameTable ==
  ASSUME NEW d, NEW e, \A k \in 1 .. TableSectors : e[k] = d[k]
  PROVE  TableOf(e) = TableOf(d)
<1>1. \A s \in Slots : e[SectorOf(s)] = d[SectorOf(s)]
  BY SlotInTable
<1>2. QED
  BY <1>1 DEF TableOf

(* The fields of an entry. *)
LEMMA EntrySound ==
  ASSUME NEW e \in Entry
  PROVE  /\ e.used \in BOOLEAN /\ e.name \in Names \cup {NoName}
         /\ e.start \in Nat /\ e.start <= Sectors /\ e.len \in Nat /\ e.len <= MaxLen
         /\ Room(e) \in Nat \ {0} /\ e.len <= Room(e) /\ Room(e) <= Max2(e.len, 1)
BY Sizes DEF Entry, Room, Max2

(* The fields of the operation under way. *)
LEMMA OpSound ==
  ASSUME TypeOK
  PROVE  /\ op.pc \in {"off", "idle", "zero", "data", "super", "table"}
         /\ op.cmd \in {"none", "write", "rm", "format", "wipe"}
         /\ op.name \in Names \cup {NoName} /\ op.slot \in Slots /\ op.val \in Values
         /\ op.pos \in Nat /\ op.pos <= Sectors /\ op.left \in Nat /\ op.left <= Sectors
         /\ op.len \in Nat /\ op.len <= MaxLen
         /\ Need(op.len) \in Nat /\ op.len <= Need(op.len) /\ 1 <= Need(op.len)
         /\ \A s \in Slots : files[s] \in Entry /\ TableOf(disk)[s] \in Entry
BY Sizes, TableSound DEF TypeOK, Operation, Table, Need, Max2

---------------------------------------------------------------------------
(* What a transfer does to the drive, whichever of its sectors land *)

(* Sectors the transfer under way is about to write. *)
ThisChunk == Min2(op.left, Chunk)

(* A chunk of zeros or of file data. *)
LEMMA ChunkLands ==
  ASSUME TypeOK, op.pc \in {"zero", "data"}, op.left > 0, TransferInRange,
         NEW S \in SUBSET DOMAIN Transfer
  PROVE  /\ ThisChunk \in Nat /\ 0 < ThisChunk /\ ThisChunk <= op.left /\ op.pos + ThisChunk <= Sectors
         /\ S \subseteq op.pos .. op.pos + ThisChunk - 1
         /\ DOMAIN Transfer = op.pos .. op.pos + ThisChunk - 1
         /\ \A a \in Addr : a \notin S => Landed(S)[a] = disk[a]
         /\ \A a \in S : /\ a \in Addr
                         /\ op.pc = "zero" => Landed(S)[a] = Blank
                         /\ op.pc = "data" =>
                              Landed(S)[a] = DataSector(op.name, op.val, a - files[op.slot].start)
<1>1. /\ ThisChunk \in Nat /\ 0 < ThisChunk /\ ThisChunk <= op.left /\ op.pos \in Nat
      /\ op.pos + ThisChunk <= Sectors
  BY OpSound, Sizes DEF ThisChunk, Min2, TransferInRange, InRange
<1>2. Transfer = [a \in op.pos .. op.pos + ThisChunk - 1 |->
                    IF op.pc = "zero" THEN Blank
                                      ELSE DataSector(op.name, op.val, a - files[op.slot].start)]
  BY DEF Transfer, ThisChunk
<1>3. S \subseteq op.pos .. op.pos + ThisChunk - 1
  BY <1>2
<1>4. S \subseteq Addr
  BY <1>1, <1>3, Sizes DEF Addr
<1>5. \A a \in Addr : Landed(S)[a] = IF a \in S THEN Transfer[a] ELSE disk[a]
  BY DEF Landed
<1>6. QED
  BY <1>1, <1>2, <1>3, <1>4, <1>5

(* The superblock. *)
LEMMA SuperLands ==
  ASSUME op.pc = "super", NEW S \in SUBSET DOMAIN Transfer
  PROVE  /\ DOMAIN Transfer = {0}
         /\ \A a \in Addr : a # 0 => Landed(S)[a] = disk[a]
         /\ 0 \in S => Landed(S)[0] = SuperSector(super)
         /\ 0 \notin S => Landed(S)[0] = disk[0]
<1>1. Transfer = [a \in {0} |-> SuperSector(super)]
  BY DEF Transfer
<1>2. 0 \in Addr
  BY Sizes DEF Addr
<1>3. QED
  BY <1>1, <1>2 DEF Landed

(* The table: slots whose sector lands are those of the memory. *)
LEMMA TableLands ==
  ASSUME TypeOK, op.pc = "table", NEW S \in SUBSET DOMAIN Transfer
  PROVE  /\ DOMAIN Transfer = 1 .. TableSectors
         /\ \A a \in Addr : a \notin 1 .. TableSectors => Landed(S)[a] = disk[a]
         /\ \A k \in 1 .. TableSectors :
              Landed(S)[k] = IF k \in S THEN TableSector(k, files) ELSE disk[k]
         /\ \A s \in Slots :
              TableOf(Landed(S))[s] = IF SectorOf(s) \in S THEN files[s] ELSE TableOf(disk)[s]
<1>1. Transfer = [a \in 1 .. TableSectors |-> TableSector(a, files)]
  BY DEF Transfer
<1>2. 1 .. TableSectors \subseteq Addr
  BY Sizes DEF Addr
<1>3. \A k \in 1 .. TableSectors :
        Landed(S)[k] = IF k \in S THEN TableSector(k, files) ELSE disk[k]
  BY <1>1, <1>2 DEF Landed
<1>4. ASSUME NEW s \in Slots
      PROVE  TableOf(Landed(S))[s] = IF SectorOf(s) \in S THEN files[s] ELSE TableOf(disk)[s]
  <2>1. SectorOf(s) \in 1 .. TableSectors /\ s \in SlotsOf(SectorOf(s))
    BY SlotInTable DEF SlotsOf
  <2>2. CASE SectorOf(s) \in S
    <3>1. Landed(S)[SectorOf(s)] = TableSector(SectorOf(s), files)
      BY <1>3, <2>1, <2>2
    <3>2. QED
      BY <2>1, <2>2, <3>1 DEF TableOf, TableSector
  <2>3. CASE SectorOf(s) \notin S
    <3>1. Landed(S)[SectorOf(s)] = disk[SectorOf(s)]
      BY <1>3, <2>1, <2>3
    <3>2. QED
      BY <2>3, <3>1 DEF TableOf
  <2>4. QED
    BY <2>2, <2>3
<1>5. QED
  BY <1>1, <1>2, <1>3, <1>4 DEF Landed

(* A name something is promised of is not the one being operated on.       *)
LEMMA Promised ==
  ASSUME IInv, sound, NEW n \in Names, acked[n] # Unknown
  PROVE  /\ op.cmd \in {"write", "rm"} => n # op.name
         /\ Reads(TableOf(disk), disk, n)
         /\ mounted => Has(files, n) = Has(TableOf(disk), n)
         /\ acked[n].st = "stored" =>
              LET s == FindIn(TableOf(disk), n)
              IN  /\ s \in Has(TableOf(disk), n) /\ s \in Slots
                  /\ TableOf(disk)[s].start # 0 /\ s \in Live(TableOf(disk))
                  /\ mounted => files[s] = TableOf(disk)[s] /\ s \in Live(files)
<1>1. /\ Reads(TableOf(disk), disk, n)
      /\ mounted => Has(files, n) = Has(TableOf(disk), n)
      /\ acked[n].st = "stored" =>
           LET s == FindIn(TableOf(disk), n)
           IN  TableOf(disk)[s].start # 0 /\ (mounted => files[s] = TableOf(disk)[s])
  BY DEF IInv, Kept
<1>2. op.cmd \in {"write", "rm"} => n # op.name
  BY DEF IInv, Named
<1>3. ASSUME acked[n].st = "stored"
      PROVE  FindIn(TableOf(disk), n) \in Has(TableOf(disk), n)
  BY <1>1, <1>3, FindSound DEF Reads
<1>4. QED
  BY <1>1, <1>2, <1>3 DEF Has, Live, Used

(* The sectors held are enough for what is being written, and otherwise    *)
(* are those of the entry.                                                 *)
LEMMA HeldSound ==
  ASSUME TypeOK, NEW s \in Slots
  PROVE  /\ Held(s) \in Nat \ {0} /\ files[s].start \in Nat
         /\ op.pc = "data" /\ op.slot = s => op.len <= Held(s)
         /\ ~(op.pc = "data" /\ op.slot = s) => Held(s) = Room(files[s])
<1>1. Room(files[s]) \in Nat \ {0} /\ op.len \in Nat /\ files[s].start \in Nat
  BY OpSound, EntrySound
<1>2. /\ Max2(Room(files[s]), op.len) \in Nat \ {0} /\ op.len <= Max2(Room(files[s]), op.len)
      /\ Need(op.len) \in Nat \ {0} /\ op.len <= Need(op.len)
  BY <1>1 DEF Max2, Need
<1>3. QED
  BY <1>1, <1>2 DEF Held

(* The sectors a chunk goes to are those of the slot operated on.          *)
LEMMA ChunkInside ==
  ASSUME IInv, op.pc \in {"zero", "data"}, op.left > 0, TransferInRange,
         sound \/ op.pc = "data"
  PROVE  /\ mounted /\ op.slot \in Has(files, op.name) /\ files[op.slot].start # 0
         /\ DataStart <= files[op.slot].start /\ files[op.slot].start <= op.pos
         /\ op.pos + ThisChunk <= files[op.slot].start + Held(op.slot)
         /\ op.pc = "data" => op.pos + ThisChunk <= files[op.slot].start + op.len
         /\ op.slot \in Live(files)
<1> DEFINE e == files[op.slot]
<1>0. TypeOK
  BY DEF IInv
<1>1. /\ mounted /\ op.slot = FindIn(files, op.name) /\ e.start # 0 /\ e.start <= op.pos
      /\ op.pc = "data" => op.pos + op.left = e.start + op.len
      /\ op.pc = "zero" => op.pos + op.left = e.start + Room(e)
  BY DEF IInv, Writing, Zeroing
<1>2. op.slot \in Slots /\ e \in Entry
  BY <1>0, OpSound
<1>3. op.slot \in Has(files, op.name)
  BY <1>1, <1>2, FindSound, Sizes DEF Slots
<1>4. DataStart <= e.start
  BY <1>1, <1>2 DEF IInv, InBounds, Bounded
<1>5. ThisChunk \in Nat /\ ThisChunk <= op.left
  BY <1>0, OpSound, Sizes DEF ThisChunk, Min2
<1>6. op.pc = "data" => op.len <= Held(op.slot)
  BY <1>0, <1>2, HeldSound
<1>7. op.pc = "zero" => Room(e) = Held(op.slot)
  BY <1>0, <1>2, HeldSound
<1>8. e.start \in Nat /\ Room(e) \in Nat /\ Held(op.slot) \in Nat
  BY <1>0, <1>2, HeldSound, EntrySound
<1>9. QED
  BY <1>0, <1>1, <1>2, <1>3, <1>4, <1>5, <1>6, <1>7, <1>8, OpSound DEF Has, Live

(* A chunk spoils nothing but what the operation may: no metadata of a     *)
(* sound volume, and no file something is promised of.                     *)
LEMMA ChunkSpares ==
  ASSUME IInv, op.pc \in {"zero", "data"}, op.left > 0, TransferInRange,
         NEW S \in SUBSET DOMAIN Transfer
  PROVE  /\ DiskOK(Landed(S)) /\ InBounds(Landed(S))
         /\ sound \/ op.pc = "data" =>
              TableOf(Landed(S)) = TableOf(disk) /\ Landed(S)[0] = disk[0]
         /\ DiskApart(Landed(S)) /\ CrossApart(Landed(S)) /\ Kept(Landed(S))
<1> DEFINE d == Landed(S)
           e == files[op.slot]
<1>0. TypeOK
  BY DEF IInv
<1>1. /\ ThisChunk \in Nat /\ op.pos + ThisChunk <= Sectors
      /\ S \subseteq op.pos .. op.pos + ThisChunk - 1
      /\ \A a \in Addr : a \notin S => d[a] = disk[a]
      /\ \A a \in S : /\ a \in Addr
                      /\ op.pc = "zero" => d[a] = Blank
                      /\ op.pc = "data" => d[a] = DataSector(op.name, op.val, a - e.start)
  BY <1>0, ChunkLands
<1>2. DOMAIN d = Addr
  BY DEF Landed
<1> HIDE DEF d
<1>3. 0 \in Addr /\ 1 .. TableSectors \subseteq Addr /\ DataStart .. Sectors - 1 \subseteq Addr
  BY Sizes DEF Addr
<1>4. op.pos \in Nat /\ op.name \in Names \cup {NoName} /\ op.val \in Values /\ op.len <= MaxLen
      /\ op.len \in Nat
  BY <1>0, OpSound
<1>5. sound \/ op.pc = "data" => \A a \in S : DataStart <= a
  <2>1. SUFFICES ASSUME sound \/ op.pc = "data", NEW a \in S PROVE DataStart <= a
    OBVIOUS
  <2>2. DataStart <= e.start /\ e.start <= op.pos /\ e.start \in Nat
    BY <1>0, <2>1, ChunkInside, OpSound, EntrySound
  <2>3. QED
    BY <1>1, <1>4, <2>2, Sizes
<1>6. sound \/ op.pc = "data" => TableOf(d) = TableOf(disk) /\ d[0] = disk[0]
  <2>1. SUFFICES ASSUME sound \/ op.pc = "data"
                 PROVE  TableOf(d) = TableOf(disk) /\ d[0] = disk[0]
    OBVIOUS
  <2>2. 0 \notin S /\ \A k \in 1 .. TableSectors : k \notin S
    BY <1>5, <2>1, Sizes
  <2>3. \A k \in 1 .. TableSectors : d[k] = disk[k]
    BY <1>1, <1>3, <2>2
  <2>4. QED
    BY <1>1, <1>3, <2>2, <2>3, SameTable
<1>7. \A a \in Addr : d[a] = disk[a] \/ d[a] = Blank
                      \/ /\ op.pc = "data"
                         /\ a \in S
                         /\ d[a] = DataSector(op.name, op.val, a - e.start)
  BY <1>1
<1>8. ASSUME op.pc = "data" PROVE op.name \in Names /\ \A a \in S : a - e.start \in 0 .. MaxLen - 1
  <2>1. op.name \in Names
    BY <1>8 DEF IInv, Named, Writing
  <2>2. /\ e.start <= op.pos /\ op.pos + ThisChunk <= e.start + op.len /\ e.start \in Nat
    BY <1>0, <1>8, ChunkInside, OpSound, EntrySound
  <2>3. QED
    BY <1>1, <1>4, <2>1, <2>2, Sizes
<1>9. DiskOK(d)
  <2>1. d[0] = Blank \/ (d[0].super \in Super /\ d[0] = SuperSector(d[0].super))
    BY <1>0, <1>1, <1>3, <1>6 DEF TypeOK, DiskOK
  <2>2. ASSUME NEW k \in 1 .. TableSectors
        PROVE  d[k] = Blank \/ (d[k].ents \in [SlotsOf(k) -> Entry] /\ d[k] = TableSector(k, d[k].ents))
    <3>1. d[k] = disk[k] \/ d[k] = Blank
      BY <1>3, <1>5, <1>7, Sizes
    <3>2. QED
      BY <1>0, <3>1 DEF TypeOK, DiskOK
  <2>3. ASSUME NEW a \in DataStart .. Sectors - 1
        PROVE  d[a] = Blank \/ \E n \in Names, v \in Values, i \in 0 .. MaxLen - 1 : d[a] = DataSector(n, v, i)
    BY <1>0, <1>3, <1>4, <1>7, <1>8 DEF TypeOK, DiskOK
  <2>4. QED
    BY <1>2, <2>1, <2>2, <2>3 DEF DiskOK
<1>10. ASSUME NEW s \in Slots PROVE TableOf(d)[s] = TableOf(disk)[s] \/ TableOf(d)[s] = FreeEntry
  <2>1. SectorOf(s) \in 1 .. TableSectors
    BY SlotInTable
  <2>2. d[SectorOf(s)] = disk[SectorOf(s)] \/ d[SectorOf(s)] = Blank
    BY <1>3, <1>5, <1>7, <2>1, Sizes
  <2>3. QED
    BY <2>2 DEF TableOf, Blank
<1>11. InBounds(d)
  <2>1. Bounded(FreeEntry)
    BY Sizes DEF Bounded, FreeEntry
  <2>2. SuperValid(d) => d[0] = disk[0]
    <3>1. op.pc = "zero" => d[0] = disk[0] \/ d[0] = Blank
      BY <1>3, <1>7
    <3>2. QED
      BY <1>6, <3>1 DEF SuperValid, Blank
  <2>3. QED
    BY <1>10, <2>1, <2>2 DEF IInv, InBounds, SuperValid
<1>12. DiskApart(d) /\ CrossApart(d)
  BY <1>6 DEF IInv, DiskApart, CrossApart, SuperValid
<1>13. Kept(d)
  <2>1. SUFFICES ASSUME sound, NEW n \in Names, acked[n].st = "stored"
                 PROVE  Reads(TableOf(disk), d, n)
    BY <1>6 DEF IInv, Kept, Reads
  <2> DEFINE s == FindIn(TableOf(disk), n)
             f == TableOf(disk)[s]
  <2>2. acked[n] # Unknown
    BY <2>1 DEF Unknown
  <2>3. mounted /\ op.slot \in Has(files, op.name) /\ op.slot \in Live(files)
    BY <1>0, <2>1, ChunkInside
  <2>4. op.cmd \in {"write", "rm"}
    BY <2>1 DEF IInv, Writing, Zeroing
  <2>5. /\ n # op.name /\ s \in Slots /\ s \in Live(files) /\ files[s] = f /\ s \in Has(files, n)
        /\ Reads(TableOf(disk), disk, n)
    BY <2>1, <2>2, <2>3, <2>4, Promised
  <2>6. s # op.slot
    BY <2>3, <2>5 DEF Has
  <2>7. Beside(files[s].start, Held(s), e.start, Held(op.slot))
    BY <2>1, <2>3, <2>5, <2>6 DEF IInv, MemoryApart
  <2>8. /\ f.len = acked[n].len /\ f.start + f.len <= Sectors
        /\ \A i \in 0 .. f.len - 1 : disk[f.start + i] = DataSector(n, acked[n].val, i)
    BY <2>1, <2>5 DEF Reads
  <2>9. /\ f.start \in Nat /\ f.len \in Nat /\ f.len <= Held(s) /\ Held(s) \in Nat
        /\ e.start \in Nat /\ Held(op.slot) \in Nat
    <3>1. f \in Entry /\ e \in Entry /\ Held(s) = Room(files[s]) /\ op.slot \in Slots
      BY <1>0, <2>5, <2>6, HeldSound, OpSound
    <3>2. QED
      BY <1>0, <2>5, <3>1, HeldSound, EntrySound
  <2>10. ASSUME NEW i \in 0 .. f.len - 1 PROVE d[f.start + i] = disk[f.start + i]
    <3>1. e.start <= op.pos /\ op.pos + ThisChunk <= e.start + Held(op.slot)
      BY <1>0, <2>1, ChunkInside
    <3>2. f.start + i \in Addr
      BY <2>8, <2>9, Sizes DEF Addr
    <3>3. f.start + i \notin S
      <4>1. ~(op.pos <= f.start + i /\ f.start + i < op.pos + ThisChunk)
        BY <1>1, <1>4, <2>5, <2>7, <2>9, <3>1 DEF Beside
      <4>2. QED
        BY <1>1, <1>4, <2>9, <4>1
    <3>4. QED
      BY <1>1, <3>2, <3>3
  <2>11. QED
    BY <2>5, <2>8, <2>10 DEF Reads
<1>14. QED
  BY <1>6, <1>9, <1>11, <1>12, <1>13 DEF d

(* Files are where neither superblock nor table is. *)
LEMMA DataSpared ==
  ASSUME IInv, sound, NEW d, \A a \in Addr : DataStart <= a => d[a] = disk[a],
         NEW n \in Names, acked[n] # Unknown
  PROVE  Reads(TableOf(disk), d, n)
<1> SUFFICES ASSUME acked[n].st = "stored" PROVE Reads(TableOf(disk), d, n)
  BY DEF Reads
<1> DEFINE s == FindIn(TableOf(disk), n)
           f == TableOf(disk)[s]
<1>1. Reads(TableOf(disk), disk, n) /\ s \in Slots /\ f.start # 0
  BY Promised
<1>2. DataStart <= f.start
  BY <1>1 DEF IInv, InBounds, Bounded
<1>3. f.start \in Nat /\ f.len \in Nat
  BY <1>1, OpSound, EntrySound DEF IInv
<1>4. /\ s # 0 /\ f.len = acked[n].len /\ f.start + f.len <= Sectors
      /\ \A i \in 0 .. f.len - 1 : disk[f.start + i] = DataSector(n, acked[n].val, i)
  BY <1>1 DEF Reads
<1>5. \A i \in 0 .. f.len - 1 : f.start + i \in Addr /\ DataStart <= f.start + i
  BY <1>2, <1>3, <1>4, Sizes DEF Addr
<1>6. \A i \in 0 .. f.len - 1 : d[f.start + i] = DataSector(n, acked[n].val, i)
  BY <1>4, <1>5
<1>7. QED
  BY <1>4, <1>6 DEF Reads

(* The superblock lands whole or not at all, and either way covers what    *)
(* the table on the drive lists.                                           *)
LEMMA SuperSpares ==
  ASSUME IInv, op.pc = "super", NEW S \in SUBSET DOMAIN Transfer
  PROVE  /\ DiskOK(Landed(S)) /\ InBounds(Landed(S)) /\ TableOf(Landed(S)) = TableOf(disk)
         /\ DiskApart(Landed(S)) /\ CrossApart(Landed(S)) /\ Kept(Landed(S))
<1> DEFINE d == Landed(S)
<1>0. TypeOK /\ mounted /\ super \in Super
  BY DEF IInv, Flushing, TypeOK
<1>1. /\ \A a \in Addr : a # 0 => d[a] = disk[a]
      /\ d[0] = SuperSector(super) \/ d[0] = disk[0]
  BY SuperLands
<1>2. DOMAIN d = Addr
  BY DEF Landed
<1> HIDE DEF d
<1>3. 1 .. TableSectors \subseteq Addr /\ DataStart .. Sectors - 1 \subseteq Addr
      /\ \A a \in Nat : DataStart <= a => a # 0
  BY Sizes DEF Addr
<1>4. (\A k \in 1 .. TableSectors : d[k] = disk[k]) /\ \A a \in DataStart .. Sectors - 1 : d[a] = disk[a]
  BY <1>1, <1>3
<1>5. TableOf(d) = TableOf(disk)
  BY <1>4, SameTable
<1>6. DiskOK(d)
  <2>1. d[0] = Blank \/ (d[0].super \in Super /\ d[0] = SuperSector(d[0].super))
    BY <1>0, <1>1 DEF TypeOK, DiskOK, SuperSector
  <2>2. QED
    BY <1>0, <1>2, <1>4, <2>1 DEF TypeOK, DiskOK
<1>7. InBounds(d)
  BY <1>1, <1>5 DEF IInv, InBounds, SuperValid, SuperSector
<1>8. ASSUME sound
      PROVE  /\ SuperValid(d) /\ d[0].super.dataUsed \in Nat
             /\ disk[0].super.dataUsed <= d[0].super.dataUsed
             /\ d[0].super.dataUsed <= super.dataUsed /\ disk[0].super.dataUsed \in Nat
  <2>1. SuperValid(disk) /\ disk[0].super.dataUsed <= super.dataUsed
    BY <1>0, <1>8 DEF IInv, DiskApart, CrossApart
  <2>2. super.dataUsed \in Nat /\ disk[0].super \in Super
    BY <1>0, <2>1, Sizes DEF TypeOK, DiskOK, SuperValid, Blank, Super
  <2>3. disk[0].super.dataUsed \in Nat
    BY <2>2, Sizes DEF Super
  <2>4. QED
    BY <1>1, <2>1, <2>2, <2>3 DEF SuperValid, SuperSector
<1>9. DiskApart(d)
  <2>1. SUFFICES ASSUME sound, NEW s \in Live(TableOf(disk))
                 PROVE  Below(TableOf(disk)[s].start, Room(TableOf(disk)[s]), d[0].super.dataUsed)
    BY <1>5, <1>8 DEF IInv, DiskApart
  <2>2. s \in Slots
    BY DEF Live, Used
  <2>3. Below(TableOf(disk)[s].start, Room(TableOf(disk)[s]), disk[0].super.dataUsed)
    BY <2>1 DEF IInv, DiskApart
  <2>4. QED
    BY <1>0, <1>8, <2>1, <2>2, <2>3, OpSound, EntrySound, Sizes DEF Below
<1>10. CrossApart(d)
  BY <1>5, <1>8 DEF IInv, CrossApart
<1>11. Kept(d)
  <2>1. \A a \in Addr : DataStart <= a => d[a] = disk[a]
    BY <1>1, Sizes DEF Addr
  <2>2. sound => \A n \in Names : acked[n] # Unknown => Reads(TableOf(disk), d, n)
    BY <2>1, DataSpared
  <2>3. QED
    BY <1>5, <2>2 DEF IInv, Kept
<1>12. QED
  BY <1>5, <1>6, <1>7, <1>9, <1>10, <1>11 DEF d

(* A torn table is sound: whichever slots have landed, no two of them      *)
(* share a sector, and the names something is promised of are in the same  *)
(* slots.                                                                  *)
LEMMA TableSpares ==
  ASSUME IInv, op.pc = "table", NEW S \in SUBSET DOMAIN Transfer
  PROVE  /\ DiskOK(Landed(S)) /\ InBounds(Landed(S))
         /\ DiskApart(Landed(S)) /\ CrossApart(Landed(S)) /\ Kept(Landed(S))
<1> DEFINE d == Landed(S)
           t == TableOf(disk)
           u == TableOf(d)
<1>0. TypeOK /\ mounted /\ super \in Super /\ files \in Table /\ disk[0] = SuperSector(super)
  BY DEF IInv, Flushing, TypeOK
<1>1. /\ \A a \in Addr : a \notin 1 .. TableSectors => d[a] = disk[a]
      /\ \A k \in 1 .. TableSectors : d[k] = TableSector(k, files) \/ d[k] = disk[k]
      /\ \A s \in Slots : u[s] = files[s] \/ u[s] = t[s]
  BY <1>0, TableLands
<1>2. DOMAIN d = Addr
  BY DEF Landed
<1> HIDE DEF d
<1>3. 0 \in Addr /\ DataStart .. Sectors - 1 \subseteq Addr
      /\ \A a \in Addr : DataStart <= a => a \notin 1 .. TableSectors
  BY Sizes DEF Addr
<1>4. d[0] = disk[0] /\ \A a \in Addr : DataStart <= a => d[a] = disk[a]
  BY <1>1, <1>3
<1>5. DiskOK(d)
  <2>1. ASSUME NEW k \in 1 .. TableSectors
        PROVE  d[k] = Blank \/ (d[k].ents \in [SlotsOf(k) -> Entry] /\ d[k] = TableSector(k, d[k].ents))
    <3>1. CASE d[k] = disk[k]
      BY <1>0, <3>1 DEF TypeOK, DiskOK
    <3>2. CASE d[k] = TableSector(k, files)
      <4> DEFINE g == [s \in SlotsOf(k) |-> files[s]]
      <4>1. g \in [SlotsOf(k) -> Entry]
        BY <1>0 DEF SlotsOf, Table
      <4>2. d[k].ents = g /\ [s \in SlotsOf(k) |-> g[s]] = g
        BY <3>2 DEF TableSector
      <4>3. TableSector(k, g) = d[k]
        BY <3>2 DEF TableSector
      <4>4. QED
        BY <4>1, <4>2, <4>3
    <3>3. QED
      BY <1>1, <3>1, <3>2
  <2>2. \A a \in DataStart .. Sectors - 1 : d[a] = disk[a]
    BY <1>3, <1>4, Sizes
  <2>3. QED
    BY <1>0, <1>2, <1>4, <2>1, <2>2 DEF TypeOK, DiskOK
<1>6. InBounds(d)
  BY <1>1, <1>4 DEF IInv, InBounds, SuperValid
<1>7. ASSUME NEW s \in Slots
      PROVE  /\ Held(s) \in Nat /\ files[s].start \in Nat /\ t[s].start \in Nat
             /\ Room(files[s]) \in Nat /\ Room(t[s]) \in Nat /\ Room(files[s]) <= Held(s)
  BY <1>0, HeldSound, OpSound, EntrySound
<1>8. ASSUME NEW s \in Live(u)
      PROVE  (u[s] = files[s] /\ s \in Live(files)) \/ (u[s] = t[s] /\ s \in Live(t))
  <2>1. s \in Slots /\ u[s].used /\ u[s].start # 0
    BY DEF Live, Used
  <2>2. u[s] = files[s] \/ u[s] = t[s]
    BY <1>1, <2>1
  <2>3. QED
    BY <2>1, <2>2 DEF Live, Used
<1>9. super.dataUsed \in Nat /\ d[0].super = super /\ disk[0].super = super
  BY <1>0, <1>4, Sizes DEF Super, SuperSector
<1>10. DiskApart(d)
  <2>1. SUFFICES ASSUME sound
                 PROVE  /\ SuperValid(d)
                        /\ \A s \in Live(u) : Below(u[s].start, Room(u[s]), super.dataUsed)
                        /\ \A r, s \in Live(u) : r # s =>
                             Beside(u[r].start, Room(u[r]), u[s].start, Room(u[s]))
    BY <1>9 DEF DiskApart
  <2>2. SuperValid(d)
    BY <1>0, <1>4 DEF SuperValid, SuperSector
  <2>3. ASSUME NEW s \in Live(u) PROVE Below(u[s].start, Room(u[s]), super.dataUsed)
    <3>1. s \in Slots
      BY DEF Live, Used
    <3>2. CASE u[s] = files[s] /\ s \in Live(files)
      <4>1. Below(files[s].start, Held(s), super.dataUsed)
        BY <1>0, <2>1, <3>2 DEF IInv, MemoryApart
      <4>2. QED
        BY <1>7, <1>9, <3>1, <3>2, <4>1, Sizes DEF Below
    <3>3. CASE u[s] = t[s] /\ s \in Live(t)
      BY <1>9, <2>1, <3>3 DEF IInv, DiskApart
    <3>4. QED
      BY <1>8, <3>1, <3>2, <3>3
  <2>4. ASSUME NEW r \in Live(u), NEW s \in Live(u), r # s
        PROVE  Beside(u[r].start, Room(u[r]), u[s].start, Room(u[s]))
    <3>1. r \in Slots /\ s \in Slots
      BY DEF Live, Used
    <3>2. CASE u[r] = files[r] /\ r \in Live(files) /\ u[s] = files[s] /\ s \in Live(files)
      <4>1. Beside(files[r].start, Held(r), files[s].start, Held(s))
        BY <1>0, <2>1, <2>4, <3>2 DEF IInv, MemoryApart
      <4>2. QED
        BY <1>7, <3>1, <3>2, <4>1 DEF Beside
    <3>3. CASE u[r] = t[r] /\ r \in Live(t) /\ u[s] = files[s] /\ s \in Live(files)
      <4>1. Beside(t[r].start, Room(t[r]), files[s].start, Held(s))
        BY <1>0, <2>1, <2>4, <3>3 DEF IInv, CrossApart
      <4>2. QED
        BY <1>7, <3>1, <3>3, <4>1 DEF Beside
    <3>4. CASE u[r] = files[r] /\ r \in Live(files) /\ u[s] = t[s] /\ s \in Live(t)
      <4>1. Beside(t[s].start, Room(t[s]), files[r].start, Held(r))
        BY <1>0, <2>1, <2>4, <3>4 DEF IInv, CrossApart
      <4>2. QED
        BY <1>7, <3>1, <3>4, <4>1 DEF Beside
    <3>5. CASE u[r] = t[r] /\ r \in Live(t) /\ u[s] = t[s] /\ s \in Live(t)
      BY <2>1, <2>4, <3>5 DEF IInv, DiskApart
    <3>6. QED
      BY <1>8, <3>1, <3>2, <3>3, <3>4, <3>5
  <2>5. QED
    BY <2>2, <2>3, <2>4
<1>11. CrossApart(d)
  <2>1. SUFFICES ASSUME sound, NEW r \in Live(u), NEW s \in Live(files), r # s
                 PROVE  Beside(u[r].start, Room(u[r]), files[s].start, Held(s))
    BY <1>9 DEF CrossApart
  <2>2. r \in Slots /\ s \in Slots
    BY DEF Live, Used
  <2>3. CASE u[r] = files[r] /\ r \in Live(files)
    <3>1. Beside(files[r].start, Held(r), files[s].start, Held(s))
      BY <1>0, <2>1, <2>3 DEF IInv, MemoryApart
    <3>2. QED
      BY <1>7, <2>2, <2>3, <3>1 DEF Beside
  <2>4. CASE u[r] = t[r] /\ r \in Live(t)
    BY <1>0, <2>1, <2>4 DEF IInv, CrossApart
  <2>5. QED
    BY <1>8, <2>2, <2>3, <2>4
<1>12. Kept(d)
  <2>1. SUFFICES ASSUME sound, NEW n \in Names, acked[n] # Unknown
                 PROVE  /\ Reads(u, d, n)
                        /\ Has(files, n) = Has(u, n)
                        /\ acked[n].st = "stored" =>
                             u[FindIn(u, n)].start # 0 /\ files[FindIn(u, n)] = u[FindIn(u, n)]
    BY DEF Kept
  <2>2. Has(files, n) = Has(t, n)
    BY <1>0, <2>1, Promised
  <2>3. Has(u, n) = Has(t, n)
    BY <1>1, <2>2 DEF Has, Used
  <2>4. FindIn(u, n) = FindIn(t, n)
    BY <2>3, SameFind
  <2>5. ASSUME acked[n].st = "stored"
        PROVE  /\ u[FindIn(u, n)].start # 0 /\ files[FindIn(u, n)] = u[FindIn(u, n)]
               /\ u[FindIn(u, n)] = t[FindIn(t, n)]
    BY <1>0, <1>1, <2>1, <2>4, <2>5, Promised
  <2>6. Reads(t, d, n)
    BY <1>4, <2>1, DataSpared
  <2>7. Reads(u, d, n)
    BY <2>4, <2>5, <2>6 DEF Reads
  <2>8. QED
    BY <2>2, <2>3, <2>5, <2>7
<1>13. QED
  BY <1>5, <1>6, <1>10, <1>11, <1>12 DEF d

(* A transfer cut short anywhere leaves a drive that is sound. *)
LEMMA TransferSpares ==
  ASSUME IInv, InFlight, TransferInRange, NEW S \in SUBSET DOMAIN Transfer
  PROVE  /\ DiskOK(Landed(S)) /\ InBounds(Landed(S))
         /\ DiskApart(Landed(S)) /\ CrossApart(Landed(S)) /\ Kept(Landed(S))
BY ChunkSpares, SuperSpares, TableSpares DEF InFlight

(* Until something fails, the metadata can be written. *)
LEMMA CleanInRange ==
  ASSUME IInv, op.pc \in {"super", "table"}, faults = 0
  PROVE  TransferInRange
<1>1. part /\ Sectors \in Nat
  BY Sizes DEF IInv, Counted
<1>2. InRange(0, 1) /\ InRange(1, TableSectors)
  BY <1>1, Sizes DEF InRange
<1>3. QED
  BY <1>2 DEF TransferInRange

---------------------------------------------------------------------------
(* What every operation starts from and ends with *)

(* An operation that is over. *)
LEMMA IdleSound ==
  /\ Idle \in Operation /\ Idle.pc = "idle" /\ Idle.cmd = "none" /\ Idle.name = NoName
  /\ Off \in Operation /\ Off.pc = "off" /\ Off.cmd = "none" /\ Off.name = NoName
<1>1. (CHOOSE v \in Values : TRUE) \in Values
  BY ValueAssumption
<1>2. 1 \in Slots /\ 0 \in 0 .. Sectors /\ 0 \in 0 .. MaxLen
  BY Sizes
<1>3. Idle \in Operation
  BY <1>1, <1>2 DEF Idle, Operation
<1>4. Off = [Idle EXCEPT !.pc = "off"]
  BY DEF Off
<1>5. QED
  BY <1>3, <1>4 DEF Idle, Operation

(* Memory as the machine is switched on. *)
LEMMA EmptySound ==
  LET t == [s \in Slots |-> FreeEntry]
  IN  /\ t \in Table /\ [dataUsed |-> 0, fileCount |-> 0] \in Super
      /\ Pointed([dataUsed |-> 0, fileCount |-> 0])
      /\ \A s \in Slots : Bounded(t[s]) /\ ~t[s].used
      /\ Used(t) = {} /\ Live(t) = {} /\ \A n : Has(t, n) = {}
<1> DEFINE t == [s \in Slots |-> FreeEntry]
<1>1. FreeEntry \in Entry
  BY Sizes DEF FreeEntry, Entry
<1>2. t \in Table /\ \A s \in Slots : ~t[s].used
  BY <1>1 DEF Table, FreeEntry
<1>3. LET u == [dataUsed |-> 0, fileCount |-> 0] IN u \in Super /\ Pointed(u)
  BY Sizes DEF Super, Pointed
<1>4. Bounded(FreeEntry)
  BY Sizes DEF Bounded, FreeEntry
<1>5. Used(t) = {}
  BY <1>2 DEF Used
<1>6. Live(t) = {} /\ \A n : Has(t, n) = {}
  BY <1>5 DEF Live, Has
<1>7. \A s \in Slots : Bounded(t[s])
  BY <1>4
<1>8. QED
  BY <1>2, <1>3, <1>5, <1>6, <1>7

(* What ends before the bump pointer does so when the pointer moves on. *)
LEMMA BelowMore ==
  ASSUME NEW a \in Nat, NEW m \in Nat, NEW u \in Nat, NEW v \in Nat, u <= v, Below(a, m, u)
  PROVE  Below(a, m, v)
BY Sizes DEF Below

(* When an operation is over, its slot holds no more than its entry says.  *)
LEMMA HeldShrinks ==
  ASSUME TypeOK, TypeOK', UNCHANGED <<files, super, mounted>>,
         op'.pc = "data" => op.pc = "data" /\ op'.slot = op.slot /\ op'.len = op.len,
         sound' => sound /\ (Overlong => op'.pc = "data"),
         MemoryApart, CrossApart(disk')
  PROVE  MemoryApart' /\ CrossApart(disk)'
<1>1. ASSUME sound', NEW s \in Slots
      PROVE  /\ Held(s) \in Nat /\ Held(s)' \in Nat /\ Held(s)' <= Held(s) /\ files[s].start \in Nat
             /\ TableOf(disk')[s].start \in Nat /\ Room(TableOf(disk')[s]) \in Nat
  <2>1. /\ Room(files[s]) \in Nat \ {0} /\ op.len \in Nat /\ files[s].start \in Nat
        /\ Held(s) \in Nat \ {0}
    BY HeldSound, OpSound, EntrySound
  <2>2. TableOf(disk')[s] \in Entry
    BY TableSound DEF TypeOK, Table
  <2>3. Held(s)' = Held(s) \/ (Held(s)' = Room(files[s]) /\ Room(files[s]) <= Held(s))
    <3>1. CASE op'.pc = "data"
      <4>1. Overlong' = Overlong
        BY <3>1 DEF Overlong
      <4>2. QED
        BY <3>1, <4>1 DEF Held
    <3>2. CASE op'.pc # "data"
      <4>1. Held(s)' = Room(files[s])
        BY <3>2 DEF Held
      <4>2. Room(files[s]) <= Held(s)
        BY <1>1, <2>1, <3>2 DEF Held, Max2
      <4>3. QED
        BY <4>1, <4>2
    <3>3. QED
      BY <3>1, <3>2
  <2>4. QED
    BY <2>1, <2>2, <2>3, EntrySound
<1>2. ASSUME sound, mounted PROVE super.dataUsed \in Nat
  BY Sizes DEF TypeOK, Super
<1>3. MemoryApart'
  <2>1. SUFFICES ASSUME sound', sound, mounted
                 PROVE  /\ \A s \in Live(files) : Below(files[s].start, Held(s)', super.dataUsed)
                        /\ \A r, s \in Live(files) : r # s =>
                             Beside(files[r].start, Held(r)', files[s].start, Held(s)')
    BY DEF MemoryApart
  <2>2. /\ \A s \in Live(files) : Below(files[s].start, Held(s), super.dataUsed)
        /\ \A r, s \in Live(files) : r # s => Beside(files[r].start, Held(r), files[s].start, Held(s))
    BY <2>1 DEF MemoryApart
  <2>3. Live(files) \subseteq Slots
    BY DEF Live, Used
  <2>4. \A s \in Live(files) : Below(files[s].start, Held(s)', super.dataUsed)
    <3>1. SUFFICES ASSUME NEW s \in Live(files) PROVE Below(files[s].start, Held(s)', super.dataUsed)
      OBVIOUS
    <3>2. Below(files[s].start, Held(s), super.dataUsed) /\ s \in Slots
      BY <2>2, <2>3
    <3>3. QED
      BY <1>1, <1>2, <2>1, <3>2, Sizes DEF Below
  <2>5. \A r, s \in Live(files) : r # s => Beside(files[r].start, Held(r)', files[s].start, Held(s)')
    BY <1>1, <2>1, <2>2, <2>3 DEF Beside
  <2>6. QED
    BY <2>4, <2>5
<1>4. CrossApart(disk)'
  <2> DEFINE t == TableOf(disk')
  <2>1. SUFFICES ASSUME sound', sound, mounted, NEW r \in Live(t), NEW s \in Live(files), r # s
                 PROVE  Beside(t[r].start, Room(t[r]), files[s].start, Held(s)')
    BY DEF CrossApart
  <2>2. Beside(t[r].start, Room(t[r]), files[s].start, Held(s))
    BY <2>1 DEF CrossApart
  <2>3. r \in Slots /\ s \in Slots
    BY DEF Live, Used
  <2>4. QED
    BY <1>1, <2>1, <2>2, <2>3 DEF Beside
<1>5. QED
  BY <1>3, <1>4

---------------------------------------------------------------------------
(* The invariant holds at the start and after every step *)

(* Blank sectors are a drive. *)
LEMMA InitIInv == Init => IInv
<1> SUFFICES ASSUME Init PROVE IInv
  OBVIOUS
<1>1. /\ op = Off /\ files = [s \in Slots |-> FreeEntry] /\ faults = 0 /\ sound = FALSE
      /\ mounted = FALSE /\ part = FALSE /\ super = [dataUsed |-> 0, fileCount |-> 0]
      /\ disk = [a \in Addr |-> Blank] /\ acked = [n \in Names |-> Unknown]
  BY DEF Init
<1>2. \A a \in Addr : disk[a] = Blank
  BY <1>1
<1>3. 0 \in Addr /\ 1 .. TableSectors \subseteq Addr /\ DataStart .. Sectors - 1 \subseteq Addr
  BY Sizes DEF Addr
<1>4. DiskOK(disk)
  BY <1>1, <1>2, <1>3 DEF DiskOK
<1>5. TableOf(disk) = [s \in Slots |-> FreeEntry]
  <2>1. \A s \in Slots : disk[SectorOf(s)].kind # "table"
    BY <1>2, <1>3, SlotInTable DEF Blank
  <2>2. QED
    BY <2>1 DEF TableOf
<1>6. TypeOK
  <2>1. acked \in [Names -> Promises]
    BY <1>1 DEF Promises
  <2>2. 0 \in 0 .. MaxFaults
    BY Sizes
  <2>3. QED
    BY <1>1, <1>4, <2>1, <2>2, IdleSound, EmptySound DEF TypeOK
<1>7. InBounds(disk)
  <2>1. ~SuperValid(disk) /\ Pointed(super)
    BY <1>1, <1>2, <1>3, Sizes DEF SuperValid, Blank, Pointed
  <2>2. QED
    BY <1>1, <1>5, <2>1, EmptySound DEF InBounds
<1>8. Named /\ Writing /\ Zeroing /\ Flushing
  BY <1>1, IdleSound DEF Named, Writing, Zeroing, Flushing
<1>9. Counted
  BY <1>1, IdleSound DEF Counted
<1>10. QED
  BY <1>1, <1>6, <1>7, <1>8, <1>9 DEF IInv, DiskApart, MemoryApart, CrossApart, Kept

(* Power is lost: the drive is left as a cut transfer leaves it. *)
LEMMA PowerLossKeeps ==
  ASSUME IInv, PowerLoss
  PROVE  IInv'
<1>1. /\ op' = Off /\ part' = FALSE /\ mounted' = FALSE
      /\ super' = [dataUsed |-> 0, fileCount |-> 0] /\ files' = [s \in Slots |-> FreeEntry]
      /\ UNCHANGED <<acked, sound>>
      /\ IF op.pc = "idle" THEN NoFault ELSE Fault
  BY DEF PowerLoss, Forgotten
<1>2. /\ DiskOK(disk') /\ \A s \in Slots : Bounded(TableOf(disk')[s])
      /\ SuperValid(disk') => Pointed(disk'[0].super)
      /\ DiskApart(disk') /\ Kept(disk')
      /\ op.pc = "idle" => disk' = disk
  <2>1. CASE disk' = disk
    BY <2>1 DEF IInv, TypeOK, InBounds
  <2>2. CASE InFlight /\ TransferInRange /\ \E S \in SUBSET DOMAIN Transfer : disk' = Landed(S)
    BY <2>2, TransferSpares DEF InFlight, InBounds
  <2>3. QED
    BY <2>1, <2>2 DEF PowerLoss
<1>3. faults' \in 0 .. MaxFaults
  BY <1>1, Sizes DEF IInv, TypeOK, Fault, NoFault
<1>4. TypeOK'
  BY <1>1, <1>2, <1>3, IdleSound, EmptySound DEF IInv, TypeOK
<1>5. InBounds(disk)'
  BY <1>1, <1>2, EmptySound DEF InBounds
<1>6. Named' /\ Writing' /\ Zeroing' /\ Flushing'
  BY <1>1, IdleSound DEF Named, Writing, Zeroing, Flushing
<1>7. DiskApart(disk)' /\ MemoryApart' /\ CrossApart(disk)'
  BY <1>1, <1>2 DEF DiskApart, MemoryApart, CrossApart
<1>8. Kept(disk)'
  BY <1>1, <1>2 DEF Kept, Reads
<1>9. Counted'
  <2>1. SUFFICES ASSUME faults' = 0, sound
                 PROVE  disk'[0].super.fileCount = Cardinality(Used(TableOf(disk'))) % CountMod
    BY <1>1, IdleSound DEF Counted
  <2>2. op.pc = "idle" /\ faults = 0
    BY <1>1, <2>1, Sizes DEF IInv, TypeOK, Fault, NoFault
  <2>3. QED
    BY <1>2, <2>1, <2>2 DEF IInv, Counted
<1>10. QED
  BY <1>4, <1>5, <1>6, <1>7, <1>8, <1>9 DEF IInv

(* A transfer is refused or fails: the operation is given up. *)
LEMMA TransferFailsKeeps ==
  ASSUME IInv, TransferFails
  PROVE  IInv'
<1>1. /\ op' = Idle /\ UNCHANGED <<part, mounted, super, files, acked>>
      /\ sound' = (sound /\ ~Overlong)
  BY DEF TransferFails, memory
<1>2. /\ DiskOK(disk') /\ InBounds(disk') /\ DiskApart(disk') /\ CrossApart(disk') /\ Kept(disk')
      /\ faults' \in 0 .. MaxFaults
      /\ faults' = 0 => faults = 0 /\ disk' = disk /\ op.pc \in {"zero", "data"}
  <2>0. TypeOK
    BY DEF IInv
  <2>1. CASE ~TransferInRange /\ UNCHANGED disk /\ NoFault
    <3>1. faults = 0 => op.pc \in {"zero", "data"}
      BY <2>1, CleanInRange DEF TransferFails, InFlight
    <3>2. QED
      BY <2>0, <2>1, <3>1 DEF IInv, TypeOK, NoFault
  <2>2. CASE TransferInRange /\ Fault /\ \E S \in SUBSET DOMAIN Transfer : disk' = Landed(S)
    <3>1. faults' \in 0 .. MaxFaults /\ faults' # 0
      BY <2>0, <2>2, Sizes DEF TypeOK, Fault
    <3>2. QED
      BY <2>2, <3>1, TransferSpares DEF TransferFails
  <2>3. QED
    BY <2>1, <2>2 DEF TransferFails
<1>3. TypeOK'
  BY <1>1, <1>2, IdleSound DEF IInv, TypeOK
<1>4. InBounds(disk)'
  BY <1>1, <1>2 DEF InBounds, SuperValid
<1>5. Named' /\ Writing' /\ Zeroing' /\ Flushing'
  BY <1>1, IdleSound DEF Named, Writing, Zeroing, Flushing
<1>6. MemoryApart' /\ CrossApart(disk)'
  BY <1>1, <1>2, <1>3, IdleSound, HeldShrinks DEF IInv
<1>7. DiskApart(disk)' /\ Kept(disk)'
  BY <1>1, <1>2 DEF DiskApart, Kept, Reads
<1>8. Counted'
  BY <1>1, <1>2, IdleSound DEF IInv, Counted
<1>9. QED
  BY <1>3, <1>4, <1>5, <1>6, <1>7, <1>8 DEF IInv

(* Boot takes over what the drive says, if it has a superblock. *)
LEMMA BootKeeps ==
  ASSUME IInv, Boot
  PROVE  IInv'
<1> DEFINE t == TableOf(disk)
<1>1. /\ op' = Idle /\ part' = TRUE /\ mounted' = SuperValid(disk)
      /\ super' = IF SuperValid(disk) THEN disk[0].super ELSE super
      /\ files' = IF SuperValid(disk) THEN t ELSE files
      /\ UNCHANGED <<faults, disk, acked, sound>>
      /\ op.pc = "off"
  BY DEF Boot, NoFault
<1>2. TypeOK /\ ~mounted /\ t \in Table
  BY <1>1, TableSound DEF IInv, Named, TypeOK
<1>3. SuperValid(disk) => disk[0].super \in Super
  BY <1>2 DEF TypeOK, DiskOK, SuperValid, Blank
<1>4. TypeOK'
  <2>1. super' \in Super /\ files' \in Table /\ mounted' \in BOOLEAN
    BY <1>1, <1>2, <1>3 DEF TypeOK, SuperValid
  <2>2. QED
    BY <1>1, <1>2, <2>1, IdleSound DEF TypeOK
<1>5. InBounds(disk)'
  BY <1>1 DEF IInv, InBounds
<1>6. Named' /\ Writing' /\ Zeroing' /\ Flushing'
  BY <1>1, IdleSound DEF Named, Writing, Zeroing, Flushing
<1>7. DiskApart(disk)'
  BY <1>1 DEF IInv, DiskApart
<1>8. ASSUME NEW s \in Slots, mounted'
      PROVE  Held(s)' = Room(t[s]) /\ files'[s] = t[s]
  <2>1. files' = t /\ op'.pc = "idle"
    BY <1>1, <1>8, IdleSound
  <2>2. t[s] \in Entry
    BY <1>2, OpSound
  <2>3. QED
    BY <2>1, <2>2, EntrySound DEF Held, Max2
<1>9. MemoryApart' /\ CrossApart(disk)'
  <2>1. SUFFICES ASSUME sound, mounted' PROVE MemoryApart' /\ CrossApart(disk)'
    BY <1>1 DEF MemoryApart, CrossApart
  <2>2. files' = t /\ super' = disk[0].super /\ Live(t) \subseteq Slots
    BY <1>1, <2>1 DEF Live, Used
  <2>3. \A s \in Slots : Held(s)' = Room(t[s])
    BY <1>8, <2>1
  <2>4. super'.dataUsed <= super'.dataUsed
    BY <1>1, <1>3, <2>1, <2>2, Sizes DEF Super
  <2>5. /\ \A s \in Live(t) : Below(t[s].start, Room(t[s]), disk[0].super.dataUsed)
        /\ \A r, s \in Live(t) : r # s => Beside(t[r].start, Room(t[r]), t[s].start, Room(t[s]))
    BY <2>1 DEF IInv, DiskApart
  <2>6. MemoryApart'
    BY <2>2, <2>3, <2>5 DEF MemoryApart
  <2>7. CrossApart(disk)'
    BY <1>1, <2>2, <2>3, <2>4, <2>5 DEF CrossApart
  <2>8. QED
    BY <2>6, <2>7
<1>10. Kept(disk)'
  BY <1>1 DEF IInv, Kept, Reads
<1>11. Counted'
  BY <1>1, <1>2, IdleSound DEF IInv, Counted
<1>12. QED
  BY <1>4, <1>5, <1>6, <1>7, <1>9, <1>10, <1>11 DEF IInv

(* A boot that fails mounts nothing; mount never touches the file system.  *)
LEMMA MountKeeps ==
  ASSUME IInv, BootFails \/ MountPart
  PROVE  IInv'
<1>1. /\ UNCHANGED <<disk, mounted, files, acked, sound>>
      /\ op'.pc = "idle" /\ op'.cmd = "none" /\ op'.name = NoName /\ op' \in Operation
      /\ part' \in BOOLEAN
      /\ super' = super \/ (~mounted /\ super' = disk[0].super /\ SuperValid(disk))
      /\ faults' \in 0 .. MaxFaults
      /\ faults' = 0 => faults = 0 /\ part' = TRUE
      /\ op.pc \in {"off", "idle"}
  <2>1. CASE BootFails
    BY <2>1, IdleSound, Sizes DEF BootFails, Fault, IInv, TypeOK, Named
  <2>2. CASE MountPart
    <3>1. op.pc = "idle" /\ op \in Operation /\ faults \in 0 .. MaxFaults
      BY <2>2 DEF MountPart, IInv, TypeOK
    <3>2. op.cmd = "none"
      BY <3>1 DEF IInv, Named
    <3>3. op.name = NoName
      BY <3>2 DEF IInv, Named
    <3>4. \/ part' = TRUE /\ faults' = faults
          \/ part' = FALSE /\ faults < MaxFaults /\ faults' = faults + 1
      BY <2>2 DEF MountPart, Fault, NoFault
    <3>5. part' \in BOOLEAN /\ faults' \in 0 .. MaxFaults /\ (faults' = 0 => faults = 0 /\ part' = TRUE)
      <4>1. faults \in Nat /\ MaxFaults \in Nat
        BY <3>1, Sizes
      <4>2. CASE part' = TRUE /\ faults' = faults
        BY <3>1, <4>2
      <4>3. CASE part' = FALSE /\ faults < MaxFaults /\ faults' = faults + 1
        <5>1. faults' \in 0 .. MaxFaults /\ faults' # 0
          BY <4>1, <4>3
        <5>2. QED
          BY <4>3, <5>1
      <4>4. QED
        BY <3>4, <4>2, <4>3
    <3>6. UNCHANGED <<disk, mounted, super, files, op, acked, sound>>
      BY <2>2 DEF MountPart
    <3>7. QED
      BY <3>1, <3>2, <3>3, <3>5, <3>6
  <2>3. QED
    BY <2>1, <2>2
<1>2. TypeOK'
  BY <1>1 DEF IInv, TypeOK, DiskOK, SuperValid, Blank
<1>3. InBounds(disk)' /\ DiskApart(disk)' /\ Kept(disk)'
  BY <1>1 DEF IInv, InBounds, DiskApart, Kept, Reads
<1>4. Named' /\ Writing' /\ Zeroing' /\ Flushing'
  BY <1>1 DEF Named, Writing, Zeroing, Flushing
<1>5. MemoryApart' /\ CrossApart(disk)'
  <2>1. CASE mounted
    <3>1. super' = super
      BY <1>1, <2>1
    <3>2. QED
      BY <1>1, <1>2, <3>1, HeldShrinks DEF IInv, Overlong
  <2>2. CASE ~mounted
    BY <1>1, <2>2 DEF MemoryApart, CrossApart
  <2>3. QED
    BY <2>1, <2>2
<1>6. Counted'
  BY <1>1 DEF IInv, Counted
<1>7. QED
  BY <1>2, <1>3, <1>4, <1>5, <1>6 DEF IInv

(* Sectors in front of the bump pointer that no other slot has. *)
Clear(s, a, m, used) ==
  /\ Below(a, m, used)
  /\ \A r \in Live(files) : r # s => Beside(files[r].start, Room(files[r]), a, m)
  /\ \A r \in Live(TableOf(disk)) : r # s =>
       Beside(TableOf(disk)[r].start, Room(TableOf(disk)[r]), a, m)

(* An operation on the name n gives slot s the entry e, whose extent is no *)
(* other's.                                                                *)
Replaces(s, e, n) ==
  /\ TypeOK' /\ UNCHANGED <<disk, mounted, sound>>
  /\ super.dataUsed <= super'.dataUsed /\ Pointed(super')
  /\ files' = [files EXCEPT ![s] = e] /\ Bounded(e)
  /\ op.pc = "data" => op.slot = s
  /\ op'.pc = "data" => op'.slot = s
  /\ s \in Has(files, n) \/ ~files[s].used
  /\ ~e.used \/ e.name = n
  /\ acked'[n] = Unknown /\ \A m \in Names : m # n => acked'[m] = acked[m]
  /\ sound /\ mounted /\ e.used /\ e.start # 0 => Clear(s, e.start, Held(s)', super'.dataUsed)

(* Then no promise made of another name is broken. *)
LEMMA EntryKeeps ==
  ASSUME IInv, NEW s \in Slots, NEW e, NEW n \in Names, Replaces(s, e, n)
  PROVE  InBounds(disk)' /\ MemoryApart' /\ CrossApart(disk)' /\ Kept(disk)'
<1> USE DEF Replaces
<1> DEFINE t == TableOf(disk)
<1>0. TypeOK
  BY DEF IInv
<1>1. files'[s] = e /\ \A r \in Slots : r # s => files'[r] = files[r]
  BY <1>0 DEF TypeOK, Table
<1>2. InBounds(disk)'
  BY <1>1 DEF IInv, InBounds, SuperValid
<1>3. ASSUME NEW r \in Slots
      PROVE  /\ files[r].start \in Nat /\ t[r].start \in Nat
             /\ Room(files[r]) \in Nat /\ Room(t[r]) \in Nat
             /\ Held(r)' \in Nat /\ files'[r].start \in Nat
             /\ r # s => Held(r) = Room(files[r]) /\ Held(r)' = Room(files[r])
  <2>1. files[r] \in Entry /\ files'[r] \in Entry /\ t[r] \in Entry /\ op'.len \in Nat
    BY <1>0, OpSound DEF TypeOK, Operation, Table
  <2>2. Room(files[r]) \in Nat \ {0} /\ Room(files'[r]) \in Nat \ {0}
    BY <2>1, EntrySound
  <2>3. Held(r)' \in Nat
    BY <2>1, <2>2 DEF Held, Max2, Need
  <2>4. r # s => Held(r) = Room(files[r]) /\ Held(r)' = Room(files[r])
    BY <1>1, <2>2 DEF Held, Max2
  <2>5. QED
    BY <2>1, <2>2, <2>3, <2>4, EntrySound
<1>4. super.dataUsed \in Nat /\ super'.dataUsed \in Nat
  BY <1>0, Sizes DEF TypeOK, Super
<1>5. ASSUME NEW r \in Live(files)'
      PROVE  /\ r \in Slots
             /\ r = s => e.used /\ e.start # 0
             /\ r # s => r \in Live(files)
  BY <1>1 DEF Live, Used
<1>6. ASSUME NEW r \in Live(files)', r # s
      PROVE  /\ r \in Live(files) /\ files'[r] = files[r] /\ Held(r)' = Held(r)
             /\ files[r].start \in Nat /\ Held(r) \in Nat
  BY <1>1, <1>3, <1>5, <1>6
<1>7. MemoryApart'
  <2>1. SUFFICES ASSUME sound, mounted
                 PROVE  /\ \A r \in Live(files)' : Below(files'[r].start, Held(r)', super'.dataUsed)
                        /\ \A q, r \in Live(files)' : q # r =>
                             Beside(files'[q].start, Held(q)', files'[r].start, Held(r)')
    BY DEF MemoryApart
  <2>2. /\ \A r \in Live(files) : Below(files[r].start, Held(r), super.dataUsed)
        /\ \A q, r \in Live(files) : q # r => Beside(files[q].start, Held(q), files[r].start, Held(r))
    BY <2>1 DEF IInv, MemoryApart
  <2>3. ASSUME NEW r \in Live(files)' PROVE Below(files'[r].start, Held(r)', super'.dataUsed)
    <3>1. CASE r = s
      BY <1>1, <1>5, <2>1, <3>1 DEF Clear
    <3>2. CASE r # s
      <4>1. Below(files[r].start, Held(r), super.dataUsed)
        BY <1>6, <2>2, <3>2
      <4>2. Below(files[r].start, Held(r), super'.dataUsed)
        BY <1>4, <1>6, <3>2, <4>1, BelowMore
      <4>3. QED
        BY <1>6, <3>2, <4>2
    <3>3. QED
      BY <3>1, <3>2
  <2>4. ASSUME NEW r \in Live(files)', r # s, s \in Live(files)'
        PROVE  Beside(files'[r].start, Held(r)', files'[s].start, Held(s)')
    BY <1>1, <1>3, <1>5, <2>1, <2>4 DEF Clear
  <2>5. ASSUME NEW q \in Live(files)', NEW r \in Live(files)', q # r
        PROVE  Beside(files'[q].start, Held(q)', files'[r].start, Held(r)')
    <3>1. CASE r = s
      BY <2>4, <2>5, <3>1
    <3>2. CASE q = s
      BY <1>3, <1>5, <2>4, <2>5, <3>2 DEF Beside
    <3>3. CASE q # s /\ r # s
      BY <1>6, <2>2, <2>5, <3>3
    <3>4. QED
      BY <3>1, <3>2, <3>3
  <2>6. QED
    BY <2>3, <2>5
<1>8. CrossApart(disk)'
  <2>1. SUFFICES ASSUME sound, mounted
                 PROVE  /\ disk[0].super.dataUsed <= super'.dataUsed
                        /\ \A q \in Live(t), r \in Live(files)' : q # r =>
                             Beside(t[q].start, Room(t[q]), files'[r].start, Held(r)')
    BY DEF CrossApart
  <2>2. /\ disk[0].super.dataUsed <= super.dataUsed
        /\ \A q \in Live(t), r \in Live(files) : q # r =>
             Beside(t[q].start, Room(t[q]), files[r].start, Held(r))
    BY <2>1 DEF IInv, CrossApart
  <2>3. disk[0].super.dataUsed \in Nat
    <3>1. SuperValid(disk)
      BY <2>1 DEF IInv, DiskApart
    <3>2. QED
      BY <1>0, <3>1, Sizes DEF TypeOK, DiskOK, SuperValid, Blank, Super
  <2>4. ASSUME NEW q \in Live(t), NEW r \in Live(files)', q # r
        PROVE  Beside(t[q].start, Room(t[q]), files'[r].start, Held(r)')
    <3>1. CASE r = s
      BY <1>1, <1>5, <2>1, <2>4, <3>1 DEF Clear
    <3>2. CASE r # s
      BY <1>6, <2>2, <2>4, <3>2
    <3>3. QED
      BY <3>1, <3>2
  <2>5. disk[0].super.dataUsed <= super'.dataUsed
    BY <1>4, <2>2, <2>3
  <2>6. QED
    BY <2>4, <2>5
<1>9. Kept(disk)'
  <2>1. SUFFICES ASSUME sound, NEW m \in Names, acked'[m] # Unknown
                 PROVE  /\ Reads(t, disk, m)'
                        /\ mounted => Has(files', m) = Has(t, m)
                        /\ acked'[m].st = "stored" =>
                             LET f == FindIn(t, m)
                             IN  t[f].start # 0 /\ (mounted => files'[f] = t[f])
    BY DEF Kept
  <2>2. m # n /\ acked'[m] = acked[m]
    BY <2>1
  <2>3. s \notin Has(files, m) /\ s \notin Has(files', m)
    BY <1>1, <2>2 DEF Has, Used
  <2>4. Has(files', m) = Has(files, m)
    <3>1. \A r \in Slots : r \in Has(files', m) <=> r \in Has(files, m)
      BY <1>1, <2>3 DEF Has, Used
    <3>2. QED
      BY <3>1 DEF Has, Used
  <2>5. Reads(t, disk, m)'
    BY <2>1, <2>2, Promised DEF Reads
  <2>6. QED
    BY <1>1, <2>1, <2>2, <2>3, <2>4, <2>5, Promised
<1>10. QED
  BY <1>2, <1>7, <1>8, <1>9

(* fileCount counts up and down modulo its range. *)
LEMMA CountSteps ==
  ASSUME NEW x \in Nat, NEW c \in Nat \ {0}
  PROVE  /\ x % c \in 0 .. c - 1
         /\ ((x % c) + 1) % c = (x + 1) % c
         /\ x > 0 => ((x % c) + c - 1) % c = (x - 1) % c
<1> DEFINE r == x % c
<1>1. r \in 0 .. c - 1
  OBVIOUS
<1>2. PICK q \in Nat : x = q * c + r
  <2>1. x \div c \in Nat /\ x = (x \div c) * c + r
    OBVIOUS
  <2>2. QED
    BY <2>1
<1>3. ASSUME NEW k \in Nat, NEW y \in 0 .. c - 1 PROVE (k * c + y) % c = y
  BY <1>3
<1>4. (r + 1) % c = (x + 1) % c
  <2>1. CASE r + 1 < c
    <3>1. r + 1 \in 0 .. c - 1 /\ x + 1 = q * c + (r + 1)
      BY <1>1, <1>2, <2>1
    <3>2. (0 * c + (r + 1)) % c = r + 1 /\ (q * c + (r + 1)) % c = r + 1
      BY <1>3, <3>1
    <3>3. QED
      BY <1>1, <3>1, <3>2
  <2>2. CASE r + 1 = c
    <3>1. 0 \in 0 .. c - 1 /\ x + 1 = (q + 1) * c + 0 /\ r + 1 = 1 * c + 0
      BY <1>1, <1>2, <2>2
    <3>2. ((q + 1) * c + 0) % c = 0 /\ (1 * c + 0) % c = 0
      BY <1>2, <1>3, <3>1
    <3>3. QED
      BY <3>1, <3>2
  <2>3. QED
    BY <1>1, <2>1, <2>2
<1>5. ASSUME x > 0 PROVE (r + c - 1) % c = (x - 1) % c
  <2>1. CASE r > 0
    <3>1. r - 1 \in 0 .. c - 1 /\ x - 1 = q * c + (r - 1) /\ r + c - 1 = 1 * c + (r - 1)
      BY <1>1, <1>2, <2>1
    <3>2. (1 * c + (r - 1)) % c = r - 1 /\ (q * c + (r - 1)) % c = r - 1
      BY <1>2, <1>3, <3>1
    <3>3. QED
      BY <3>1, <3>2
  <2>2. CASE r = 0
    <3>1. q # 0
      BY <1>2, <1>5, <2>2
    <3>2. q - 1 \in Nat /\ c - 1 \in 0 .. c - 1
      BY <1>2, <3>1
    <3>3. x - 1 = (q - 1) * c + (c - 1) /\ r + c - 1 = 0 * c + (c - 1)
      BY <1>2, <2>2
    <3>4. ((q - 1) * c + (c - 1)) % c = c - 1 /\ (0 * c + (c - 1)) % c = c - 1
      BY <1>3, <3>2
    <3>5. QED
      BY <3>3, <3>4
  <2>3. QED
    BY <1>1, <2>1, <2>2
<1>6. QED
  BY <1>1, <1>4, <1>5

(* An entry is taken out of the table: rm, with or without --frfr. *)
LEMMA RemoveKeeps ==
  ASSUME IInv, mounted, op.pc \in {"idle", "zero"},
         NEW n \in Names, NEW s, s = FindIn(files, n), s # 0, RemoveEntry(s, n),
         UNCHANGED <<disk, part, mounted, faults, sound>>,
         acked' \in [Names -> Promises], acked'[n] = Unknown,
         \A m \in Names : m # n => acked'[m] = acked[m]
  PROVE  IInv'
<1>0. TypeOK
  BY DEF IInv
<1>1. /\ files' = [files EXCEPT ![s] = FreeEntry]
      /\ super' = [super EXCEPT !.fileCount = (@ + CountMod - 1) % CountMod]
      /\ op' = [Idle EXCEPT !.pc = "super", !.cmd = "rm", !.name = n]
  BY DEF RemoveEntry
<1>2. s \in Has(files, n) /\ s \in Slots
  BY FindSound
<1>3. /\ op' \in Operation /\ op'.pc = "super" /\ op'.cmd = "rm" /\ op'.name = n
  BY <1>1, IdleSound DEF Operation
<1>4. FreeEntry \in Entry /\ ~FreeEntry.used /\ Bounded(FreeEntry)
  BY Sizes DEF FreeEntry, Entry, Bounded
<1>5. /\ super.fileCount \in Nat /\ super'.dataUsed = super.dataUsed /\ super.dataUsed \in Nat
      /\ super'.fileCount = (super.fileCount + CountMod - 1) % CountMod
      /\ super' \in Super
  <2>1. super \in Super
    BY <1>0 DEF TypeOK
  <2>2. super.fileCount \in Nat /\ super.dataUsed \in Nat /\ super.dataUsed \in 0 .. Sectors
    BY <2>1, Sizes DEF Super
  <2>3. (super.fileCount + CountMod - 1) % CountMod \in 0 .. CountMod - 1
    BY <2>2, Sizes
  <2>4. super' \in Super
    BY <1>1, <2>1, <2>3 DEF Super
  <2>5. QED
    BY <1>1, <2>1, <2>2, <2>4 DEF Super
<1>6. TypeOK'
  BY <1>0, <1>1, <1>3, <1>4, <1>5 DEF TypeOK, Table
<1>7. InBounds(disk)' /\ MemoryApart' /\ CrossApart(disk)' /\ Kept(disk)'
  <2>1. super.dataUsed <= super'.dataUsed /\ Pointed(super')
    BY <1>5 DEF IInv, InBounds, Pointed
  <2>2. /\ op.pc = "data" => op.slot = s
        /\ op'.pc = "data" => op'.slot = s
        /\ s \in Has(files, n) \/ ~files[s].used
        /\ ~FreeEntry.used \/ FreeEntry.name = n
        /\ ~(sound /\ mounted /\ FreeEntry.used /\ FreeEntry.start # 0)
    BY <1>2, <1>3, <1>4
  <2>3. Replaces(s, FreeEntry, n)
    BY <1>1, <1>2, <1>4, <1>6, <2>1, <2>2 DEF Replaces
  <2>4. QED
    BY <1>1, <1>2, <1>4, <2>3, EntryKeeps
<1>8. DiskApart(disk)'
  BY DEF IInv, DiskApart
<1>9. Named' /\ Writing' /\ Zeroing' /\ Flushing'
  BY <1>3 DEF Named, Writing, Zeroing, Flushing
<1>10. Counted'
  <2>1. ASSUME faults = 0, sound
        PROVE  super'.fileCount = Cardinality(Used(files')) % CountMod
    <3>1. Used(files) \subseteq Slots /\ s \in Used(files)
      BY <1>2 DEF Used, Has
    <3>2. IsFiniteSet(Used(files)) /\ Cardinality(Used(files)) \in Nat
      BY <3>1, FS_Subset, FS_CardinalityType, Sizes
    <3>3. Used(files') = Used(files) \ {s}
      BY <1>0, <1>1, <1>2, <1>4 DEF TypeOK, Table, Used
    <3>4. Cardinality(Used(files')) = Cardinality(Used(files)) - 1
      BY <3>1, <3>2, <3>3, FS_RemoveElement
    <3>5. Cardinality(Used(files)) > 0
      BY <3>1, <3>2, FS_EmptySet
    <3>6. super.fileCount = Cardinality(Used(files)) % CountMod
      BY <2>1 DEF IInv, Counted
    <3>7. super'.fileCount = ((Cardinality(Used(files)) % CountMod) + CountMod - 1) % CountMod
      BY <1>5, <3>6
    <3>8. @ = (Cardinality(Used(files)) - 1) % CountMod
      BY <3>2, <3>5, CountSteps, Sizes
    <3>9. QED
      BY <3>4, <3>7, <3>8
  <2>2. QED
    BY <1>3, <2>1 DEF IInv, Counted
<1>11. QED
  BY <1>6, <1>7, <1>8, <1>9, <1>10 DEF IInv

(* rm goes on to Flush. *)
LEMMA RmKeeps ==
  ASSUME IInv, NEW n \in Names, Rm(n)
  PROVE  IInv'
<1>1. /\ op.pc = "idle" /\ mounted /\ FindIn(files, n) # 0 /\ RemoveEntry(FindIn(files, n), n)
      /\ UNCHANGED <<disk, part, mounted, faults, sound>>
      /\ acked' = [acked EXCEPT ![n] = Unknown]
  BY DEF Rm, Promise, NoFault
<1>2. /\ acked' \in [Names -> Promises] /\ acked'[n] = Unknown
      /\ \A m \in Names : m # n => acked'[m] = acked[m]
  BY <1>1 DEF IInv, TypeOK, Promises
<1>3. QED
  BY <1>1, <1>2, RemoveKeeps

(* The sectors are zeroed: rm goes on to Remove, wipepart is over. *)
LEMMA ZeroDoneKeeps ==
  ASSUME IInv, ZeroDone
  PROVE  IInv'
<1>0. TypeOK /\ op.pc = "zero" /\ UNCHANGED <<disk, part, mounted, faults, acked, sound>>
  BY DEF IInv, ZeroDone, NoFault
<1>1. CASE op.cmd = "rm"
  <2>1. /\ mounted /\ op.slot = FindIn(files, op.name) /\ RemoveEntry(op.slot, op.name)
    BY <1>0, <1>1 DEF IInv, Zeroing, ZeroDone
  <2>2. op.name \in Names /\ acked[op.name] = Unknown /\ op.slot # 0
    BY <1>0, <1>1, OpSound, Sizes DEF IInv, Named, Slots
  <2>3. acked' \in [Names -> Promises]
    BY <1>0 DEF TypeOK
  <2>4. QED
    BY <1>0, <2>1, <2>2, <2>3, RemoveKeeps
<1>2. CASE op.cmd # "rm"
  <2>1. op' = Idle /\ UNCHANGED <<super, files>> /\ ~sound
    BY <1>0, <1>2 DEF IInv, Zeroing, ZeroDone
  <2>2. TypeOK'
    BY <1>0, <2>1, IdleSound DEF TypeOK
  <2>3. InBounds(disk)'
    BY <1>0, <2>1 DEF IInv, InBounds
  <2>4. Named' /\ Writing' /\ Zeroing' /\ Flushing'
    BY <2>1, IdleSound DEF Named, Writing, Zeroing, Flushing
  <2>5. DiskApart(disk)' /\ MemoryApart' /\ CrossApart(disk)' /\ Kept(disk)'
    BY <1>0, <2>1 DEF DiskApart, MemoryApart, CrossApart, Kept
  <2>6. Counted'
    BY <1>0, <2>1, IdleSound DEF IInv, Counted
  <2>7. QED
    BY <2>2, <2>3, <2>4, <2>5, <2>6 DEF IInv
<1>3. QED
  BY <1>1, <1>2

(* Nothing is promised while a volume is being formatted or wiped. *)
LEMMA GiveUpKeeps ==
  ASSUME IInv, Format \/ WipePart
  PROVE  IInv'
<1>0. TypeOK /\ op.pc = "idle" /\ part
  BY DEF IInv, Format, WipePart
<1>1. /\ UNCHANGED <<disk, part, faults>> /\ ~sound' /\ sound' \in BOOLEAN
      /\ acked' = [n \in Names |-> Unknown]
  BY DEF Format, WipePart, NoFault, PromiseAll, memory
<1>2. acked' \in [Names -> Promises]
  BY <1>1 DEF Promises
<1>3. DiskApart(disk)' /\ MemoryApart' /\ CrossApart(disk)' /\ Kept(disk)'
  BY <1>1 DEF DiskApart, MemoryApart, CrossApart, Kept
<1>4. Counted'
  BY <1>0, <1>1 DEF Counted
<1>5. CASE Format
  <2>1. /\ super' = [dataUsed |-> 0, fileCount |-> 0] /\ files' = [s \in Slots |-> FreeEntry]
        /\ mounted' = TRUE
        /\ op' = [Idle EXCEPT !.pc = "super", !.cmd = "format"]
    BY <1>5 DEF Format
  <2>2. op' \in Operation /\ op'.pc = "super" /\ op'.cmd = "format" /\ op'.name = NoName
    BY <2>1, IdleSound DEF Operation
  <2>3. TypeOK'
    BY <1>0, <1>1, <1>2, <2>1, <2>2, EmptySound DEF TypeOK
  <2>4. InBounds(disk)'
    BY <1>1, <2>1, EmptySound DEF IInv, InBounds
  <2>5. Named' /\ Writing' /\ Zeroing' /\ Flushing'
    BY <1>1, <2>1, <2>2 DEF Named, Writing, Zeroing, Flushing
  <2>6. QED
    BY <1>3, <1>4, <2>3, <2>4, <2>5 DEF IInv
<1>6. CASE WipePart
  <2>1. /\ UNCHANGED <<mounted, super, files>>
        /\ op' = [Idle EXCEPT !.pc = "zero", !.cmd = "wipe", !.left = Sectors]
    BY <1>6 DEF WipePart, memory
  <2>2. /\ op' \in Operation /\ op'.pc = "zero" /\ op'.cmd = "wipe" /\ op'.name = NoName
        /\ op'.pos + op'.left <= Sectors
    <3>1. Sectors \in 0 .. Sectors /\ 0 + Sectors <= Sectors
      BY Sizes
    <3>2. QED
      BY <2>1, <3>1, IdleSound DEF Operation, Idle
  <2>3. TypeOK'
    BY <1>0, <1>1, <1>2, <2>1, <2>2 DEF TypeOK
  <2>4. InBounds(disk)'
    BY <1>1, <2>1 DEF IInv, InBounds
  <2>5. Named' /\ Writing' /\ Zeroing' /\ Flushing'
    BY <1>1, <2>2 DEF Named, Writing, Zeroing, Flushing
  <2>6. QED
    BY <1>3, <1>4, <2>3, <2>4, <2>5 DEF IInv
<1>7. QED
  BY <1>5, <1>6

(* rm --frfr starts to zero the sectors of the file.  What has no extent   *)
(* makes it zero the superblock, and voids every promise.                  *)
LEMMA RmFrfrKeeps ==
  ASSUME IInv, NEW n \in Names, RmFrfr(n)
  PROVE  IInv'
<1> DEFINE s == FindIn(files, n)
           e == files[s]
<1>0. /\ TypeOK /\ op.pc = "idle" /\ mounted /\ s # 0
      /\ UNCHANGED <<disk, part, mounted, super, files, faults>>
      /\ acked' = [acked EXCEPT ![n] = Unknown]
      /\ sound' = (sound /\ e.start # 0)
      /\ op' = [Idle EXCEPT !.pc = "zero", !.cmd = "rm", !.name = n, !.slot = s,
                            !.pos = e.start, !.left = Max2(e.len, 1)]
  BY DEF IInv, RmFrfr, memory, Promise, NoFault
<1>1. s \in Has(files, n) /\ s \in Slots
  BY <1>0, FindSound
<1>2. /\ e \in Entry /\ e.start \in Nat /\ e.start <= Sectors
      /\ Room(e) \in Nat \ {0} /\ Room(e) = Max2(e.len, 1)
  BY <1>0, <1>1, OpSound, EntrySound DEF Room
<1>3. Room(e) <= Sectors
  <2>1. e.len <= Sectors
    BY <1>1 DEF IInv, InBounds, Bounded
  <2>2. e.len \in Nat /\ 1 <= Sectors
    BY <1>2, EntrySound, Sizes
  <2>3. QED
    BY <1>2, <2>1, <2>2 DEF Max2
<1>4. /\ op' \in Operation /\ op'.pc = "zero" /\ op'.cmd = "rm" /\ op'.name = n /\ op'.slot = s
      /\ op'.pos = e.start /\ op'.left = Room(e)
  <2>1. e.start \in 0 .. Sectors /\ Room(e) \in 0 .. Sectors
    BY <1>2, <1>3, Sizes
  <2>2. QED
    BY <1>0, <1>1, <1>2, <2>1, IdleSound DEF Operation
<1>5. /\ acked' \in [Names -> Promises] /\ acked'[n] = Unknown
      /\ \A m \in Names : m # n => acked'[m] = acked[m]
  BY <1>0 DEF IInv, TypeOK, Promises
<1>6. TypeOK'
  BY <1>0, <1>4, <1>5 DEF TypeOK
<1>7. InBounds(disk)'
  BY <1>0 DEF IInv, InBounds
<1>8. Named' /\ Writing' /\ Zeroing' /\ Flushing'
  <2>1. Zeroing'
    <3>1. sound' => e.start # 0
      BY <1>0
    <3>2. e.start <= e.start /\ op'.pos + op'.left = e.start + Room(e)
      BY <1>2, <1>4
    <3>3. QED
      BY <1>0, <1>3, <1>4, <3>1, <3>2 DEF Zeroing
  <2>2. QED
    BY <1>4, <1>5, <2>1 DEF Named, Writing, Flushing
<1>9. DiskApart(disk)'
  BY <1>0 DEF IInv, DiskApart
<1>10. MemoryApart' /\ CrossApart(disk)'
  <2>1. CASE sound'
    <3>1. sound' = sound
      BY <1>0, <2>1 DEF TypeOK
    <3>2. QED
      BY <1>0, <1>4, <1>6, <3>1, HeldShrinks DEF IInv, Overlong
  <2>2. CASE ~sound'
    BY <2>2 DEF MemoryApart, CrossApart
  <2>3. QED
    BY <2>1, <2>2
<1>11. Kept(disk)'
  <2>1. SUFFICES ASSUME sound, NEW m \in Names, acked'[m] # Unknown
                 PROVE  /\ Reads(TableOf(disk), disk, m)'
                        /\ Has(files, m) = Has(TableOf(disk), m)
                        /\ acked'[m].st = "stored" =>
                             LET f == FindIn(TableOf(disk), m)
                             IN  TableOf(disk)[f].start # 0 /\ files[f] = TableOf(disk)[f]
    BY <1>0 DEF Kept
  <2>2. acked'[m] = acked[m]
    BY <1>5, <2>1
  <2>3. QED
    BY <1>0, <2>1, <2>2, Promised DEF Reads
<1>12. Counted'
  BY <1>0, <1>4 DEF IInv, Counted
<1>13. QED
  BY <1>6, <1>7, <1>8, <1>9, <1>10, <1>11, <1>12 DEF IInv

(* A chunk is on the drive. *)
LEMMA ChunkKeeps ==
  ASSUME IInv, ChunkDone
  PROVE  IInv'
<1> DEFINE d == Landed(DOMAIN Transfer)
           e == files[op.slot]
<1>0. /\ TypeOK /\ op.pc \in {"zero", "data"} /\ op.left > 0 /\ TransferInRange
      /\ disk' = d /\ UNCHANGED <<part, mounted, super, files, faults, acked, sound>>
      /\ op' = [op EXCEPT !.pos = @ + ThisChunk, !.left = @ - ThisChunk]
  BY DEF IInv, ChunkDone, memory, NoFault, ThisChunk
<1>1. /\ DiskOK(d) /\ InBounds(d) /\ DiskApart(d) /\ CrossApart(d) /\ Kept(d)
      /\ sound \/ op.pc = "data" => TableOf(d) = TableOf(disk) /\ d[0] = disk[0]
  BY <1>0, ChunkSpares
<1>2. /\ ThisChunk \in Nat /\ 0 < ThisChunk /\ ThisChunk <= op.left /\ op.pos + ThisChunk <= Sectors
      /\ DOMAIN Transfer = op.pos .. op.pos + ThisChunk - 1
      /\ \A a \in Addr : a \notin DOMAIN Transfer => d[a] = disk[a]
      /\ \A a \in DOMAIN Transfer : op.pc = "data" => d[a] = DataSector(op.name, op.val, a - e.start)
  BY <1>0, ChunkLands
<1> HIDE DEF d
<1>3. /\ op.pos \in Nat /\ op.left \in Nat /\ op.left <= Sectors /\ op \in Operation /\ op.len \in Nat
      /\ e \in Entry /\ e.start \in Nat
  BY <1>0, OpSound, EntrySound DEF TypeOK
<1>4. /\ op'.pos = op.pos + ThisChunk /\ op'.left = op.left - ThisChunk /\ op'.pc = op.pc
      /\ op'.cmd = op.cmd /\ op'.name = op.name /\ op'.slot = op.slot /\ op'.val = op.val
      /\ op'.len = op.len
  BY <1>0, <1>3 DEF Operation
<1>5. op' \in Operation
  <2>1. op.pos + ThisChunk \in 0 .. Sectors /\ op.left - ThisChunk \in 0 .. Sectors
    BY <1>2, <1>3, Sizes
  <2>2. QED
    BY <1>0, <1>3, <2>1 DEF Operation
<1>6. TypeOK'
  BY <1>0, <1>1, <1>5 DEF TypeOK
<1>7. InBounds(disk)' /\ DiskApart(disk)' /\ Kept(disk)'
  BY <1>0, <1>1 DEF InBounds, DiskApart, Kept, Reads
<1>8. MemoryApart' /\ CrossApart(disk)'
  <2>1. CrossApart(disk') /\ MemoryApart /\ TypeOK
    BY <1>0, <1>1 DEF IInv
  <2>2. Overlong => op'.pc = "data"
    BY <1>4 DEF Overlong
  <2>3. QED
    BY <1>0, <1>4, <1>6, <2>1, <2>2, HeldShrinks
<1>9. Named' /\ Flushing'
  BY <1>0, <1>4 DEF IInv, Named, Flushing
<1>10. Zeroing'
  <2>1. op'.pos + op'.left = op.pos + op.left /\ op.pos <= op'.pos
    BY <1>2, <1>3, <1>4
  <2>2. SUFFICES ASSUME op.pc = "zero" PROVE Zeroing'
    BY <1>4 DEF Zeroing
  <2>3. sound /\ op.cmd = "rm" => e.start <= op'.pos
    BY <1>2, <1>3, <1>4, <2>2 DEF IInv, Zeroing
  <2>4. QED
    BY <1>0, <1>4, <2>1, <2>2, <2>3 DEF IInv, Zeroing
<1>11. Writing'
  <2>1. SUFFICES ASSUME op.pc = "data" PROVE Writing'
    BY <1>4 DEF Writing
  <2>2. /\ mounted /\ op.cmd = "write" /\ op.slot = FindIn(files, op.name) /\ e.start # 0
        /\ e.start <= op.pos
        /\ op.pos + op.left = e.start + op.len /\ Landing(op.pos - e.start)
    BY <2>1 DEF IInv, Writing
  <2>3. e.start <= op'.pos /\ op'.pos + op'.left = e.start + op.len
    <3>1. e.start <= op.pos /\ op.pos + op.left = e.start + op.len
      BY <2>2
    <3>2. op'.pos = op.pos + ThisChunk /\ op'.left = op.left - ThisChunk
      BY <1>4
    <3>3. QED
      BY <1>2, <1>3, <3>1, <3>2
  <2>4. ASSUME NEW i \in 0 .. (op'.pos - e.start) - 1
        PROVE  d[e.start + i] = DataSector(op.name, op.val, i)
    <3>0. e.start <= op.pos
      BY <2>2
    <3>1. i \in Nat /\ e.start + i < op.pos + ThisChunk /\ (e.start + i) - e.start = i
      BY <1>2, <1>3, <1>4, <3>0
    <3>2. CASE e.start + i \in DOMAIN Transfer
      BY <1>2, <2>1, <3>1, <3>2
    <3>3. CASE e.start + i \notin DOMAIN Transfer
      <4>1. e.start + i < op.pos
        BY <1>2, <1>3, <3>1, <3>3
      <4>2. i \in 0 .. (op.pos - e.start) - 1
        BY <1>3, <3>0, <3>1, <4>1
      <4>3. e.start + i \in Addr
        <5>1. op.pos <= Sectors /\ Sectors \in Nat
          BY <1>2, <1>3, Sizes
        <5>2. e.start + i \in Nat /\ e.start + i < Sectors
          BY <1>3, <3>1, <4>1, <5>1
        <5>3. QED
          BY <5>1, <5>2 DEF Addr
      <4>4. QED
        BY <1>2, <2>2, <3>3, <4>2, <4>3 DEF Landing
    <3>4. QED
      BY <3>2, <3>3
  <2>5. Landing(op.pos - files[op.slot].start)'
    BY <1>0, <1>4, <2>4 DEF Landing
  <2>6. QED
    BY <1>0, <1>4, <2>2, <2>3, <2>5 DEF Writing
<1>12. Counted'
  BY <1>0, <1>1, <1>4 DEF IInv, Counted
<1>13. QED
  BY <1>6, <1>7, <1>8, <1>9, <1>10, <1>11, <1>12 DEF IInv

(* The superblock is on the drive. *)
LEMMA FlushSuperKeeps ==
  ASSUME IInv, FlushSuper
  PROVE  IInv'
<1> DEFINE d == Landed(DOMAIN Transfer)
           e == files[op.slot]
<1>0. /\ TypeOK /\ op.pc = "super"
      /\ disk' = d /\ UNCHANGED <<part, mounted, super, files, faults, acked, sound>>
      /\ op' = [op EXCEPT !.pc = "table"]
  BY DEF IInv, FlushSuper, memory, NoFault
<1>1. /\ DiskOK(d) /\ InBounds(d) /\ DiskApart(d) /\ CrossApart(d) /\ Kept(d)
  BY <1>0, SuperSpares
<1>2. d[0] = SuperSector(super) /\ \A a \in Addr : a # 0 => d[a] = disk[a]
  BY <1>0, SuperLands
<1> HIDE DEF d
<1>3. /\ op'.pc = "table" /\ op'.cmd = op.cmd /\ op'.name = op.name /\ op'.slot = op.slot
      /\ op'.val = op.val /\ op'.len = op.len /\ op' \in Operation
  BY <1>0 DEF TypeOK, Operation
<1>4. TypeOK'
  BY <1>0, <1>1, <1>3 DEF TypeOK
<1>5. InBounds(disk)' /\ DiskApart(disk)' /\ Kept(disk)'
  BY <1>0, <1>1 DEF InBounds, DiskApart, Kept, Reads
<1>6. MemoryApart' /\ CrossApart(disk)'
  BY <1>0, <1>1, <1>3, <1>4, HeldShrinks DEF IInv, Overlong
<1>7. Named' /\ Writing' /\ Zeroing'
  BY <1>0, <1>3 DEF IInv, Named, Writing, Zeroing
<1>8. Flushing'
  <2>1. ASSUME op.cmd = "write" PROVE Landing(op.len)'
    <3>1. e.start # 0 /\ e.start + op.len <= Sectors /\ Landing(op.len)
      BY <1>0, <2>1 DEF IInv, Flushing
    <3>2. Bounded(e) /\ e.start \in Nat /\ op.len \in Nat
      BY <1>0, OpSound, EntrySound DEF IInv, InBounds
    <3>3. \A i \in 0 .. op.len - 1 : e.start + i \in Addr /\ e.start + i # 0
      BY <3>1, <3>2, Sizes DEF Bounded, Addr
    <3>4. QED
      BY <1>0, <1>2, <1>3, <3>1, <3>3 DEF Landing
  <2>2. QED
    BY <1>0, <1>2, <1>3, <2>1 DEF IInv, Flushing
<1>9. Counted'
  BY <1>0, <1>3 DEF IInv, Counted
<1>10. QED
  BY <1>4, <1>5, <1>6, <1>7, <1>8, <1>9 DEF IInv

(* The data is on the drive, and the entry gets its length. *)
LEMMA DataDoneKeeps ==
  ASSUME IInv, DataDone
  PROVE  IInv'
<1> SUFFICES ASSUME NEW s, s = op.slot, NEW n, n = op.name PROVE IInv'
  OBVIOUS
<1> DEFINE e == [files[s] EXCEPT !.len = op.len]
<1>0. /\ TypeOK /\ op.pc = "data" /\ op.left = 0
      /\ files' = [files EXCEPT ![s].len = op.len]
      /\ op' = [op EXCEPT !.pc = "super"]
      /\ UNCHANGED <<disk, part, mounted, super, faults, acked, sound>>
  BY DEF IInv, DataDone, NoFault
<1>1. /\ mounted /\ op.cmd = "write" /\ s = FindIn(files, n) /\ files[s].start # 0
      /\ op.pos + op.left = files[s].start + op.len
      /\ Landing(op.pos - files[s].start)
  BY <1>0 DEF IInv, Writing
<1>2. /\ op \in Operation /\ s \in Slots /\ files[s] \in Entry /\ op.len \in 0 .. MaxLen
      /\ op.len \in Nat /\ op.pos \in Nat /\ op.len <= Need(op.len) /\ files[s].start \in Nat
      /\ Need(op.len) \in Nat
  BY <1>0, OpSound, EntrySound, Sizes DEF TypeOK
<1>3. /\ n \in Names /\ acked[n] = Unknown /\ s \in Has(files, n)
  <2>1. s # 0
    BY <1>2, Sizes DEF Slots
  <2>2. QED
    BY <1>0, <1>1, <2>1, FindSound DEF IInv, Named
<1>4. /\ op'.pc = "super" /\ op'.cmd = "write" /\ op'.name = n /\ op'.slot = s
      /\ op'.val = op.val /\ op'.len = op.len /\ op' \in Operation
  BY <1>0, <1>1, <1>2 DEF Operation
<1>5. /\ e \in Entry /\ e.used = files[s].used /\ e.name = n /\ e.start = files[s].start
      /\ e.len = op.len /\ e.used
  BY <1>2, <1>3 DEF Entry, Has, Used
<1>6. /\ files' = [files EXCEPT ![s] = e] /\ files' \in Table
      /\ files'[s] = e /\ \A r \in Slots : r # s => files'[r] = files[r]
  <2>1. files \in Table
    BY <1>0 DEF TypeOK
  <2>2. files' = [files EXCEPT ![s] = e]
    BY <1>0
  <2>3. QED
    BY <1>2, <1>5, <2>1, <2>2 DEF Table
<1> HIDE DEF e
<1>7. TypeOK'
  BY <1>0, <1>4, <1>6 DEF TypeOK
<1>8. Used(files') = Used(files) /\ Has(files', n) = Has(files, n)
  <2>1. \A r \in Slots : files'[r].used = files[r].used /\ files'[r].name = files[r].name
    <3>1. files[s].name = n
      BY <1>3 DEF Has
    <3>2. QED
      BY <1>5, <1>6, <3>1
  <2>2. QED
    BY <2>1 DEF Used, Has
<1>9. Held(s)' = Room(e) /\ Room(e) <= Held(s) /\ Held(s) \in Nat /\ Room(e) \in Nat
  <2>1. Room(e) = Need(op.len)
    BY <1>5 DEF Room, Need
  <2>2. Held(s)' = Room(e)
    BY <1>4, <1>6 DEF Held
  <2>3. Held(s) = Need(op.len) \/ Held(s) = Max2(Room(files[s]), op.len)
    BY <1>0 DEF Held
  <2>4. Room(files[s]) \in Nat \ {0}
    BY <1>2, EntrySound
  <2>5. QED
    BY <1>2, <2>1, <2>2, <2>3, <2>4 DEF Need, Max2
<1>10. Bounded(e) /\ e.start + op.len <= Sectors
  <2>1. Bounded(files[s])
    BY <1>2 DEF IInv, InBounds
  <2>2. op.pos <= Sectors /\ op.pos = e.start + op.len
    BY <1>0, <1>1, <1>2, <1>5, OpSound
  <2>3. QED
    BY <1>2, <1>5, <2>1, <2>2, Sizes DEF Bounded
<1>11. InBounds(disk)' /\ MemoryApart' /\ CrossApart(disk)' /\ Kept(disk)'
  <2>1. super.dataUsed <= super'.dataUsed /\ Pointed(super')
    BY <1>0, Sizes DEF TypeOK, Super, IInv, InBounds
  <2>2. s \in Live(files)
    BY <1>1, <1>3 DEF Has, Live
  <2>3. ASSUME NEW r \in Slots
        PROVE  /\ files[r].start \in Nat /\ TableOf(disk)[r].start \in Nat
               /\ Room(files[r]) \in Nat /\ Room(TableOf(disk)[r]) \in Nat
               /\ r # s => Held(r) = Room(files[r])
    <3>1. Room(files[r]) \in Nat \ {0} /\ files[r].start \in Nat
      BY <1>0, OpSound, EntrySound
    <3>2. r # s => Held(r) = Room(files[r])
      BY <3>1 DEF Held, Max2
    <3>3. QED
      BY <1>0, <3>1, <3>2, OpSound, EntrySound
  <2>4. ASSUME sound
        PROVE  Clear(s, e.start, Held(s)', super'.dataUsed)
    <3>1. Below(files[s].start, Held(s), super.dataUsed)
      BY <1>1, <2>2, <2>4 DEF IInv, MemoryApart
    <3>2. Below(e.start, Held(s)', super'.dataUsed)
      <4>1. super.dataUsed \in Nat /\ super' = super
        BY <1>0, Sizes DEF TypeOK, Super
      <4>2. QED
        BY <1>2, <1>5, <1>9, <3>1, <4>1, Sizes DEF Below
    <3>3. ASSUME NEW r \in Live(files), r # s
          PROVE  Beside(files[r].start, Room(files[r]), e.start, Held(s)')
      <4>1. Beside(files[r].start, Held(r), files[s].start, Held(s)) /\ r \in Slots
        BY <1>1, <2>2, <2>4, <3>3 DEF IInv, MemoryApart, Live, Used
      <4>2. QED
        BY <1>2, <1>5, <1>9, <2>3, <3>3, <4>1 DEF Beside
    <3>4. ASSUME NEW r \in Live(TableOf(disk)), r # s
          PROVE  Beside(TableOf(disk)[r].start, Room(TableOf(disk)[r]), e.start, Held(s)')
      <4>1. Beside(TableOf(disk)[r].start, Room(TableOf(disk)[r]), files[s].start, Held(s)) /\ r \in Slots
        BY <1>1, <2>2, <2>4, <3>4 DEF IInv, CrossApart, Live, Used
      <4>2. QED
        BY <1>2, <1>5, <1>9, <2>3, <3>4, <4>1 DEF Beside
    <3>5. QED
      BY <3>2, <3>3, <3>4 DEF Clear
  <2>5. /\ op.pc = "data" => op.slot = s
        /\ op'.pc = "data" => op'.slot = s
        /\ s \in Has(files, n) \/ ~files[s].used
        /\ ~e.used \/ e.name = n
        /\ acked'[n] = Unknown /\ \A m \in Names : m # n => acked'[m] = acked[m]
        /\ UNCHANGED <<disk, mounted, sound>>
    BY <1>0, <1>3, <1>4, <1>5
  <2>6. Replaces(s, e, n)
    BY <1>3, <1>6, <1>7, <1>10, <2>1, <2>4, <2>5 DEF Replaces
  <2>7. QED
    BY <1>2, <1>3, <2>6, EntryKeeps
<1>12. DiskApart(disk)'
  BY <1>0 DEF IInv, DiskApart
<1>13. Named' /\ Writing' /\ Zeroing'
  BY <1>0, <1>3, <1>4 DEF Named, Writing, Zeroing
<1>14. Flushing'
  <2>1. op'.slot = FindIn(files', op'.name)
    BY <1>1, <1>4, <1>8, SameFind
  <2>2. op.pos - files[s].start = op.len
    BY <1>0, <1>1, <1>2
  <2>3. Landing(op.len)'
    BY <1>0, <1>1, <1>4, <1>5, <1>6, <2>2 DEF Landing
  <2>4. /\ files'[op'.slot].start # 0 /\ files'[op'.slot].len = op'.len /\ mounted'
        /\ files'[op'.slot].start + op'.len <= Sectors
    BY <1>0, <1>1, <1>4, <1>5, <1>6, <1>10
  <2>5. QED
    BY <1>4, <2>1, <2>3, <2>4 DEF Flushing
<1>15. Counted'
  BY <1>0, <1>4, <1>8 DEF IInv, Counted
<1>16. QED
  BY <1>7, <1>11, <1>12, <1>13, <1>14, <1>15 DEF IInv

(* The table is on the drive, and the operation keeps what it promises.    *)
LEMMA FlushTableKeeps ==
  ASSUME IInv, FlushTable
  PROVE  IInv' /\ TableOf(disk') = files /\ files' = files /\ mounted' = mounted
<1> SUFFICES ASSUME NEW n, n = op.name, NEW s, s = op.slot
             PROVE  IInv' /\ TableOf(disk') = files /\ files' = files /\ mounted' = mounted
  OBVIOUS
<1> DEFINE d == Landed(DOMAIN Transfer)
<1>0. /\ TypeOK /\ op.pc = "table" /\ mounted
      /\ disk' = d /\ UNCHANGED <<part, mounted, super, files, faults>> /\ op' = Idle
      /\ disk[0] = SuperSector(super)
  BY DEF IInv, FlushTable, memory, NoFault, Flushing
<1>1. /\ DiskOK(d) /\ InBounds(d) /\ DiskApart(d) /\ CrossApart(d) /\ Kept(d)
  BY <1>0, TableSpares
<1>2. /\ \A a \in Addr : a \notin 1 .. TableSectors => d[a] = disk[a]
      /\ TableOf(d) = files
  <2>1. \A x \in Slots : TableOf(d)[x] = files[x]
    BY <1>0, TableLands, SlotInTable
  <2>2. files \in Table /\ TableOf(d) \in Table
    BY <1>0, <1>1, TableSound DEF TypeOK
  <2>3. TableOf(d) = files
    BY <2>1, <2>2 DEF Table
  <2>4. QED
    BY <1>0, <2>3, TableLands
<1> HIDE DEF d
<1>3. d[0] = SuperSector(super) /\ d[0].super = super /\ SuperValid(d)
  <2>1. 0 \in Addr /\ 0 \notin 1 .. TableSectors
    BY Sizes DEF Addr
  <2>2. QED
    BY <1>0, <1>2, <2>1 DEF SuperSector, SuperValid
<1>4. /\ \/ op.cmd = "write" /\ acked' = [acked EXCEPT ![n] = Stored(op.val, op.len)] /\ sound' = sound
         \/ op.cmd = "rm" /\ acked' = [acked EXCEPT ![n] = Absent] /\ sound' = sound
         \/ op.cmd = "format" /\ acked' = [m \in Names |-> Absent] /\ sound' = TRUE
  BY DEF FlushTable, Promise, PromiseAll
<1>5. op.cmd \in {"write", "rm"} => n \in Names /\ acked[n] = Unknown
  BY DEF IInv, Named
<1>6. TypeOK'
  <2>1. acked' \in [Names -> Promises] /\ sound' \in BOOLEAN
    <3>1. op.val \in Values /\ op.len \in 0 .. MaxLen /\ acked \in [Names -> Promises] /\ sound \in BOOLEAN
      BY <1>0 DEF TypeOK, Operation
    <3>2. Stored(op.val, op.len) \in Promises /\ Absent \in Promises
      BY <3>1 DEF Promises
    <3>3. QED
      BY <1>4, <3>1, <3>2
  <2>2. QED
    BY <1>0, <1>1, <2>1, IdleSound DEF TypeOK
<1>7. InBounds(disk)'
  BY <1>0, <1>1 DEF InBounds
<1>8. Named' /\ Writing' /\ Zeroing' /\ Flushing'
  BY <1>0, IdleSound DEF Named, Writing, Zeroing, Flushing
<1>9. CASE op.cmd \in {"write", "rm"}
  <2>1. sound' = sound /\ n \in Names /\ \A m \in Names : m # n => acked'[m] = acked[m]
    BY <1>4, <1>5, <1>9, <1>0 DEF TypeOK
  <2>2. DiskApart(disk)'
    BY <1>0, <1>1, <2>1 DEF DiskApart
  <2>3. MemoryApart' /\ CrossApart(disk)'
    BY <1>0, <1>1, <1>6, <2>1, IdleSound, HeldShrinks DEF IInv, Overlong
  <2>4. Kept(disk)'
    <3>1. ASSUME sound, NEW m \in Names, m # n, acked[m] # Unknown
          PROVE  /\ Reads(files, d, m)
                 /\ acked[m].st = "stored" => files[FindIn(files, m)].start # 0
      BY <1>1, <1>2, <3>1 DEF Kept
    <3>2. ASSUME op.cmd = "write"
          PROVE  /\ FindIn(files, n) # 0 /\ files[FindIn(files, n)].start # 0
                 /\ acked'[n] = Stored(op.val, op.len)
                 /\ Reads(files, disk, n)'
      <4>1. /\ s = FindIn(files, n) /\ files[s].start # 0 /\ files[s].len = op.len
            /\ files[s].start + op.len <= Sectors /\ Landing(op.len)
        BY <1>0, <3>2 DEF IInv, Flushing
      <4>2. s \in Slots /\ s # 0 /\ Bounded(files[s]) /\ files[s] \in Entry
        BY <1>0, OpSound, Sizes DEF IInv, InBounds, Slots
      <4>3. /\ files[s].start \in Nat /\ op.len \in Nat /\ DataStart <= files[s].start
            /\ files[s].start + op.len <= Sectors
        BY <4>1, <4>2, EntrySound, Sizes DEF Bounded
      <4>4. ASSUME NEW i \in 0 .. op.len - 1
            PROVE  d[files[s].start + i] = DataSector(n, op.val, i)
        <5>1. disk[files[s].start + i] = DataSector(n, op.val, i)
          BY <4>1 DEF Landing
        <5>2. files[s].start + i \in Addr /\ files[s].start + i \notin 1 .. TableSectors
          BY <4>3, Sizes DEF Addr
        <5>3. QED
          BY <1>2, <5>1, <5>2
      <4>5. acked'[n] = Stored(op.val, op.len)
        BY <1>0, <1>4, <2>1, <3>2 DEF TypeOK
      <4>6. acked'[n].len = op.len /\ acked'[n].val = op.val
        BY <4>5 DEF Stored
      <4>7. Reads(files, disk, n)'
        <5>1. disk' = d /\ files' = files
          BY <1>0
        <5>2. QED
          BY <4>1, <4>2, <4>3, <4>4, <4>6, <5>1 DEF Reads
      <4>8. QED
        BY <4>1, <4>2, <4>5, <4>7
    <3>3. op.cmd = "rm" => acked'[n] = Absent
      BY <1>0, <1>4, <2>1 DEF TypeOK
    <3>4. ASSUME sound, NEW m \in Names, acked'[m] # Unknown
          PROVE  /\ Reads(files, disk, m)'
                 /\ acked'[m].st = "stored" => files[FindIn(files, m)].start # 0
      <4>1. CASE m # n
        BY <1>0, <2>1, <3>1, <3>4, <4>1 DEF Reads
      <4>2. CASE m = n /\ op.cmd = "write"
        BY <3>2, <4>2
      <4>3. CASE m = n /\ op.cmd = "rm"
        BY <3>3, <4>3 DEF Reads, Absent
      <4>4. QED
        BY <1>9, <4>1, <4>2, <4>3
    <3>5. QED
      BY <1>0, <1>2, <2>1, <3>4 DEF Kept, Reads
  <2>5. Counted'
    BY <1>0, <1>2, <1>3, <2>1, IdleSound DEF IInv, Counted
  <2>6. QED
    BY <1>0, <1>2, <1>6, <1>7, <1>8, <2>2, <2>3, <2>4, <2>5 DEF IInv
<1>10. CASE op.cmd = "format"
  <2>1. /\ acked' = [m \in Names |-> Absent]
        /\ files = [x \in Slots |-> FreeEntry] /\ super = [dataUsed |-> 0, fileCount |-> 0]
    BY <1>0, <1>4, <1>10 DEF IInv, Flushing
  <2>2. Used(files) = {} /\ Live(files) = {}
    BY <2>1, EmptySound
  <2>3. super.dataUsed = 0 /\ super.fileCount = 0
    BY <2>1
  <2>4. DiskApart(disk)' /\ MemoryApart' /\ CrossApart(disk)'
    BY <1>0, <1>2, <1>3, <2>2, <2>3 DEF DiskApart, MemoryApart, CrossApart
  <2>5. Kept(disk)'
    BY <1>0, <1>2, <2>1 DEF Kept, Reads, Absent
  <2>6. Counted'
    <3>1. Cardinality({}) % CountMod = 0
      BY FS_EmptySet, Sizes
    <3>2. QED
      BY <1>0, <1>2, <1>3, <2>2, <2>3, <3>1, IdleSound DEF IInv, Counted
  <2>7. QED
    BY <1>0, <1>2, <1>6, <1>7, <1>8, <2>4, <2>5, <2>6 DEF IInv
<1>11. QED
  BY <1>4, <1>9, <1>10

(* A write takes the slot of its name or a free one, and the extent of the *)
(* entry or the sectors behind the bump pointer: either way no other       *)
(* slot's.                                                                 *)
LEMMA WriteFileKeeps ==
  ASSUME IInv, NEW n \in Names, NEW v \in Values, NEW l \in 0 .. MaxLen, WriteFile(n, v, l)
  PROVE  IInv'
<1>d. SUFFICES ASSUME NEW need, need = Need(l),
                      NEW found, found = FindIn(files, n),
                      NEW s, s = IF found = 0 THEN FirstFree(files) ELSE found,
                      NEW p, p = Prepared(n, need),
                      NEW alloc, alloc = (p.start = 0 /\ Fits(need)),
                      NEW start, start = IF alloc THEN DataStart + super.dataUsed ELSE p.start,
                      NEW e, e = [p EXCEPT !.start = start]
               PROVE  IInv'
  OBVIOUS
<1>0. /\ TypeOK /\ op.pc = "idle" /\ mounted /\ s # 0
      /\ files' = [files EXCEPT ![s] = e]
      /\ super' = [dataUsed  |-> super.dataUsed + (IF alloc THEN need ELSE 0),
                   fileCount |-> (super.fileCount + (IF found = 0 THEN 1 ELSE 0)) % CountMod]
      /\ op' = IF start = 0 THEN Idle
               ELSE [Idle EXCEPT !.pc = "data", !.cmd = "write", !.name = n, !.slot = s,
                                 !.val = v, !.pos = start, !.left = l, !.len = l]
      /\ acked' = [acked EXCEPT ![n] = Unknown]
      /\ UNCHANGED <<disk, part, mounted, faults, sound>>
  BY <1>d DEF IInv, WriteFile, Promise, NoFault
<1>1. /\ s \in Slots /\ files[s] \in Entry /\ files \in Table
      /\ found = 0 => ~files[s].used /\ Has(files, n) = {}
      /\ found # 0 => s \in Has(files, n) /\ files[s].used /\ files[s].name = n
  <2>1. CASE found = 0
    BY <1>0, <1>d, <2>1, FreeSound, FindSound, OpSound DEF TypeOK
  <2>2. CASE found # 0
    BY <1>0, <1>d, <2>2, FindSound, OpSound DEF TypeOK, Has, Used
  <2>3. QED
    BY <2>1, <2>2
<1>2. /\ l \in Nat /\ need \in Nat /\ 1 <= need /\ l <= need
      /\ super.dataUsed \in Nat /\ super.fileCount \in 0 .. CountMod - 1
      /\ DataStart + super.dataUsed <= Sectors
      /\ CountMod \in Nat \ {0} /\ Sectors \in Nat /\ DataStart \in Nat /\ DataStart # 0
  BY <1>0, <1>d, Sizes DEF Need, Max2, TypeOK, Super, IInv, InBounds, Pointed
<1>3. /\ p \in Entry /\ p.used /\ p.name = n /\ p.len <= Sectors
      /\ p.start # 0 => p = files[s] /\ found # 0 /\ need <= p.len /\ DataStart <= p.start
  <2>1. CASE found = 0
    <3>1. p = [FreeEntry EXCEPT !.used = TRUE, !.name = n]
      BY <1>d, <2>1 DEF Prepared
    <3>2. 0 \in 0 .. Sectors /\ 0 \in 0 .. MaxLen /\ 0 <= Sectors
      BY Sizes
    <3>3. QED
      BY <2>1, <3>1, <3>2 DEF FreeEntry, Entry
  <2>2. CASE found # 0
    <3>1. p = [files[s] EXCEPT !.start = IF files[s].len < need THEN 0 ELSE @]
      BY <1>d, <2>2 DEF Prepared
    <3>2. Bounded(files[s])
      BY <1>1 DEF IInv, InBounds
    <3>3. files[s].len \in Nat /\ files[s].start \in 0 .. Sectors /\ 0 \in 0 .. Sectors
      BY <1>1, <1>2, EntrySound
    <3>4. p \in Entry /\ p.used /\ p.name = n /\ p.len = files[s].len
      BY <1>1, <2>2, <3>1, <3>3 DEF Entry
    <3>5. p.start # 0 => p = files[s] /\ need <= p.len
      BY <1>1, <1>2, <3>1, <3>3 DEF Entry
    <3>6. QED
      BY <2>2, <3>2, <3>4, <3>5 DEF Bounded
  <2>3. QED
    BY <2>1, <2>2
<1>4. /\ alloc => /\ p.start = 0 /\ start = DataStart + super.dataUsed /\ start + need <= Sectors
                  /\ super'.dataUsed = super.dataUsed + need
      /\ ~alloc => start = p.start /\ super'.dataUsed = super.dataUsed
      /\ super'.dataUsed \in Nat /\ super.dataUsed <= super'.dataUsed
      /\ DataStart + super'.dataUsed <= Sectors
  <2>1. super'.dataUsed = super.dataUsed + (IF alloc THEN need ELSE 0)
    BY <1>0
  <2>2. alloc => p.start = 0 /\ DataStart + super.dataUsed + need <= Sectors
    BY <1>d DEF Fits
  <2>3. QED
    BY <1>d, <1>2, <2>1, <2>2
<1>5. /\ start \in Nat /\ start <= Sectors
      /\ start # 0 => DataStart <= start /\ l <= Sectors
  <2>1. p.start \in Nat /\ p.start <= Sectors /\ p.len \in Nat
    BY <1>3, EntrySound
  <2>2. QED
    BY <1>2, <1>3, <1>4, <2>1
<1>6. /\ e \in Entry /\ e.used /\ e.name = n /\ e.start = start /\ e.len = p.len /\ Bounded(e)
      /\ e.len \in Nat
  <2>1. start \in 0 .. Sectors
    BY <1>2, <1>5
  <2>2. e \in Entry /\ e.used /\ e.name = n /\ e.start = start /\ e.len = p.len
    BY <1>d, <1>3, <2>1 DEF Entry
  <2>3. QED
    BY <1>3, <1>5, <2>2, EntrySound DEF Bounded
<1> HIDE DEF Idle
<1>7. /\ op' \in Operation
      /\ start = 0 => op' = Idle
      /\ start # 0 => /\ op'.pc = "data" /\ op'.cmd = "write" /\ op'.name = n /\ op'.slot = s
                      /\ op'.val = v /\ op'.pos = start /\ op'.left = l /\ op'.len = l
  <2>1. start # 0 => start \in 0 .. Sectors /\ l \in 0 .. Sectors
    BY <1>2, <1>5
  <2>2. QED
    BY <1>0, <1>1, <2>1, IdleSound DEF Operation
<1>8. /\ files'[s] = e /\ files' \in Table /\ \A r \in Slots : r # s => files'[r] = files[r]
  BY <1>0, <1>1, <1>6 DEF Table
<1>9. /\ acked' \in [Names -> Promises] /\ acked'[n] = Unknown
      /\ \A m \in Names : m # n => acked'[m] = acked[m]
  BY <1>0 DEF TypeOK, Promises
<1>10. super' \in Super
  <2>1. super'.fileCount = (super.fileCount + (IF found = 0 THEN 1 ELSE 0)) % CountMod
    BY <1>0
  <2>2. super'.fileCount \in 0 .. CountMod - 1
    BY <1>2, <2>1
  <2>3. super'.dataUsed \in 0 .. Sectors
    BY <1>2, <1>4
  <2>4. QED
    BY <1>0, <2>2, <2>3 DEF Super
<1>11. TypeOK'
  BY <1>0, <1>7, <1>8, <1>9, <1>10 DEF TypeOK
<1>12. ASSUME sound, start # 0
       PROVE  Clear(s, e.start, Held(s)', super'.dataUsed)
  <2> DEFINE t == TableOf(disk)
  <2>1. ASSUME NEW r \in Slots
        PROVE  /\ files[r].start \in Nat /\ t[r].start \in Nat /\ Held(r) = Room(files[r])
               /\ Room(files[r]) \in Nat /\ Room(t[r]) \in Nat
    BY <1>0, OpSound, EntrySound DEF Held
  <2>2. Live(files) \subseteq Slots /\ Live(t) \subseteq Slots
    BY DEF Live, Used
  <2>3. /\ \A r \in Live(files) : Below(files[r].start, Held(r), super.dataUsed)
        /\ \A q, r \in Live(files) : q # r => Beside(files[q].start, Held(q), files[r].start, Held(r))
        /\ disk[0].super.dataUsed <= super.dataUsed
        /\ \A q \in Live(t), r \in Live(files) : q # r =>
             Beside(t[q].start, Room(t[q]), files[r].start, Held(r))
        /\ \A q \in Live(t) : Below(t[q].start, Room(t[q]), disk[0].super.dataUsed)
        /\ SuperValid(disk)
    BY <1>0, <1>12 DEF IInv, MemoryApart, CrossApart, DiskApart
  <2>4. disk[0].super.dataUsed \in Nat
    BY <1>0, <2>3, Sizes DEF TypeOK, DiskOK, SuperValid, Blank, Super
  <2>5. /\ op'.pc = "data" /\ op'.slot = s /\ op'.len = l /\ files'[s] = e
        /\ Overlong' <=> start + e.len > DataStart + super'.dataUsed
    BY <1>6, <1>7, <1>8, <1>12 DEF Overlong
  <2>6. Held(s)' = IF Overlong' THEN need ELSE Max2(Room(e), l)
    BY <1>d, <2>5 DEF Held
  <2>7. Room(e) = Max2(e.len, 1)
    BY DEF Room
  <2>8. CASE alloc
    <3>1. Held(s)' \in Nat /\ Held(s)' <= need
      <4>1. ~Overlong' => e.len <= need
        BY <1>2, <1>4, <1>6, <2>5, <2>8
      <4>2. QED
        BY <1>2, <1>6, <2>6, <2>7, <4>1 DEF Max2
    <3>2. Below(e.start, Held(s)', super'.dataUsed)
      BY <1>2, <1>4, <1>6, <2>8, <3>1 DEF Below
    <3>3. ASSUME NEW r \in Live(files) PROVE Beside(files[r].start, Room(files[r]), e.start, Held(s)')
      <4>1. Below(files[r].start, Room(files[r]), super.dataUsed)
        BY <2>1, <2>2, <2>3
      <4>2. QED
        BY <1>2, <1>4, <1>6, <2>1, <2>2, <2>8, <3>1, <4>1 DEF Below, Beside
    <3>4. ASSUME NEW r \in Live(t) PROVE Beside(t[r].start, Room(t[r]), e.start, Held(s)')
      <4>1. Below(t[r].start, Room(t[r]), disk[0].super.dataUsed)
        BY <2>3
      <4>2. QED
        BY <1>2, <1>4, <1>6, <2>1, <2>2, <2>3, <2>4, <2>8, <3>1, <4>1 DEF Below, Beside
    <3>5. QED
      BY <3>2, <3>3, <3>4 DEF Clear
  <2>9. CASE ~alloc
    <3>1. /\ start = p.start /\ p = files[s] /\ found # 0 /\ need <= p.len
          /\ super'.dataUsed = super.dataUsed
      BY <1>3, <1>4, <1>12, <2>9
    <3>2. s \in Live(files) /\ e.start = files[s].start /\ e.len = files[s].len
      BY <1>1, <1>6, <1>12, <3>1 DEF Live, Used
    <3>3. Room(e) = Room(files[s])
      BY <3>2 DEF Room
    <3>4. Below(files[s].start, Room(files[s]), super.dataUsed)
      BY <1>1, <2>1, <2>3, <3>2
    <3>5. Held(s)' = Room(files[s])
      <4>1. e.len <= Room(e) /\ Room(e) \in Nat /\ l <= Room(e)
        BY <1>2, <1>6, <2>7, <3>1 DEF Max2
      <4>2. ~Overlong'
        <5>1. start + e.len <= DataStart + super.dataUsed
          <6>1. start \in Nat /\ files[s].start = start
            BY <1>5, <1>6, <3>2
          <6>2. start + Room(e) <= DataStart + super.dataUsed
            BY <3>3, <3>4, <6>1 DEF Below
          <6>3. QED
            BY <1>2, <1>6, <4>1, <6>1, <6>2
        <5>2. ~(start + e.len > DataStart + super'.dataUsed)
          BY <1>2, <1>5, <1>6, <3>1, <5>1
        <5>3. QED
          BY <2>5, <5>2
      <4>3. QED
        BY <1>2, <2>6, <3>3, <4>1, <4>2 DEF Max2
    <3>6. Below(e.start, Held(s)', super'.dataUsed)
      BY <3>1, <3>2, <3>4, <3>5
    <3>7. QED
      BY <2>1, <2>2, <2>3, <3>2, <3>5, <3>6 DEF Clear
  <2>10. QED
    BY <2>8, <2>9
<1>13. InBounds(disk)' /\ MemoryApart' /\ CrossApart(disk)' /\ Kept(disk)'
  <2>1. Pointed(super')
    BY <1>4 DEF Pointed
  <2>2. op'.pc = "data" => op'.slot = s
    BY <1>7, IdleSound
  <2>3. sound /\ mounted /\ e.used /\ e.start # 0 => Clear(s, e.start, Held(s)', super'.dataUsed)
    BY <1>6, <1>12
  <2>4. s \in Has(files, n) \/ ~files[s].used
    BY <1>1
  <2>5. QED
    <3>1. /\ UNCHANGED <<disk, mounted, sound>> /\ files' = [files EXCEPT ![s] = e]
          /\ op.pc = "data" => op.slot = s
      BY <1>0
    <3>2. s \in Slots /\ super.dataUsed <= super'.dataUsed
      BY <1>1, <1>4
    <3>3. Bounded(e) /\ (~e.used \/ e.name = n)
      BY <1>6
    <3>4. acked'[n] = Unknown /\ \A m \in Names : m # n => acked'[m] = acked[m]
      BY <1>9
    <3>5. Replaces(s, e, n)
      BY <1>11, <2>1, <2>2, <2>3, <2>4, <3>1, <3>2, <3>3, <3>4 DEF Replaces
    <3>6. n \in Names
      BY <3>4, <1>1
    <3>7. QED
      BY <3>2, <3>5, <3>6, EntryKeeps
<1>14. DiskApart(disk)'
  BY <1>0 DEF IInv, DiskApart
<1>15. s = FindIn(files', n)
  <2>1. CASE found = 0
    <3>1. s \in Has(files', n) /\ Has(files', n) \subseteq {s}
      BY <1>1, <1>6, <1>8, <2>1 DEF Has, Used
    <3>2. QED
      BY <3>1, FindSound
  <2>2. CASE found # 0
    <3>1. ASSUME NEW r \in Slots
          PROVE  files'[r].used = files[r].used /\ files'[r].name = files[r].name
      <4>1. files[s].used = TRUE /\ files'[s].used = TRUE
        BY <1>1, <1>6, <1>8, <2>2 DEF Entry
      <4>2. QED
        BY <1>1, <1>6, <1>8, <2>2, <4>1
    <3>2. Has(files', n) = Has(files, n)
      BY <3>1 DEF Has, Used
    <3>3. QED
      BY <1>d, <2>2, <3>2, SameFind
  <2>3. QED
    BY <2>1, <2>2
<1>16. Named' /\ Zeroing' /\ Flushing'
  BY <1>0, <1>7, <1>9, IdleSound DEF Named, Zeroing, Flushing
<1>17. Writing'
  <2>1. SUFFICES ASSUME start # 0 PROVE Writing'
    BY <1>7, IdleSound DEF Writing
  <2>2. files'[op'.slot].start = start /\ op'.pos = start /\ op'.left = l /\ op'.len = l
    BY <1>6, <1>7, <1>8, <2>1
  <2>3. Landing(op.pos - files[op.slot].start)'
    BY <1>5, <2>2 DEF Landing
  <2>4. QED
    BY <1>0, <1>5, <1>7, <1>15, <2>1, <2>2, <2>3 DEF Writing
<1>18. Counted'
  <2>1. ASSUME faults = 0, sound
        PROVE  super'.fileCount = Cardinality(Used(files')) % CountMod
    <3>1. super.fileCount = Cardinality(Used(files)) % CountMod
      BY <1>0, <2>1 DEF IInv, Counted
    <3>2. Used(files) \subseteq Slots
      BY DEF Used
    <3>3. IsFiniteSet(Used(files)) /\ Cardinality(Used(files)) \in Nat
      BY <3>2, FS_Subset, FS_CardinalityType, Sizes
    <3>4. CASE found = 0
      <4>1. Used(files') = Used(files) \cup {s} /\ s \notin Used(files)
        BY <1>1, <1>6, <1>8, <3>4 DEF Used
      <4>2. Cardinality(Used(files')) = Cardinality(Used(files)) + 1
        BY <3>3, <4>1, FS_AddElement
      <4>3. super'.fileCount = ((Cardinality(Used(files)) % CountMod) + 1) % CountMod
        BY <1>0, <3>1, <3>4
      <4>4. QED
        BY <1>2, <3>3, <4>2, <4>3, CountSteps
    <3>5. CASE found # 0
      <4>1. Used(files') = Used(files)
        BY <1>1, <1>6, <1>8, <3>5 DEF Used
      <4>2. super'.fileCount = (super.fileCount + 0) % CountMod
        BY <1>0, <3>5
      <4>3. super'.fileCount = super.fileCount
        BY <1>2, <4>2
      <4>4. QED
        BY <3>1, <4>1, <4>3
    <3>6. QED
      BY <3>4, <3>5
  <2>2. op'.pc # "off" /\ op.pc # "off" /\ op.pc # "table"
    BY <1>0, <1>7, IdleSound
  <2>3. QED
    BY <1>0, <2>1, <2>2 DEF IInv, Counted
<1>19. QED
  BY <1>11, <1>13, <1>14, <1>16, <1>17, <1>18 DEF IInv

(* Every step of the program, and of the world, keeps the invariant. *)
LEMMA NextIInv ==
  ASSUME IInv, [Next]_vars
  PROVE  IInv'
<1>1. CASE Command
  <2>1. CASE MountPart
    BY <2>1, MountKeeps
  <2>2. CASE Format \/ WipePart
    BY <2>2, GiveUpKeeps
  <2>3. ASSUME NEW n \in Names, Rm(n) PROVE IInv'
    BY <2>3, RmKeeps
  <2>4. ASSUME NEW n \in Names, RmFrfr(n) PROVE IInv'
    BY <2>4, RmFrfrKeeps
  <2>5. ASSUME NEW n \in Names, NEW v \in Values, NEW l \in 0 .. MaxLen, WriteFile(n, v, l)
        PROVE  IInv'
    BY <2>5, WriteFileKeeps
  <2>6. QED
    BY <1>1, <2>1, <2>2, <2>3, <2>4, <2>5 DEF Command
<1>2. CASE Progress
  <2>1. CASE Boot
    BY <2>1, BootKeeps
  <2>2. CASE BootFails
    BY <2>2, MountKeeps
  <2>3. CASE ChunkDone
    BY <2>3, ChunkKeeps
  <2>4. CASE DataDone
    BY <2>4, DataDoneKeeps
  <2>5. CASE ZeroDone
    BY <2>5, ZeroDoneKeeps
  <2>6. CASE FlushSuper
    BY <2>6, FlushSuperKeeps
  <2>7. CASE FlushTable
    BY <2>7, FlushTableKeeps
  <2>8. CASE TransferFails
    BY <2>8, TransferFailsKeeps
  <2>9. QED
    BY <1>2, <2>1, <2>2, <2>3, <2>4, <2>5, <2>6, <2>7, <2>8 DEF Progress
<1>3. CASE PowerLoss
  BY <1>3, PowerLossKeeps
<1>4. CASE UNCHANGED vars
  <2>1. UNCHANGED <<disk, part, mounted, super, files, op, faults, acked, sound>>
    BY <1>4 DEF vars
  <2>2. TypeOK' /\ InBounds(disk)'
    BY <2>1 DEF IInv, TypeOK, InBounds
  <2>3. Named' /\ Writing' /\ Zeroing' /\ Flushing'
    BY <2>1 DEF IInv, Named, Writing, Zeroing, Flushing, Landing
  <2>4. \A s \in Slots : Held(s)' = Held(s)
    BY <2>1 DEF Held, Overlong
  <2>5. DiskApart(disk)' /\ Kept(disk)' /\ Counted'
    BY <2>1 DEF IInv, DiskApart, Kept, Reads, Counted
  <2>6. Live(files) \subseteq Slots
    BY DEF Live, Used
  <2>7. MemoryApart' /\ CrossApart(disk)'
    BY <2>1, <2>4, <2>6 DEF IInv, MemoryApart, CrossApart
  <2>8. QED
    BY <2>2, <2>3, <2>5, <2>7 DEF IInv
<1>5. QED
  BY <1>1, <1>2, <1>3, <1>4 DEF Next

(* The inductive invariant is one. *)
LEMMA AlwaysIInv == Spec => []IInv
<1>1. Init => IInv
  BY InitIInv
<1>2. IInv /\ [Next]_vars => IInv'
  BY NextIInv
<1>3. QED
  BY <1>1, <1>2, PTL DEF Spec

---------------------------------------------------------------------------
(* What follows from it *)

(* Every variable keeps its type: no file leaves the volume or reaches     *)
(* into its metadata sectors, and the counters stay in range.              *)
THEOREM TypeCorrect == Spec => []TypeOK
<1>1. IInv => TypeOK
  BY DEF IInv
<1>2. QED
  BY <1>1, AlwaysIInv, PTL

(* A file whose last write returned ok reads back as written, whatever was *)
(* done to other files and whatever failed in between: EnFS::ReadFile.     *)
THEOREM AlwaysReadsBack == Spec => []ReadsBack
<1>1. IInv => ReadsBack
  <2>1. SUFFICES ASSUME IInv, sound, mounted, NEW n \in Names, acked[n].st = "stored"
                 PROVE  Reads(files, disk, n)
    BY DEF ReadsBack, Reads
  <2> DEFINE t == TableOf(disk)
  <2>2. acked[n] # Unknown
    BY <2>1 DEF Unknown
  <2>3. /\ Reads(t, disk, n) /\ Has(files, n) = Has(t, n)
        /\ files[FindIn(t, n)] = t[FindIn(t, n)]
    BY <2>1, <2>2, Promised
  <2>4. FindIn(files, n) = FindIn(t, n)
    BY <2>3, SameFind
  <2>5. QED
    BY <2>1, <2>3, <2>4 DEF Reads
<1>2. QED
  BY <1>1, AlwaysIInv, PTL

(* Cut the power at any instant: what the next boot will read off the      *)
(* drive still has every file that was reported as written (EnFS::Mount).  *)
THEOREM AlwaysDurable == Spec => []CrashDurable
<1>1. IInv => CrashDurable
  <2>1. SUFFICES ASSUME IInv, sound
                 PROVE  SuperValid(disk) /\ \A n \in Names : Reads(TableOf(disk), disk, n)
    BY DEF CrashDurable
  <2>2. SuperValid(disk)
    BY <2>1 DEF IInv, DiskApart
  <2>3. ASSUME NEW n \in Names PROVE Reads(TableOf(disk), disk, n)
    <3>1. CASE acked[n] = Unknown
      BY <3>1 DEF Reads, Unknown
    <3>2. CASE acked[n] # Unknown
      BY <2>1, <3>2, Promised
    <3>3. QED
      BY <3>1, <3>2
  <2>4. QED
    BY <2>2, <2>3
<1>2. QED
  BY <1>1, AlwaysIInv, PTL

(* Extents that lie beside each other share no sector. *)
LEMMA BesideSound ==
  ASSUME NEW t \in Table, NEW used \in Nat,
         \A s \in Live(t) : Below(t[s].start, Room(t[s]), used),
         \A r, s \in Live(t) : r # s => Beside(t[r].start, Room(t[r]), t[s].start, Room(t[s]))
  PROVE  ExtentsApart(t, used)
<1>1. ASSUME NEW s \in Live(t)
      PROVE  /\ t[s].start \in Nat /\ Room(t[s]) \in Nat
             /\ Extent(t[s]) = t[s].start .. t[s].start + Room(t[s]) - 1
  BY EntrySound DEF Live, Used, Table, Extent, Room
<1>2. ASSUME NEW s \in Live(t)
      PROVE  Extent(t[s]) \subseteq DataStart .. DataStart + used - 1
  <2>1. Below(t[s].start, Room(t[s]), used)
    OBVIOUS
  <2>2. QED
    BY <1>1, <2>1, Sizes DEF Below
<1>3. ASSUME NEW r \in Live(t), NEW s \in Live(t), r # s
      PROVE  Extent(t[r]) \cap Extent(t[s]) = {}
  <2>1. Beside(t[r].start, Room(t[r]), t[s].start, Room(t[s]))
    BY <1>3
  <2>2. ASSUME NEW x \in Extent(t[r]), x \in Extent(t[s]) PROVE FALSE
    BY <1>1, <2>1, <2>2 DEF Beside
  <2>3. QED
    BY <2>2
<1>4. QED
  BY <1>2, <1>3 DEF ExtentsApart

(* Superblock and table agree with each other, in memory and for every     *)
(* boot to come, wherever the two writes of Flush are cut short: no two    *)
(* files share a sector, none lies beyond the bump pointer, and fileCount  *)
(* is the number of files.                                                 *)
THEOREM MetadataAlwaysSound == Spec => []MetadataSound
<1>1. IInv => MetadataSound
  <2>1. SUFFICES ASSUME IInv PROVE MetadataSound
    OBVIOUS
  <2>2. TypeOK
    BY <2>1 DEF IInv
  <2>3. MemoryExtents
    <3> DEFINE t == IF Overlong THEN [files EXCEPT ![op.slot].len = op.len] ELSE files
    <3>1. SUFFICES ASSUME sound, mounted PROVE ExtentsApart(t, super.dataUsed)
      BY DEF MemoryExtents
    <3>2. super.dataUsed \in Nat
      BY <2>2, Sizes DEF TypeOK, Super
    <3>3. files \in Table /\ op.slot \in Slots /\ op.len \in 0 .. MaxLen /\ files[op.slot] \in Entry
      BY <2>2, OpSound DEF TypeOK, Operation
    <3>4. ASSUME NEW s \in Slots
          PROVE  /\ t[s] \in Entry /\ t[s].used = files[s].used /\ t[s].start = files[s].start
                 /\ Room(t[s]) \in Nat /\ Held(s) \in Nat /\ Room(t[s]) <= Held(s)
      <4>1. CASE Overlong /\ s = op.slot
        <5>1. t[s] = [files[s] EXCEPT !.len = op.len]
          BY <3>3, <4>1 DEF Table
        <5>2. t[s] \in Entry /\ t[s].used = files[s].used /\ t[s].start = files[s].start /\ t[s].len = op.len
          BY <3>3, <4>1, <5>1 DEF Entry
        <5>3. Held(s) = Need(op.len) /\ Room(t[s]) = Need(op.len)
          BY <4>1, <5>2 DEF Held, Overlong, Room, Need
        <5>4. QED
          BY <2>2, <5>2, <5>3, OpSound
      <4>2. CASE ~(Overlong /\ s = op.slot)
        <5>1. t[s] = files[s] /\ files[s] \in Entry
          BY <2>2, <3>3, <4>2, OpSound DEF Table
        <5>2. Held(s) = Room(files[s]) \/ Held(s) = Max2(Room(files[s]), op.len)
          BY <4>2 DEF Held
        <5>3. QED
          BY <2>2, <5>1, <5>2, OpSound, EntrySound DEF Max2
      <4>3. QED
        BY <4>1, <4>2
    <3>5. t \in Table
      <4>1. DOMAIN t = Slots /\ t = [s \in Slots |-> t[s]]
        BY <3>3 DEF Table
      <4>2. QED
        BY <3>4, <4>1 DEF Table
    <3> HIDE DEF t
    <3>6. Live(t) = Live(files) /\ Live(files) \subseteq Slots
      BY <3>4 DEF Live, Used
    <3>7. /\ \A s \in Live(files) : Below(files[s].start, Held(s), super.dataUsed)
          /\ \A r, s \in Live(files) : r # s => Beside(files[r].start, Held(r), files[s].start, Held(s))
      BY <2>1, <3>1 DEF IInv, MemoryApart
    <3>8. ASSUME NEW s \in Live(t) PROVE Below(t[s].start, Room(t[s]), super.dataUsed)
      <4>1. Below(files[s].start, Held(s), super.dataUsed) /\ s \in Slots
        BY <3>6, <3>7
      <4>2. t[s].start \in Nat
        BY <3>4, <4>1, EntrySound
      <4>3. QED
        BY <3>2, <3>4, <4>1, <4>2, Sizes DEF Below
    <3>9. ASSUME NEW r \in Live(t), NEW s \in Live(t), r # s
          PROVE  Beside(t[r].start, Room(t[r]), t[s].start, Room(t[s]))
      <4>1. Beside(files[r].start, Held(r), files[s].start, Held(s)) /\ r \in Slots /\ s \in Slots
        BY <3>6, <3>7, <3>9
      <4>2. t[s].start \in Nat /\ t[r].start \in Nat
        BY <3>4, <4>1, EntrySound
      <4>3. QED
        BY <3>4, <4>1, <4>2 DEF Beside
    <3>10. QED
      BY <3>2, <3>5, <3>8, <3>9, BesideSound
  <2>4. DiskExtents
    <3>1. SUFFICES ASSUME sound PROVE ExtentsApart(TableOf(disk), disk[0].super.dataUsed)
      BY DEF DiskExtents
    <3>2. SuperValid(disk)
      BY <2>1, <3>1 DEF IInv, DiskApart
    <3>3. disk[0].super.dataUsed \in Nat /\ TableOf(disk) \in Table
      BY <2>2, <3>2, TableSound, Sizes DEF TypeOK, DiskOK, SuperValid, Blank, Super
    <3>4. QED
      BY <2>1, <3>1, <3>3, BesideSound DEF IInv, DiskApart
  <2>5. CountExact
    BY <2>1 DEF IInv, Counted, CountExact
  <2>6. QED
    BY <2>2, <2>3, <2>4, <2>5 DEF MetadataSound
<1>2. QED
  BY <1>1, AlwaysIInv, PTL

---------------------------------------------------------------------------
(* A table of one sector *)

(* What a transfer leaves of the table on the drive: slot by slot the old  *)
(* entry or none, or else all of it as it was or as it is in memory.       *)
LEMMA TornTable ==
  ASSUME IInv, TableSectors = 1, InFlight, TransferInRange, NEW S \in SUBSET DOMAIN Transfer
  PROVE  \/ TableOf(Landed(S)) = TableOf(disk)
         \/ op.pc = "table" /\ TableOf(Landed(S)) = files
         \/ /\ ~sound
            /\ \A s \in Slots : TableOf(Landed(S))[s] \in {TableOf(disk)[s], FreeEntry}
<1> DEFINE d == Landed(S)
<1>0. TypeOK
  BY DEF IInv
<1>1. CASE op.pc = "super"
  BY <1>1, SuperSpares
<1>2. CASE op.pc \in {"zero", "data"} /\ op.left > 0
  <2>1. CASE sound \/ op.pc = "data"
    BY <1>2, <2>1, ChunkSpares
  <2>2. CASE ~sound /\ op.pc = "zero"
    <3>1. \A a \in Addr : d[a] = disk[a] \/ d[a] = Blank
      BY <1>0, <1>2, <2>2, ChunkLands
    <3>2. 1 .. TableSectors \subseteq Addr
      BY Sizes DEF Addr
    <3> HIDE DEF d
    <3>3. ASSUME NEW s \in Slots PROVE TableOf(d)[s] \in {TableOf(disk)[s], FreeEntry}
      <4>1. d[SectorOf(s)] = disk[SectorOf(s)] \/ d[SectorOf(s)] = Blank
        BY <3>1, <3>2, SlotInTable
      <4>2. QED
        BY <4>1 DEF TableOf, Blank
    <3>4. QED
      BY <2>2, <3>3 DEF d
  <2>3. QED
    BY <1>2, <2>1, <2>2
<1>3. CASE op.pc = "table"
  <2>1. /\ \A k \in 1 .. TableSectors : d[k] = TableSector(k, files) \/ d[k] = disk[k]
        /\ files \in Table
    BY <1>0, <1>3, TableLands DEF TypeOK
  <2> HIDE DEF d
  <2>2. \A s \in Slots : SectorOf(s) = 1 /\ s \in SlotsOf(1)
    BY SlotInTable DEF SlotsOf
  <2>3. CASE d[1] = disk[1]
    <3>1. TableOf(d) = TableOf(disk)
      BY <2>2, <2>3 DEF TableOf
    <3>2. QED
      BY <3>1 DEF d
  <2>4. CASE d[1] = TableSector(1, files)
    <3>1. \A s \in Slots : d[SectorOf(s)].kind = "table" /\ d[SectorOf(s)].ents[s] = files[s]
      BY <2>2, <2>4 DEF TableSector
    <3>2. TableOf(d) = [s \in Slots |-> files[s]]
      BY <3>1 DEF TableOf
    <3>3. TableOf(d) = files
      BY <2>1, <3>2 DEF Table
    <3>4. QED
      BY <1>3, <3>3 DEF d
  <2>5. QED
    BY <2>1, <2>3, <2>4
<1>4. QED
  BY <1>1, <1>2, <1>3 DEF InFlight

(* A table that lost entries has no name twice that had none twice. *)
LEMMA OnceLess ==
  ASSUME NEW t, NEW u, Once(t), \A s \in Slots : u[s] \in {t[s], FreeEntry}
  PROVE  Once(u) /\ \A n : Has(u, n) \subseteq Has(t, n)
<1>1. \A s \in Used(u) : s \in Used(t) /\ u[s] = t[s]
  BY DEF Used, FreeEntry
<1>2. QED
  BY <1>1 DEF Once, Has, Used

(* After a transfer, whole or torn, no name is twice in the table on the   *)
(* drive, and no removed name is back.                                     *)
LEMMA TransferSingle ==
  ASSUME IInv, TableSectors = 1, Single, InFlight, TransferInRange, NEW S \in SUBSET DOMAIN Transfer
  PROVE  /\ Once(TableOf(Landed(S)))
         /\ sound => \A n \in Names : acked[n] = Absent => Has(TableOf(Landed(S)), n) = {}
<1> DEFINE u == TableOf(Landed(S))
<1>1. CASE u = TableOf(disk)
  BY <1>1 DEF Single
<1>2. CASE op.pc = "table" /\ u = files
  <2>1. mounted
    BY <1>2 DEF IInv, Flushing
  <2>2. ASSUME sound, NEW n \in Names, acked[n] = Absent PROVE Has(files, n) = {}
    <3>1. acked[n] # Unknown
      BY <2>2 DEF Absent, Unknown
    <3>2. Has(files, n) = Has(TableOf(disk), n)
      BY <2>1, <2>2, <3>1, Promised
    <3>3. QED
      BY <2>2, <3>2 DEF Single
  <2>3. QED
    BY <1>2, <2>2 DEF Single
<1>3. CASE ~sound /\ \A s \in Slots : u[s] \in {TableOf(disk)[s], FreeEntry}
  BY <1>3, OnceLess DEF Single
<1>4. QED
  BY <1>1, <1>2, <1>3, TornTable

(* The same, for whatever a step leaves on the drive. *)
LEMMA DriveSingle ==
  ASSUME IInv, TableSectors = 1, Single,
         \/ disk' = disk
         \/ InFlight /\ TransferInRange /\ \E S \in SUBSET DOMAIN Transfer : disk' = Landed(S)
  PROVE  /\ Once(TableOf(disk'))
         /\ sound => \A n \in Names : acked[n] = Absent => Has(TableOf(disk'), n) = {}
<1>1. CASE disk' = disk
  BY <1>1 DEF Single
<1>2. CASE InFlight /\ TransferInRange /\ \E S \in SUBSET DOMAIN Transfer : disk' = Landed(S)
  BY <1>2, TransferSingle
<1>3. QED
  BY <1>1, <1>2

(* WriteFile works on the entry of one slot, the first of the name.        *)
LEMMA WriteFileTakes ==
  ASSUME IInv, NEW n \in Names, NEW v \in Values, NEW l \in 0 .. MaxLen, WriteFile(n, v, l)
  PROVE  \E s \in Slots, e \in Entry :
           /\ files' = [files EXCEPT ![s] = e]
           /\ e.used /\ e.name = n
           /\ \/ Has(files, n) = {} /\ ~files[s].used
              \/ s \in Has(files, n)
<1>d. SUFFICES ASSUME NEW s, s = IF FindIn(files, n) = 0 THEN FirstFree(files) ELSE FindIn(files, n),
                      NEW p, p = Prepared(n, Need(l)),
                      NEW start,
                      start = IF p.start = 0 /\ Fits(Need(l)) THEN DataStart + super.dataUsed ELSE p.start,
                      NEW e, e = [p EXCEPT !.start = start]
               PROVE  /\ s \in Slots /\ e \in Entry
                      /\ files' = [files EXCEPT ![s] = e]
                      /\ e.used /\ e.name = n
                      /\ \/ Has(files, n) = {} /\ ~files[s].used
                         \/ s \in Has(files, n)
  OBVIOUS
<1>0. s # 0 /\ files' = [files EXCEPT ![s] = e] /\ TypeOK
  BY <1>d DEF WriteFile, IInv
<1>1. s \in Slots /\ (\/ Has(files, n) = {} /\ ~files[s].used /\ FindIn(files, n) = 0
                      \/ s \in Has(files, n) /\ FindIn(files, n) = s)
  BY <1>0, <1>d, FreeSound, FindSound
<1>2. TypeOK'
  BY WriteFileKeeps DEF IInv
<1>3. files'[s] = e /\ files' \in Table
  BY <1>0, <1>1, <1>2 DEF TypeOK, Table
<1>4. e \in Entry
  BY <1>1, <1>3 DEF Table
<1>5. p.used = TRUE /\ p.name = n
  <2>1. CASE FindIn(files, n) = 0
    BY <1>d, <2>1 DEF Prepared, FreeEntry
  <2>2. CASE FindIn(files, n) # 0
    <3>1. s \in Has(files, n) /\ FindIn(files, n) = s /\ files[s] \in Entry
      BY <1>0, <1>1, <2>2, OpSound
    <3>2. p = [files[s] EXCEPT !.start = IF files[s].len < Need(l) THEN 0 ELSE @]
      BY <1>d, <2>2, <3>1 DEF Prepared
    <3>3. files[s].used = TRUE /\ files[s].name = n
      BY <3>1 DEF Has, Used, Entry
    <3>4. QED
      BY <3>1, <3>2, <3>3 DEF Entry
  <2>3. QED
    BY <2>1, <2>2
<1>6. e.used /\ e.name = n
  <2>1. CASE FindIn(files, n) = 0
    BY <1>d, <1>5, <2>1 DEF Prepared, FreeEntry
  <2>2. CASE FindIn(files, n) # 0
    <3>1. files[s] \in Entry /\ FindIn(files, n) = s
      BY <1>0, <1>1, <2>2, OpSound
    <3>2. p = [files[s] EXCEPT !.start = IF files[s].len < Need(l) THEN 0 ELSE @]
      BY <1>d, <2>2, <3>1 DEF Prepared
    <3>3. QED
      BY <1>d, <1>5, <3>1, <3>2 DEF Entry
  <2>3. QED
    BY <2>1, <2>2
<1>7. QED
  BY <1>0, <1>1, <1>4, <1>6

(* What a removal leaves of a table in which no name is twice. *)
LEMMA RemoveSingle ==
  ASSUME IInv, Single, NEW n \in Names, NEW s, s = FindIn(files, n), s # 0, RemoveEntry(s, n)
  PROVE  Once(files') /\ Has(files', n) = {} /\ op'.cmd = "rm" /\ op'.name = n
<1>1. /\ files' = [files EXCEPT ![s] = FreeEntry]
      /\ op' = [Idle EXCEPT !.pc = "super", !.cmd = "rm", !.name = n]
  BY DEF RemoveEntry
<1>2. s \in Has(files, n) /\ s \in Slots /\ files \in Table
  BY FindSound DEF IInv, TypeOK
<1>3. files'[s] = FreeEntry /\ \A r \in Slots : r # s => files'[r] = files[r]
  BY <1>1, <1>2 DEF Table
<1>4. \A r \in Slots : files'[r] \in {files[r], FreeEntry}
  BY <1>3
<1>5. Once(files') /\ Has(files', n) \subseteq Has(files, n)
  BY <1>4, OnceLess DEF Single
<1>6. s \notin Has(files', n)
  BY <1>3 DEF Has, Used, FreeEntry
<1>7. Has(files, n) \subseteq {s}
  BY <1>2 DEF Single, Once, Has
<1>8. op'.cmd = "rm" /\ op'.name = n
  BY <1>1, IdleSound DEF Operation
<1>9. QED
  BY <1>5, <1>6, <1>7, <1>8

(* A table of one sector has no name twice and none that was removed:      *)
(* every step keeps that.                                                  *)
LEMMA NextSingle ==
  ASSUME IInv, TableSectors = 1, Single, [Next]_vars
  PROVE  Single'
<1>0. TypeOK
  BY DEF IInv
<1>1. CASE Boot
  BY <1>1, IdleSound DEF Boot, Single
<1>2. CASE BootFails \/ MountPart
  <2>1. op'.pc = "idle" /\ UNCHANGED <<disk, files, acked, sound>>
    BY <1>2, IdleSound DEF BootFails, MountPart
  <2>2. QED
    BY <2>1 DEF Single
<1>3. CASE Format \/ WipePart
  <2>1. /\ ~sound' /\ disk' = disk /\ (files' = files \/ files' = [s \in Slots |-> FreeEntry])
        /\ op'.cmd # "rm"
    BY <1>3, IdleSound DEF Format, WipePart, memory, Operation
  <2>2. Once([s \in Slots |-> FreeEntry])
    BY EmptySound DEF Once
  <2>3. QED
    BY <2>1, <2>2 DEF Single
<1>4. ASSUME NEW n \in Names, Rm(n) PROVE Single'
  <2>1. /\ FindIn(files, n) # 0 /\ RemoveEntry(FindIn(files, n), n)
        /\ acked' = [acked EXCEPT ![n] = Unknown] /\ UNCHANGED <<disk, sound>>
    BY <1>4 DEF Rm, Promise
  <2>2. Once(files') /\ Has(files', n) = {} /\ op'.cmd = "rm" /\ op'.name = n
    BY <2>1, RemoveSingle
  <2>3. \A m \in Names : acked'[m] = Absent => acked[m] = Absent
    BY <1>0, <2>1 DEF TypeOK, Absent, Unknown
  <2>4. QED
    BY <2>1, <2>2, <2>3 DEF Single
<1>5. ASSUME NEW n \in Names, RmFrfr(n) PROVE Single'
  <2>1. /\ op'.pc = "zero" /\ UNCHANGED <<disk, files>> /\ (sound' => sound)
        /\ acked' = [acked EXCEPT ![n] = Unknown]
    BY <1>5, IdleSound DEF RmFrfr, Promise, memory, Operation
  <2>2. \A m \in Names : acked'[m] = Absent => acked[m] = Absent
    BY <1>0, <2>1 DEF TypeOK, Absent, Unknown
  <2>3. QED
    BY <2>1, <2>2 DEF Single
<1>6. ASSUME NEW n \in Names, NEW v \in Values, NEW l \in 0 .. MaxLen, WriteFile(n, v, l)
      PROVE  Single'
  <2>1. PICK s \in Slots, e \in Entry :
           /\ files' = [files EXCEPT ![s] = e]
           /\ e.used /\ e.name = n
           /\ \/ Has(files, n) = {} /\ ~files[s].used
              \/ s \in Has(files, n)
    BY <1>6, WriteFileTakes
  <2>2. files'[s] = e /\ \A r \in Slots : r # s => files'[r] = files[r]
    BY <1>0, <2>1 DEF TypeOK, Table
  <2>3. \A r \in Slots : r \in Has(files, n) => r = s
    BY <2>1 DEF Single, Once, Has
  <2>4. ASSUME NEW q \in Used(files'), NEW r \in Used(files'), files'[q].name = files'[r].name
        PROVE  q = r
    <3>1. q \in Slots /\ r \in Slots
      BY DEF Used
    <3>2. CASE q # s /\ r # s
      BY <2>2, <2>4, <3>1, <3>2 DEF Single, Once, Used
    <3>3. CASE q = s
      BY <2>1, <2>2, <2>3, <2>4, <3>1, <3>3 DEF Has, Used
    <3>4. CASE r = s
      BY <2>1, <2>2, <2>3, <2>4, <3>1, <3>4 DEF Has, Used
    <3>5. QED
      BY <3>2, <3>3, <3>4
  <2>5. /\ op'.pc # "super" /\ op'.pc # "table" /\ UNCHANGED <<disk, sound>>
        /\ acked' = [acked EXCEPT ![n] = Unknown]
    BY <1>6, IdleSound DEF WriteFile, Promise, Operation
  <2>6. \A m \in Names : acked'[m] = Absent => acked[m] = Absent
    BY <1>0, <2>5 DEF TypeOK, Absent, Unknown
  <2>7. Once(files')
    BY <2>4 DEF Once
  <2>8. QED
    BY <2>5, <2>6, <2>7 DEF Single
<1>7. CASE ChunkDone \/ FlushSuper
  <2>1. InFlight /\ TransferInRange /\ \E S \in SUBSET DOMAIN Transfer : disk' = Landed(S)
    BY <1>7 DEF ChunkDone, FlushSuper, InFlight
  <2>2. /\ UNCHANGED <<files, acked, sound>> /\ op'.cmd = op.cmd /\ op'.name = op.name
        /\ op'.pc \in {"super", "table"} => op.pc = "super"
    BY <1>0, <1>7 DEF ChunkDone, FlushSuper, memory, TypeOK, Operation
  <2>3. QED
    BY <2>1, <2>2, DriveSingle DEF Single
<1>8. CASE DataDone
  <2>1. /\ files' = [files EXCEPT ![op.slot].len = op.len] /\ UNCHANGED <<disk, acked, sound>>
        /\ op'.cmd = op.cmd /\ op.cmd = "write" /\ op.slot \in Slots /\ files \in Table
    BY <1>0, <1>8 DEF DataDone, TypeOK, Operation, IInv, Writing
  <2>2. \A r \in Slots : files'[r].used = files[r].used /\ files'[r].name = files[r].name
    BY <2>1 DEF Table, Entry
  <2>3. Once(files')
    BY <2>2 DEF Single, Once, Used
  <2>4. QED
    BY <2>1, <2>3 DEF Single
<1>9. CASE ZeroDone
  <2>1. op.pc = "zero" /\ UNCHANGED <<disk, acked, sound>>
    BY <1>9 DEF ZeroDone
  <2>2. CASE op.cmd = "rm"
    <3>1. /\ op.slot = FindIn(files, op.name) /\ op.slot # 0 /\ op.name \in Names
          /\ RemoveEntry(op.slot, op.name)
      BY <1>0, <1>9, <2>1, <2>2, OpSound, Sizes DEF ZeroDone, IInv, Zeroing, Named, Slots
    <3>2. Once(files') /\ Has(files', op.name) = {} /\ op'.cmd = "rm" /\ op'.name = op.name
      BY <3>1, RemoveSingle
    <3>3. QED
      BY <2>1, <3>2 DEF Single
  <2>3. CASE op.cmd # "rm"
    <3>1. op' = Idle /\ files' = files
      BY <1>9, <2>3 DEF ZeroDone
    <3>2. QED
      BY <2>1, <3>1, IdleSound DEF Single
  <2>4. QED
    BY <2>2, <2>3
<1>10. CASE FlushTable
  <2>1. TableOf(disk') = files /\ files' = files /\ mounted' = mounted /\ op' = Idle /\ op.pc = "table"
    BY <1>10, FlushTableKeeps DEF FlushTable
  <2>2. Once(files)
    BY DEF Single
  <2>3. ASSUME sound', NEW m \in Names, acked'[m] = Absent PROVE Has(files, m) = {}
    <3>1. CASE op.cmd = "format"
      BY <2>1, <3>1, EmptySound DEF IInv, Flushing
    <3>2. CASE op.cmd \in {"write", "rm"} /\ m # op.name
      <4>1. sound /\ acked[m] = Absent
        BY <1>0, <1>10, <2>3, <3>2 DEF FlushTable, Promise, TypeOK
      <4>2. acked[m] # Unknown /\ mounted
        BY <2>1, <4>1 DEF Absent, Unknown, IInv, Flushing
      <4>3. Has(files, m) = Has(TableOf(disk), m)
        BY <4>1, <4>2, Promised
      <4>4. QED
        BY <4>1, <4>3 DEF Single
    <3>3. CASE op.cmd = "write" /\ m = op.name
      BY <1>0, <1>10, <2>3, <3>3 DEF FlushTable, Promise, TypeOK, Stored, Absent
    <3>4. CASE op.cmd = "rm" /\ m = op.name
      BY <2>1, <3>4 DEF Single
    <3>5. QED
      BY <1>10, <3>1, <3>2, <3>3, <3>4 DEF FlushTable
  <2>4. QED
    BY <2>1, <2>2, <2>3, IdleSound DEF Single
<1>11. CASE TransferFails
  <2>1. /\ \/ disk' = disk
           \/ InFlight /\ TransferInRange /\ \E S \in SUBSET DOMAIN Transfer : disk' = Landed(S)
        /\ op' = Idle /\ UNCHANGED <<files, acked>> /\ (sound' => sound)
    BY <1>11 DEF TransferFails, memory
  <2>2. QED
    BY <2>1, IdleSound, DriveSingle DEF Single
<1>12. CASE PowerLoss
  <2>1. /\ \/ disk' = disk
           \/ InFlight /\ TransferInRange /\ \E S \in SUBSET DOMAIN Transfer : disk' = Landed(S)
        /\ op' = Off /\ UNCHANGED <<acked, sound>> /\ files' = [s \in Slots |-> FreeEntry]
    BY <1>12 DEF PowerLoss, Forgotten
  <2>2. Once(files')
    BY <2>1, EmptySound DEF Once
  <2>3. QED
    BY <2>1, <2>2, IdleSound, DriveSingle DEF Single
<1>13. CASE UNCHANGED vars
  BY <1>13 DEF vars, Single
<1>14. QED
  BY <1>1, <1>2, <1>3, <1>4, <1>5, <1>6, <1>7, <1>8, <1>9, <1>10, <1>11, <1>12, <1>13
     DEF Next, Command, Progress

(* With a table of one sector both invariants hold together. *)
LEMMA AlwaysSingle ==
  ASSUME TableSectors = 1
  PROVE  Spec => [](IInv /\ Single)
<1>1. Init => IInv /\ Single
  <2>1. SUFFICES ASSUME Init PROVE Single
    BY InitIInv
  <2>2. /\ files = [s \in Slots |-> FreeEntry] /\ ~sound /\ op = Off
        /\ disk = [a \in Addr |-> Blank]
    BY <2>1 DEF Init
  <2>3. \A k \in 1 .. TableSectors : disk[k].kind # "table"
    BY <2>2, Sizes DEF Blank, Addr
  <2>4. TableOf(disk) = [s \in Slots |-> FreeEntry]
    BY <2>3, SlotInTable DEF TableOf
  <2>5. Once([s \in Slots |-> FreeEntry])
    BY EmptySound DEF Once
  <2>6. QED
    BY <2>2, <2>4, <2>5, IdleSound DEF Single
<1>2. IInv /\ Single /\ [Next]_vars => (IInv /\ Single)'
  BY NextIInv, NextSingle
<1>3. QED
  BY <1>1, <1>2, PTL DEF Spec

(* A file whose removal returned ok stays removed, in memory and for every *)
(* boot to come (EnFS::Remove), on a drive whose sectors hold the table    *)
(* whole.                                                                  *)
THEOREM AlwaysStaysRemoved ==
  ASSUME TableSectors = 1
  PROVE  Spec => []RemovedStaysRemoved
<1>1. IInv /\ Single => RemovedStaysRemoved
  <2>1. SUFFICES ASSUME IInv, Single, sound, NEW n \in Names, acked[n].st = "absent"
                 PROVE  FindIn(TableOf(disk), n) = 0 /\ (mounted => FindIn(files, n) = 0)
    BY DEF RemovedStaysRemoved
  <2>2. acked[n] = Absent /\ acked[n] # Unknown
    BY <2>1 DEF IInv, TypeOK, Promises, Unknown, Absent, Stored
  <2>3. Has(TableOf(disk), n) = {}
    BY <2>1, <2>2 DEF Single
  <2>4. mounted => Has(files, n) = {}
    BY <2>1, <2>2, <2>3, Promised
  <2>5. QED
    BY <2>3, <2>4, FindSound
<1>2. QED
  BY <1>1, AlwaysSingle, PTL

---------------------------------------------------------------------------
(* EnFS implements FileStore *)

(* The content a promise is about. *)
Told(n, a) ==
  IF a.st = "stored" THEN [st |-> "stored", data |-> [i \in 0 .. a.len - 1 |-> DataSector(n, a.val, i)]]
                     ELSE Absent

Recoverable ==
  Content = [n \in Names |-> IF sound /\ acked[n] # Unknown THEN Told(n, acked[n]) ELSE Unknown]

(* What will be recovered of a name is what was promised of it. *)
LEMMA ContentTold ==
  ASSUME IInv, Single
  PROVE  Recoverable
<1>1. SUFFICES ASSUME sound, NEW n \in Names, acked[n] # Unknown
               PROVE  Recovered(n) = Told(n, acked[n])
  BY DEF Recoverable, Content
<1> DEFINE t == TableOf(disk)
           s == FindIn(t, n)
<1>2. acked[n] = Absent \/ acked[n].st = "stored"
  BY <1>1 DEF IInv, TypeOK, Promises, Stored
<1>3. CASE acked[n] = Absent
  <2>1. Has(t, n) = {}
    BY <1>1, <1>3 DEF Single
  <2>2. s = 0
    BY <2>1, FindSound
  <2>3. acked[n].st # "stored"
    BY <1>3 DEF Absent
  <2>4. QED
    BY <2>2, <2>3 DEF Recovered, Told
<1>4. CASE acked[n].st = "stored"
  <2>1. Reads(t, disk, n)
    BY <1>1, Promised
  <2>2. /\ s # 0 /\ t[s].len = acked[n].len
        /\ \A i \in 0 .. t[s].len - 1 : disk[t[s].start + i] = DataSector(n, acked[n].val, i)
    BY <1>4, <2>1 DEF Reads
  <2>3. [i \in 0 .. t[s].len - 1 |-> disk[t[s].start + i]]
          = [i \in 0 .. acked[n].len - 1 |-> DataSector(n, acked[n].val, i)]
    BY <2>2
  <2>4. QED
    BY <1>4, <2>2, <2>3 DEF Recovered, Told
<1>5. QED
  BY <1>2, <1>3, <1>4

(* No content is taken for the absence of a promise. *)
LEMMA ToldKnown ==
  ASSUME NEW n, NEW a
  PROVE  Told(n, a) # Unknown
BY DEF Told, Absent, Unknown

(* Promises that stay are contents that stay. *)
LEMMA ContentStays ==
  ASSUME Recoverable, Recoverable', UNCHANGED <<acked, sound>>
  PROVE  Content' = Content
BY DEF Recoverable

(* A step of EnFS is one of FileStore, or leaves what is promised as it is. *)
LEMMA StoreNext ==
  ASSUME IInv, Single, Recoverable, Recoverable', [Next]_vars
  PROVE  [Store!Next]_<<Content, op.name>>
<1>0. TypeOK
  BY DEF IInv
<1>1. /\ Content = [m \in Names |-> IF sound /\ acked[m] # Unknown THEN Told(m, acked[m]) ELSE Unknown]
      /\ Content' = [m \in Names |-> IF sound' /\ acked'[m] # Unknown THEN Told(m, acked'[m]) ELSE Unknown]
  BY DEF Recoverable
<1>2. ~sound => Content = Store!All(Unknown)
  BY <1>1 DEF Store!All
<1>3. ~sound' => Content' = Store!All(Unknown)
  BY <1>1 DEF Store!All
<1>4. op.cmd \notin {"write", "rm"} => op.name = NoName
  BY DEF IInv, Named
<1>5. op.pc \in {"off", "idle"} => op.name = NoName
  BY <1>4 DEF IInv, Named
<1>6. ASSUME NEW n \in Names, sound' = sound, acked' = [acked EXCEPT ![n] = Unknown], op.pc = "idle",
             op'.name = n \/ op'.name = NoName
      PROVE  Store!Next
  <2>1. acked'[n] = Unknown /\ \A m \in Names : m # n => acked'[m] = acked[m]
    BY <1>0, <1>6 DEF TypeOK
  <2>2. Content' = [Content EXCEPT ![n] = Unknown]
    BY <1>1, <1>6, <2>1
  <2>3. op.name = NoName
    BY <1>5, <1>6
  <2>4. Store!Start(n) \/ Store!Spoil(n)
    BY <1>6, <2>2, <2>3 DEF Store!Start, Store!Spoil
  <2>5. QED
    BY <2>4 DEF Store!Next
<1>7. CASE Boot \/ BootFails \/ MountPart \/ UNCHANGED vars
  <2>1. UNCHANGED <<acked, sound>> /\ op'.name = op.name
    BY <1>5, <1>7, IdleSound DEF Boot, BootFails, MountPart, vars
  <2>2. QED
    BY <2>1, ContentStays
<1>8. CASE Format \/ WipePart
  <2>1. ~sound' /\ op'.name = NoName /\ op.pc = "idle"
    BY <1>8, IdleSound DEF Format, WipePart, Operation
  <2>2. QED
    BY <1>3, <2>1 DEF Store!Next, Store!GiveUp
<1>9. ASSUME NEW n \in Names, Rm(n) PROVE Store!Next
  <2>1. /\ sound' = sound /\ acked' = [acked EXCEPT ![n] = Unknown] /\ op.pc = "idle"
        /\ op'.name = n
    BY <1>9, IdleSound DEF Rm, RemoveEntry, Promise, Operation
  <2>2. QED
    BY <1>6, <2>1
<1>10. ASSUME NEW n \in Names, RmFrfr(n) PROVE Store!Next
  <2>1. /\ sound' = sound \/ ~sound'
        /\ acked' = [acked EXCEPT ![n] = Unknown] /\ op.pc = "idle" /\ op'.name = n
    BY <1>0, <1>10, IdleSound DEF RmFrfr, Promise, Operation, TypeOK
  <2>2. CASE sound' = sound
    BY <1>6, <2>1, <2>2
  <2>3. CASE ~sound'
    BY <1>3, <1>5, <2>1, <2>3 DEF Store!Next, Store!GiveUp
  <2>4. QED
    BY <2>1, <2>2, <2>3
<1>11. ASSUME NEW n \in Names, NEW v \in Values, NEW l \in 0 .. MaxLen, WriteFile(n, v, l)
       PROVE  Store!Next
  <2>1. /\ sound' = sound /\ acked' = [acked EXCEPT ![n] = Unknown] /\ op.pc = "idle"
        /\ op'.name = n \/ op'.name = NoName
    BY <1>11, IdleSound DEF WriteFile, Promise, Operation
  <2>2. QED
    BY <1>6, <2>1
<1>12. CASE ChunkDone \/ FlushSuper \/ DataDone
  <2>1. UNCHANGED <<acked, sound>> /\ op'.name = op.name
    BY <1>0, <1>12 DEF ChunkDone, FlushSuper, DataDone, TypeOK, Operation
  <2>2. QED
    BY <2>1, ContentStays
<1>13. CASE ZeroDone
  <2>1. UNCHANGED <<acked, sound>>
    BY <1>13 DEF ZeroDone
  <2>2. op'.name = op.name
    BY <1>0, <1>4, <1>13, IdleSound DEF ZeroDone, RemoveEntry, Operation, IInv, Zeroing
  <2>3. QED
    BY <2>1, <2>2, ContentStays
<1>14. CASE FlushTable
  <2>1. op'.name = NoName
    BY <1>14, IdleSound DEF FlushTable
  <2>2. CASE op.cmd = "format"
    <3>1. acked' = [m \in Names |-> Absent] /\ sound'
      BY <1>14, <2>2 DEF FlushTable, PromiseAll
    <3>2. Content' = Store!All(Absent)
      BY <1>1, <3>1 DEF Store!All, Told, Absent, Unknown
    <3>3. QED
      BY <1>4, <2>1, <2>2, <3>2 DEF Store!Next, Store!Fresh
  <2>3. CASE op.cmd \in {"write", "rm"}
    <3>1. SUFFICES ASSUME NEW n, n = op.name PROVE Store!Next
      OBVIOUS
    <3>2. n \in Names /\ sound' = sound
      BY <1>14, <2>3, <3>1 DEF FlushTable, IInv, Named
    <3>3. /\ acked'[n] # Unknown
          /\ \A m \in Names : m # n => acked'[m] = acked[m]
      BY <1>0, <1>14, <2>3, <3>1, <3>2 DEF FlushTable, Promise, TypeOK, Stored, Absent, Unknown
    <3>4. CASE sound
      <4>1. Content' = [Content EXCEPT ![n] = Content'[n]]
        BY <1>1, <3>2, <3>3
      <4>2. Content'[n] # Unknown
        BY <1>1, <3>2, <3>3, <3>4, ToldKnown
      <4>3. Store!Finish(n)
        BY <2>1, <3>1, <4>1, <4>2 DEF Store!Finish
      <4>4. QED
        BY <3>2, <4>3 DEF Store!Next
    <3>5. CASE ~sound
      BY <1>2, <1>3, <2>1, <3>2, <3>5 DEF Store!Next, Store!Abandon
    <3>6. QED
      BY <3>4, <3>5
  <2>4. QED
    BY <1>14, <2>2, <2>3 DEF FlushTable
<1>15. CASE TransferFails
  <2>1. op'.name = NoName /\ acked' = acked /\ (sound' = sound \/ ~sound')
    BY <1>0, <1>15, IdleSound DEF TransferFails, TypeOK
  <2>2. CASE sound' = sound
    BY <2>1, <2>2, ContentStays DEF Store!Next, Store!Abandon
  <2>3. CASE ~sound'
    BY <1>3, <2>1, <2>3 DEF Store!Next, Store!GiveUp
  <2>4. QED
    BY <2>1, <2>2, <2>3
<1>16. CASE PowerLoss
  <2>1. op'.name = NoName /\ UNCHANGED <<acked, sound>>
    BY <1>16, IdleSound DEF PowerLoss
  <2>2. QED
    BY <2>1, ContentStays DEF Store!Next, Store!Abandon
<1>17. QED
  BY <1>7, <1>8, <1>9, <1>10, <1>11, <1>12, <1>13, <1>14, <1>15, <1>16
     DEF Next, Command, Progress

(* With a table of one sector EnFS is a file store: no operation, failure  *)
(* or power loss changes what the next boot will recover of any name but   *)
(* the one being operated on.                                              *)
THEOREM AlwaysAFileStore ==
  ASSUME TableSectors = 1
  PROVE  Spec => ImplementsFileStore
<1>1. Init => Store!Init
  BY IdleSound DEF Init, Store!Init, Store!All, Content
<1>2. IInv /\ Single => Recoverable
  BY ContentTold
<1>3. IInv /\ Single /\ Recoverable /\ Recoverable' /\ [Next]_vars => [Store!Next]_<<Content, op.name>>
  BY StoreNext
<1>4. QED
  BY <1>1, <1>2, <1>3, AlwaysSingle, PTL DEF Spec, ImplementsFileStore, Store!Spec, Store!vars

=============================================================================

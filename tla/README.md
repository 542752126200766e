# A TLA+ model of Engine-OS

Engine-OS is a UEFI operating system for writing games inside of it: it boots,
brings up its own memory management and an NVMe driver, mounts its own file
system EnFS from a partition it created itself, and offers a shell, an editor,
an interpreted language (EnScript) and a compiler for it.  One thread runs
everything, without interrupts: the main loop polls the keyboard and calls the
editor or a shell command, which runs to its end.  What makes the system hard is
not threads, it is the other side: a drive that works on its own, fails, times
out and loses power in the middle of a command; and long sequences of legal
commands over state that is kept in two places.

Contents: 1 inventory, 2 modules, 3 the modules in detail, 4 runs and bounds,
5 proofs, 6 what the model found, 7 what is not modelled, 8 plan.

## 1. Inventory

| Component | State it keeps | Operations | Who calls it | What makes it correct |
|---|---|---|---|---|
| EnFS (`FileSystem/EnFS.cc`) | `mounted`, `super`, `files[64]` in memory, and the same on the drive | Format, Mount, Flush, Find, Remove, WriteFile, ReadFile | boot, shell, editor, loader | a file that was reported written reads back, also after a power loss; removed files stay removed; no two files share a sector |
| Partition layer (`PCIe/storage/Part.cc`) | `mounted`, `baseLba`, `sectors` | Mount, Read, Write, Zero | EnFS, shell | never touches a sector outside the partition |
| NVMe driver (`PCIe/storage/nvme.cc`) | queue pairs: `sqTail`, `cqHead`, `phase` | Init, Identify, CreateIoQueues, Submit, ReadBlocks, WriteBlocks | Part, Gpt, shell | the status returned is that of the command submitted; nothing is lost in the rings |
| GPT (`PCIe/storage/Gpt.cc`) | `parts`, `hdr`, and two copies of the table on the drive | Parse, CreatePartition | Part::Mount, shell | a copy of the table survives any failure; partitions do not overlap |
| Shell (`shell/Shell.cc`) | command table, static buffers | Execute and 19 commands | main loop | each command does what its help line says |
| Console (`Console/Console.cc`) | `lines`, `lineCount`, `col` | Print, NewLine, Clear, CurrentLine | everyone | rows are not overrun, the row Enter reads is what was typed |
| Keyboard (`input/keyboard.cc`) | modifier flags, `keysDown` | ReadKey, PumpState, ClearStates | main loop, games | flags agree with the keys held |
| Editor (`Editor/Editor.cc`) | lines, lengths, cursor, scroll, dirty | Open, Save, Update, Draw | shell, main loop | cursor in bounds, no text lost between open and save |
| Frame allocator (`Memory/Frames.cc`) | bitmap, `freeFrames`, `frameCount` | Init, Alloc, Free, Reserve | paging, heap, games | no frame handed out twice or lost, counter exact |
| Heap, arena (`Memory/Heap.cc`, `arena.hh`) | `offset`, `peak` | Init, Alloc, Reset | everyone | blocks apart, aligned, inside |
| Paging (`Memory/Paging.cc`) | page tables | BuildKernelTables, Activate, MapUc, MarkRangeWc | boot, drivers | splitting a big page keeps the mapping |
| EnScript interpreter (`Script/Script.cc`) | lines, variables, `pc`, call stack, arena, fuel | Load, Step, RunLoop | play, runtime | arena accesses in bounds, frame ends |
| Loaders (`Lang/Parse.cc`, `Script/Script.cc:40-395`) | tokens, lines, labels, names, strings, temporaries | Parser::Load, Script::Load | play, make | lines mean what the source means; only what is beyond a limit is refused |
| Native compiler (`Compiler/compiler.cc`) | code buffer, jump fixups | Compile | make | compiled code does what the interpreter does |
| Game runner (`Compiler/RunImage.cc`, `Loader.cc`, `Engine/Engine.cc`) | code frames, arena, context | Run, RunImage, host functions | shell, runtime | image checked before it runs, memory given back |
| xHCI (`USB/XHCI.cc`) | command, event and transfer rings with cycle bits, port registers, slot and endpoint numbers | TakeOwnership .. StartController, ResetAllPorts, EnableSlot .. QueueHidRead, PollHidReport | nobody: the use in `kernel.cc:124` is commented out, and gives the order | rings are queues; an answer is that of the question; nothing waits for ever |
| Boot and main loop (`kernel.cc`), game runtime (`Runtime/Runtime.cc`) | memory map and its key; what of memory and drive came up | init_kernel, the loop over PollChar | firmware | memory is handed over once and whole; nothing uses what did not come up |
| Clock, PCI, graphics, text, serial, port I/O, CRC, strings | | | everyone | |

How they interact.  A shell command calls EnFS, which calls `Part`, which calls
`Nvme::Submit`, which shares two rings with the controller and returns a status
or gives up after five seconds.  `mkpart` calls `Gpt::CreatePartition`, which
calls `Nvme` directly.  `Part::Mount` parses the GPT again and takes the first
partition of the Engine type.  EnFS is mounted at boot only; `mount` mounts the
partition, `format` the file system.  Games take frames for their code and, at
their first allocation, for an arena, and give them back when they end.

A command line is nowhere but on the screen: `Shell::Execute` splits the last row
of the console and hands its handler a pointer into it.  A game is text that one of
two loaders turns into lines: Script::Load reads a statement in each, Parser::Load a
C-like form; the lines are played by the interpreter or compiled, and
the compiled code calls back into the kernel for everything but arithmetic.  The
keyboard has one stream of scan codes and two readers: shell and editor take
characters, a game takes the state of keys.

Hard behaviours.  Power loss or a failed command between any two sectors;
memory that is changed before the write that fails; a controller that answers
late; two copies of one table; a counter beside the thing it counts; a pointer
into a buffer that scrolls; two implementations of one language; rings without
indexes both sides know.
`PROJECT.json` lists them with their lines under "hazards".

## 2. Modules

| Module | What it is |
|---|---|
| `EnFS` | the file system, the partition layer and the shell commands that change files, one step per drive command |
| `FileStore` | abstract: what a file system promises its callers |
| `EnFSProofs` | theorems about `EnFS` |
| `MCEnFS` | symmetry for the runs of `EnFS` |
| `NvmeQueue` | one queue pair: the driver and the controller |
| `CompletionChannel` | abstract: a completion queue is a FIFO channel |
| `Gpt`, `MCGpt` | the partition table, mkpart and free; the tables its run starts from |
| `StorageProofs` | theorems about `NvmeQueue`, and that it implements `CompletionChannel`, and about `Gpt` |
| `Frames`, `MCFrames` | the frame allocator and everything that takes frames; the memory maps of its run |
| `ScriptLang` | what interpreter and compiler have in common: lines, numbers, the world a game runs in |
| `Script` | the interpreter, one action per operation |
| `Play`, `PlayProofs` | `Script` as a specification of its own; theorems about it |
| `Native` | the compiler, the processor that runs what it emits, and the functions compiled code calls |
| `NativeProofs` | that compiled code runs inside of itself |
| `Lower` | both loaders: tokens to lines |
| `Lowering` | abstract: what a source means, as an evaluation of its tree, and how a script is written down |
| `Games` | source, loaders, interpreter, compiler and processor composed |
| `MCScripts`, `MCSources`, `MCGames` | the scripts, worlds, listings and sources of its run |
| `Terminal`, `MCTerminal` | console, shell and main loop |
| `Editor`, `TextBuffer`, `MCEditor` | the editor; abstract: a text with a position in it; the files of its run |
| `EditorProofs` | theorems about `Editor`, and that it implements `TextBuffer` |
| `Keyboard`, `MCKeyboard` | the scan codes and their two readers; the keys of its run |
| `InputProofs` | theorems about `Keyboard` and `Terminal` |
| `Boot` | from the firmware to the shell, every step of which may fail |
| `MachineProofs` | theorems about `Boot` and `Frames` |
| `Xhci`, `XhciProofs` | USB driver and controller; theorems about them |
| `TrbQueues` | abstract: a ring of transfer blocks is a queue |

Definitions whose comment says "Faulty variant" are what a definition would be
with a plausible mistake in the code.  They are used in no specification; put in
the place of the right definition they show that a property notices.

## 3. The modules and the code

### EnFS

State: `disk` is the sectors of the partition; `part` and `mounted` are the two
`mounted` flags; `super` and `files` are the copies in memory.  `op` is the
command under way: which transfer it is at (`zero`, `data`, `super`, `table`),
and the locals it needs to go on.  `faults` bounds the failures.  `acked` and
`sound` are history variables: what the last completed operation promised of
each name, and whether the volume is one that promises anything.

Actions: `Boot`, `BootFails` are `Part::Mount` and `EnFS::Mount` as
`kernel.cc:165` calls them; `MountPart`, `Format`, `WriteFile`, `Rm`, `RmFrfr`,
`WipePart` are the calls up to their first transfer; `ChunkDone` is one
iteration of the loop of `WriteFile` or `Part::Zero`; `DataDone`, `ZeroDone`,
`FlushSuper`, `FlushTable` are what comes after.  `TransferFails` is a transfer
that `Part::InRange` refuses or that the drive reports as failed, after any
subset of its sectors was written.  `PowerLoss` may come in any state, with the
same subsets.  `WriteFile` keeps the code's order: the prepared entry is in
memory before the volume is found to be full, so `ENFS_NO_SPACE` leaves it there.

Abstractions.  Lengths are in sectors; the bytes in a sector are a record naming
file, payload and position.  Superblock and table sectors hold values, and the
magic and the checksum of a sector written by Flush are right (sectors are
atomic).  Names are shorter than `ENFS_NAME_LENGHT` and buffers are allocated:
`ENFS_NAME_TOO_LONG`, `ENFS_NO_BUFFER` and `ENFS_NO_SLOT` return before anything
changes.  The partition starts blank.  A failed write has landed, in part or
not, when the failure is reported; that a timed-out command may land later is
the subject of `NvmeQueue`, not yet of `EnFS`.  Counts of sectors are below 2^32, to
which `Part::Zero` converts them (`Part.cc:72`).

`sound` is FALSE until a format completes, and from the start of the next format
or wipepart on; also after `rm --frfr` of an entry without an extent, which
zeroes the superblock, and after the failed write of a file whose entry claims
more sectors than it was given (`Overlong`): see section 6 for both.  Everything
else keeps the promises, which is the point: failed flushes, a full volume and
power losses included.

`ImplementsFileStore` maps the drive to `FileStore`: what the next boot would
recover of each name that something is promised of.

### NvmeQueue

Driver: `Submit` (up to the doorbell), `Poll` (the loop sees its phase bit and
returns the status), `TimeOut` (the deadline).  Controller, modelled from the
driver's use of it: `Fetch` takes a command from the submission ring, `Answer`
answers any of the commands it has taken, if the completion ring has room.
Command numbers stand for whole commands; the cid the code writes is never
compared, which is why `OwnCompletion` is a property and not a matter of course.
The admin queue and the I/O queue are two instances that share nothing.

### Gpt

Drive: the two arrays and the checksums in the two headers; a checksum is
represented by the array it was computed of.  `Mkpart` is everything up to the
first write: FindGap over the parsed entries, range and overlap checks, the
checksum test, the first free entry.  Then one action per write, chunk by chunk,
and `WriteFails` for a failure or power loss with part of the chunk written.
`Parsed` is the entries in the first 4096 bytes, as in `Gpt::Parse`.

`FindGap` is stated as a function of the set of partitions and `GapIsFirstFit`
compares it with a search of every aligned start.  The same sweep serves `free`.

### Frames

`bitmap` is the set of bits that are set.  `AllocFrames` is first fit, as the
loop in `Frames::Alloc`; `FreeBlocks` is `Frames::Free`.  Users: `NewTable`
(page tables), `HeapInit`, `StartNative` and `TakeArena` and `EndGame` (compiled
games and scripts).  `blocks` is who holds what, which the code keeps in its
callers' pointers.

### Script and Play

State: `lines` is the script, `m` the interpreter with the fields of
`src/Script/Script.hh` and a few more; `m.loop` says where `RunLoop` is.  Each
operation of the `switch` in `Step` is an action (`Set` .. `Peek`), each with
`Fueled` as a guard; `OutOfFuel` and `RunOff` are the two other ways `Step` ends;
`Pump` and `Present` are the rest of a turn of `RunLoop`.  A wait passes a
millisecond at a time (`Waiting`), in which the keyboard is pumped.

Abstractions.  The world is chosen at the start: which keys are held at which
millisecond, whether there are frames for an arena, the seed, and what those
frames held before.  A statement takes no time; a frame and a waited millisecond
take one.  What is drawn is a list of calls.  Numbers have their width: `Half`
gives half the range of 1, 2, 4 and 8 bytes, small in the runs, and arithmetic
wraps.  The arena counts slots, as the code does after its first division.

`strays` is a history variable: the reasons for which the interpreter and
compiled code are known to part, from the code, so that `SameOutcome` can be
exact about everything else.

| Stray | Interpreter | Compiled |
|---|---|---|
| `fuel` | 200000 lines without a flip present a frame and look at ESC | goes on; `EnFlip` sets `fuel`, nothing reads it (`Engine.cc:48`) |
| `depth` | a call too deep ends the script | the stack grows on |
| `return` | a return without a call ends the script (`Script.cc:442`) | takes what `RunImage` left on the stack for an address (`compiler.cc:313`) |
| `rnd` | no step of the generator for a limit below one (`Script.cc:431`) | always a step |
| `wait` | waits a negative number as an unsigned one (`Script.cc:486`) | does not wait |
| `stale` | a slot nobody wrote holds what the frames held | the same, from other frames |
| `start` | ESC held at the start ends the game before its first frame | it is looked at in the first flip |

### Native

`Compile` emits instructions line by line (`CodeOf`, after the `case`s of
`Compiler::Compile`; `Emitted` is what there is behind each line) and then patches
jumps and calls from `LineOffset`.  An
instruction is one machine instruction or the few that make one step; jumps
inside a line (`Rel8`) skip instructions.  Each kind of instruction is an action,
and so is each function of `Engine.cc`.  `phase` is "wild" when the processor
takes something for a return address that is none, or the stack is overrun:
whatever the memory there holds is executed, so nothing is said of it.  The stack
has room for `StackMax` calls; the 8 bytes a gosub adds for alignment are there,
because the return is only found when they are taken off again.  The functions of
`Engine.cc` are taken to keep to their own part of the stack.  By the calling
convention of the build (`Makefile:1`) they may also use the 32 bytes above their return address:
the prologue leaves room for these (`compiler.cc:65`), a gosub does not
(`compiler.cc:308`), so that in a sub they are its own return address and more.
Whether the compiler of the kernel ever makes use of them was not looked at.

### Lower and Lowering

`Lower` has both loaders.  `ParseStatement` is that of `Script.cc`: `Shapes` says for
each command what must follow it (a variable, an argument, the name of a key, a
string) and in which field of the line it goes; `ScriptLoad` reads a statement in each
line, `ParserLoad` is the recursive descent of `Parse.cc`, which hands the commands
it does not know to `ParseStatement` too.  Both start from tokens: a word, of which
some are numbers, a string, a sign.  The limits on lines, labels, variables, length of
names and room for strings are constants.  The parser's state is a record; each parsing function is an operator from the state before to the state
after, `out` being the argument it returns and `why` what it complained of.
`Materialize`, `NewTemp`, `EmitIf` and `PatchHere` keep the order of the code,
because which temporary holds what depends on it; what a parsing function does
after a call is an operator of its own (`BehindTest`, `Else`, `Declared`), which takes
the state the call left.  `IsTemp` looks at
the first character of a name, as the code does, so a variable of the program may
pass for a temporary.  `Lowering` is the reference, written from what such an
expression means: a tree, its text with no more parentheses than it needs, and
`Meaning`, which evaluates the tree with no temporaries, lines or jumps; a declaration
holds for the text behind it, whether it is carried out or not, as `varWidth` is set while
the text is read.  For
Script::Load it is `Listing`, the text of a script line by line, with a label in front of
each line that is jumped to: loading it must give the same script (`SameScript`), but for
the numbers of its variables.

### Games

A game starts as a script in lines (`Played`), as a source (`Sources`) or as a listing
(`Listings`), which the parser or Script::Load turns into lines before anything runs.  The interpreter plays it to its
end, then the processor runs what the compiler made of the same lines, in the
same world.  They share nothing but the lines, so one after the other is as good
as side by side.

### Terminal

`rows` are the rows of the console.  `Enter` is the whole of `Shell::Execute`,
with the newline it prints before it calls the handler: `given` is what stands
behind the pointer after that newline.  Commands that only print are `help` and
`echo`; `neenor` opens the editor, unless no file system is mounted; a game leaves lines for its variables.
`typed`, `wrapped` and `ran` are history variables.
`Printed` goes through a text character by character, as `Print` does.

### Editor

`lines`, `curLine`, `curCol`, `scrollTop` and `dirty` are those of the code,
counted from 1 but for the column.  `KeyDone` is the `switch` of `Update`, with
`InsertChars` for the keys that insert several characters (tab, brackets), which
stop where the row is full.  `Open` takes any of the files, of which
`EnFS::ReadFile` reads as much as the buffer holds (`Read`, `EnFS.cc:227`) and says
nothing of the rest.  A `Save` that fails leaves the file as it was, or as it should be,
or costs it, or leaves a mix of both in it, which is any file: `EnFS` promises nothing
else of a write that failed.  `damaged` is a history variable: since the text was opened
or well saved a Save failed and changed the file.
`RowsAfter`, `Above` and `WithoutCR` are the loops of `Open` and `Save` over the
characters of a file and the rows of a screen; `FileMax` is the buffer both use, as
large as all rows with their ends of line (`ED_BUFFER_BYTES`).
`TextBuffer` sees the rows as one text: it moves, inserts at the position, and
takes away next to it.

### Keyboard

`queue` is the keyboard controller's buffer.  A key sends one byte or, behind
`E0`, two.  `ReadKey` and `PumpState` read one byte a step, with `waits` between
the two bytes of a code, as the code polls until the second is there.  A game
starts or ends only between two calls.  `read`, `begun` and `adrift` are history
variables: the keys down according to what was read, those of them whose press
the game has read, and the modifiers whose flag is known to be behind: a game
read one of their codes (`PumpState` has no flags), or one of two held keys with
the same flag was let go.

### Boot

One action per step of `init_kernel` that can fail or that a later step relies
on.  The firmware makes a new map with every pool it hands out; `memoryMap` is what the
kernel has of it, with the room it reserved and the key that belongs to it.
`init_kernel` asks
for no status of the firmware and goes on with the null pointer it was left: without a
graphics protocol (`Locate`), a back buffer or a buffer for the map, which the model
lets crash or go on, as it depends on what is at address 0; a map that is not there
(`NoBuffer`) has no room.  `drive` is what `IdentifyAll` and `CreateIoQueues` leave behind, also when they
fail half way, because `init_kernel` goes on and every command may be typed
then.  `trap` is where the processor would stop: a null pointer, a division
by a block size or a number of entries that is zero.

### Xhci and TrbQueues

The driver's steps are those of the comment in `kernel.cc`, in its order.  `hc` is
the legacy, command and status registers, `port` the port registers: writing a 1
to some of their bits clears them.  `ring` is the three rings driver to
controller, each with both sides' indexes and cycle bits and its link entry;
`event` is the ring back, whose room the controller knows from ERDP.  Each
function that asks is an action up to its doorbell; `Poll` is one turn of the loop
that waits for the answer, `TimeOut` its deadline.  The controller may do any of
it late, never, or with an error, and reports what happens at the ports in
between: a device comes and goes as often as it likes, once the port has power, which
`PowerPorts` gives it.  A configuration of length 0 is asked for without a data stage
(`EmptyDescriptor`).  What the controller does is modelled from the use the driver makes of
it.  `TrbQueues` is what rings are for.

The rings hold up as queues because the bring-up has at most three entries
outstanding and a ring more than that; the driver never asks for room.  Next to the
three a ring needs its link and one more entry: a driver that comes round to the
link while the controller still stands at it turns the link's cycle bit before the
controller has gone over it.  With `RingTrbs` of 4 the run of `Xhci` fails
`RingsAreQueues` this way; above 4 the theorems below show that it cannot happen,
and the code has 256.

## 4. Runs

| Run | Question | Bounds |
|---|---|---|
| `enfs_torn` | Are files safe with 512-byte blocks, where the table is several sectors? `ReadsBack`, `CrashDurable`, `MetadataSound` | two names, two payloads, two slots in two table sectors, two data sectors, two faults |
| `enfs_block4k` | With 4096-byte blocks, do removed files stay removed, does the drive implement the abstract store, and does every operation end? | two names, files of up to two sectors written one at a time, one table sector, one fault |
| `enfs_frfr` | Does `rm --frfr` wipe the data? (No.) | no fault |
| `nvme_queue` | Are completions read once, in order, by the command they belong to, and does Submit return? | a ring of three, eight commands (several laps of both rings), three timeouts (the ring overrun) |
| `gpt_mkpart` | Does a copy of the table survive, with every partition? Do partitions stay apart, and are gaps what they should be? | six entries in two chunks, every table of entries in the first of them, eight sectors aligned to two, two faults |
| `frames_alloc` | Is memory handed out soundly and given back? | ten frames, maps with a hole of one or two frames anywhere, until memory runs out |
| `games` | Do lines mean what their source means, does compiled code do what the interpreter does, does it run inside of itself, do both stay in bounds, and does ESC end every game? Do both loaders take what is within the limits, and make of it what it says? | numbers of 4 bits (of 2 and 3 for bytes and shorts); every operation on every value in one operand and the four at an edge in the other; every script of three lines of control flow (tests jump to the start or the end) and of four lines of calls; every three lines that see the world; every two accesses to an arena of five slots; every operator on every difference, quotient and negation, and every block of two, with four temporaries; variables with a dollar on either side of every operator, and inside of either side; listings of every two lines of any form and of every three that see the world; names of four characters, eight bytes of strings; 8 lines of fuel, call depth 2 |
| `terminal_rows` | Is the command run the one typed, with its arguments? | two rows of three characters, names of two, six characters to type |
| `editor_keys` | Do cursor and rows stay in bounds, is a saved file what is shown, is the buffer a text? | three rows of three characters, two shown, eleven files (longer than the buffer, too many columns or lines, unreadable), any of which a failed save may leave; six keys |
| `keyboard_fingers` | Do both readers agree with the fingers? | any three of nine keys (the two shift keys stand for each other), fewer than two bytes waiting when a key moves, any number of games |
| `boot_commands` | What becomes of a boot in which anything fails? | maps of three and five descriptors, two more per pool, four commands |
| `xhci_bringup` | Are the rings queues, is every answer that of the question, does no port lose its enable bit to the driver, and does the bring-up end, with a controller that fails, is late or is dead? | rings of four entries and a link, event ring of three, one port, with or without power at the start, a device that comes and goes without a bound |

Why the bounds are enough.  The file system treats every file alike and its
hazards are between two of them, or between one file and the metadata: two names
and a table with both in different sectors (or the same one) show them all, and
the volume is small enough to run full, so that growth, refusal and reuse of
slots all happen.  Two faults let one failure hit the recovery from another.  One case needs a larger
volume than those of the runs, an overlong entry (section 6): it takes files of
three sectors.  The proof is what found it and what covers it, for every size;
TLC has looked at it in a volume of five sectors with files of up to three, to a
depth of forty steps, which takes too long to be a run.
The rings of `NvmeQueue` are passed more than twice, so every phase combination
occurs, and its timeouts reach the number at which the ring is overrun; those of
`Xhci` wrap in the bring-up, once on the way to the controller and several times
on the way back.  Its one port is not one for USB 3, which the driver does not reset;
of several ports, USB 3 among them, the safety properties are proved.  `CountMod` stands for 2^32.
Partitions in `gpt_mkpart` may nest, touch, overlap and be in any order, and the array's first chunk becomes
full.  In `games` every operation is executed with every pair of operand kinds
and at the edges of each width; loops without end run out of fuel, recursion out
of depth, code out of room.  A screen of two rows scrolls at every line; a row of
the editor is full after three keys.  Three fingers are what it takes for two
modifiers and a key, or for two keys of one flag and a key.

Fairness.  `EnFS!FairSpec` is weak fairness of `Progress`, the steps the kernel
takes without a key being pressed: each command to the drive is answered or given
up after five seconds (`Nvme::Submit`), so an operation under way goes on.
Commands of the user are not fair, nor are power losses.  `NvmeQueue!FairSpec`
asks of the controller that it fetches and answers, and of the polling loop that
it looks; a time-out is not needed and not assumed, and `SubmitReturns` is stated
until so many commands were given up that the rings can be overrun.
`Games!GamesSpec` is weak fairness of the interpreter and of the processor: one
thread, without interrupts.  `Xhci!FairSpec` is weak fairness of the driver only:
the controller may be dead, and deadlines do the rest.  They only do if there is a moment without an event: a stream
of events that never ends holds the waits for ever, so `BringUpEnds` is stated for the
behaviours in which devices stop coming and going (`Streams`).

Deadlock is checked in every run but that of `Gpt`; specifications that come to
their end say so with an action (`Done`, `Finished`, `Stopped`, `Quiet`, or a
bound that is reached).  The run of `Gpt` switches it off: there mkpart, the only
command, is refused once there is no gap or the checksum differs, and the system
is at rest.

Every property has a faulty variant in `PROJECT.json` ("mutants") that breaks it
under the run's own bounds.

## 5. Proofs

`MachineProofs`, of `Frames`: for every number of frames, memory map and size of game.  The
inductive invariant is the conjunction of the five invariants of `Frames`, which
hold each other up: a block that is freed is marked in the bitmap
(`BlocksSound`), so the counter gains exactly its frames (`CounterExact`), so it
stays in range (`TypeOK`); a new block is taken from clear bits, which are in no
other block.  `AllocKeeps` and `FreeKeeps` are the two lemmas about
`Frames::Alloc` and `Frames::Free`; the users follow from them.  Assumptions:
sizes are natural numbers, those of blocks positive, and the map lies below the
highest address (`SizeAssumption`, `MapAssumption`).

`StorageProofs`, of `NvmeQueue`: for a ring of any size greater than one, any number of
commands and timeouts.  `RingShape` is the missing half of `PhaseSound`: what
the phase of every entry is, seen from the controller, and that the driver is on
the controller's lap behind it or on the lap before in front of it.
`UnreadFilled` and `AheadFilled` say that both sides only read what the other
has written; they hold even when the ring is overrun.  `OneAtATime` says where
the command of a driver that never gave up can be, and gives `OwnCompletion`.

`PlayProofs`: for every script of any length, every call depth, amount of fuel,
size of arena and world.  `IInv` is `TypeOK`, `ArenaSound`, `ReturnsBehindCalls`
and what they need: the fields of `m` (`DOMAIN m = Fields`), `ArenaShape` (without
an arena nothing is used or written; every block lies below `arenaUsed`, and so
does every slot written), and `WaitInside` (a wait is under way at a line of the
script, so that the line behind it exists).  The argument for the arena: a new
block begins at `arenaUsed`, behind all others, and `Fits` keeps its end in the
frames; poke writes below `arenaUsed` only, and all of that was handed out.  For
the call stack: an address is only pushed by a gosub, and what is pushed is the
line behind it; jumps leave the stack alone, however they leave a sub.
`QuietKeeps` is the step that changes neither; `StackKeeps`, `AllocKeeps` and
`PokeKeeps` are the others.  Assumptions: `LangAssumption`, `ScriptAssumption` and
`PlayedAssumption`, that every script is one the parser lets through.

`StorageProofs` goes on to the refinement of `CompletionChannel`.  What the phase bits show as pending is
the distance from the driver to the controller (`PendingIsDistance`), so the channel
is the sequence of the entries between them (`ChanShape`): an answer appends one, a
poll takes the first, every other step leaves it alone, and so does each of them when
the ring has been overrun.

`StorageProofs`, of `Gpt`: for a table and a drive of any size, any array to start from, any number
of failed writes.  The checksum of the primary copy never changes, so mkpart only works
on the table it was computed of, and fills the same entry of it each time: every array
there is equals that table, or differs from it in this one entry (`Grown`).  `Halves`
says how far the three writes have come, `Kept` what was promised by then, `AddsApart`
that what is about to be written is apart.  `NothingForgotten` and `PartsApart` follow.
`GapsRight` needs that `FindGap`, a sweep, is right: `NatHasMin` and `NatHasMax` carry
the argument that a first and a last position exist, for sets of any size.  Assumptions:
`SizeAssumption`, `TablesAssumption`, and for `AlwaysGapsRight` the hypothesis that the
arrays of the start are well-formed (an entry starts no later than it ends), without
which `FindGap` may be wrong; the theorem proves that mkpart keeps it.

`InputProofs`, of `Keyboard`: for any set of keys, any number of them held, games begun and ended at
will.  `Paired` says how a reader that waits in the middle of a code and the bytes not
yet read fit together, `HeldFollows` that whether a key is down is what the last of its
codes in the stream says.  From the first follows `NoGhostKey`, from the second that
the flags are those of the keys held (`FlagsFollow`) and that a game which has read
everything knows what is held (`DownIsHeld`); `TypedAsMeant` is about one step.
Assumptions: `KeyboardAssumption`, and `LayoutAssumption`, what the tables in
`keyboard.cc` say: which codes are modifiers and which a game can ask for.

`MachineProofs`, of `Boot`: for any memory map and any number of commands.  `Brought` says what has come
up at each step of `init_kernel`, so that `Half` (the only trap behind the boot is the
one of a drive with a namespace and no queues) and `MountedOnDrive` hold in the shell.
`MapFollows` says how far the kernel's room for the memory map may be behind the
firmware's, if there is a buffer for it at all: the hypothesis of `AlwaysHandedOver` is that each of the two pools behind
`MapSize` adds at most half of the four descriptors the kernel asks for besides.  Nothing
in UEFI promises it; with more, the run of `Boot` fails `MemoryHandedOver`.

`InputProofs`, of `Terminal`: for a console of any size, any table of commands, any names
and any characters.  `TermInv` says what a screen is (at least one row and not more than
there is room for, each shorter than its room) and, with that, that its last row is what
was typed.  One lemma for each function of the console says what it makes of a screen:
a new line is blank, whether or not it scrolls (`NewLineSound`); a character is put behind
the others, in a row of its own if there is no room (`PutSound`); backspace takes one
(`BackSound`); what is printed ends with a blank row (`PrintlnSound`, `SaysSound`).  With a
free row, `NewLineSound` leaves the row of the command where it was, which is
`ArgumentsArrive`.  Assumption: `TerminalAssumption`, that a row has room for a character
and its NUL.

`EnFSProofs`: for a volume, a table, names, payloads and files of any number and size, and
any number of failed transfers and power losses.  The argument is that an extent is
handed out once, in front of the pointer and behind all others, and belongs to one slot
from then on, whoever has it.

- `DiskApart`, `MemoryApart` and `CrossApart` say so of the table on the drive, of the
  one in memory, and of one against the other: two slots that are not the same have no
  sector in common, wherever each is looked up.  That is why a torn write of the table,
  which leaves some sectors of before and some of after, is a table again
  (`TornTable`), and why a transfer of data never meets another file (`BesideSound`).
- `Kept`: of a name something is promised of, both tables say the same, whatever failed
  in between; the content promised is on the drive.  `WriteFileKeeps` and the lemmas
  for the other actions each change one slot, whose name is promised nothing.
- `Named`, `Writing`, `Zeroing` and `Flushing` say what the operation under way has made
  sure of; `Landing(k)` that its first k sectors are on the drive.
- `Held(s)` is what a slot occupies while it is written: a file that shrinks keeps its
  sectors until its length is set, and an overlong entry counts with what it was given.
- `Counted`: `fileCount` in both places as long as nothing failed.

`ReadsBack`, `CrashDurable` and `MetadataSound` are consequences of it.  For
`RemovedStaysRemoved` and for the refinement `ImplementsFileStore` there is a second
invariant, `Single` (no table has a name twice, and none a name that was removed), which
is only kept if the table is written whole: the hypothesis of both theorems is
`TableSectors = 1`, which is a drive with 4096-byte blocks.  With smaller ones the
conclusion is wrong (section 6).  The refinement then says that what the next boot will
recover of a name is what was promised of it (`Recoverable`), so that every step is one
of `FileStore` or none.  Assumptions: `NameAssumption`, `ValueAssumption`,
`SizeAssumption` (64 entries fill whole sectors) and `RoomAssumption` (the volume has room
for its metadata, as `Format` asks).

`XhciProofs`: for rings of more than four entries, an event ring of any length, any
number of ports and whatever comes and goes at them.

- `RingShape` and `EventShape` say what the cycle bits of a ring are, seen from both of
  its sides: what the driver has written on this lap carries its bit, the rest and the
  link the opposite one, and the controller is behind it on this lap or in front of it
  on the lap before.  So what is left in a ring is counted without looking at a bit
  (`Count`, `Unseen`) and its entries are numbered from the front (`Item`, `Told`).
  `PushSound`, `AdvanceSound`, `SentSound` and `PolledSound` are what the two sides do
  to it in these numbers; `PendingSound` and `UnreadSound` say that the bits show just
  these entries.  From there every step appends to a queue, takes its first or leaves
  it alone (`RingsImplementQueues`).
- `AnswersOwn` needs to know where the request of the step under way can be:
  `CommandTurn`, `TransferTurn` and `HidTurn` say that it is with the controller and
  nothing of its kind has been told (`Waiting`), or it has been answered and nothing else
  of its kind has (`Answered`), and that of a step that is over nothing is left.  That
  the two kinds share the event ring, with what ports tell in between, does no harm
  (`Undisturbed`).  A step that was given up could be answered late; all of them end the
  bring-up but SET_IDLE, which is the exception the property makes.
- `PortsStayEnabled` follows from what the port registers hold alone.

`EditorProofs`: for any number of rows and columns, any files and any number of keys.

- Induction.  What a loop over characters or rows computes is a recursive function;
  `Recursion` gives it its values, and `UptoInd` goes through them with a set of numbers,
  both from the fact that natural numbers are well-founded.  `RowsAfterIs`, `AboveIs` and
  `WithoutCRIs` are the three loops.
- The text of the rows is what is above a row, the row, and what is behind it
  (`FlatIs`, `RowReplaced`), so that a key that changes a row changes the text at one
  place: `TextInserted`, `TextErased`, `TextJoined`.  `KeyInserts`, `KeyErases`,
  `KeySplits` and `KeyJoins` say so of the functions of the code; `EveryKeyKeeps` is all
  keys, those that insert several characters included.
- `Reopens`: the text of any rows, read again, is these rows.  The argument follows the
  loop of `Open` through the text `Save` wrote: behind the j-th character of a row the
  sheet is the rows above and j characters (`Begun`, `RowRead`).  `FlatClean` (no CR is
  written) and `FlatFits` (the text fits the buffer) make `Open` read it whole.  The same
  walk through a file nobody saved shows that one within the limits loses nothing but its
  CRs (`FitsWhole`).

`IInv` says that the cursor is in a row and in the window, what a row is, and that a text
without the mark is that of its file, if the file is within the limits (`Fits`: buffer,
rows and columns) and no failed Save has changed it (`CleanIsSaved`).
`TypeCorrect`, `AlwaysSaved` and the refinement of `TextBuffer` (`AlwaysAText`) follow.
Assumptions: `EditorAssumption`, and `BytesAssumption`: what a row is made of are the
characters that can be typed, and files are made of these and ends of line.

`NativeProofs`: for every script of any length, any room for code and stack.  The code
of a line is a `Block`, whose skips stay in it or lead behind its end (`LineBlock`, from
one lemma for each piece the compiler emits), but for a gosub, whose call is only entered
from its pad and whose unpad only by a return (`GosubSound`).  `Sound` says so of any
code, and code behind code has it too (`SoundJoin`); with `UptoInd` and `Recursion`, as in
`EditorProofs`, all that is emitted is sound, and `LineOffset` is where a line is entered
(`EmittedSound`).  `CompiledWell` is the same of the patched code, with its epilogue:
every jump and call leads to an instruction that may be entered.  The machine adds
`Inside`: every other word on the stack is where a call returns to, an unpad, and an odd
number of words is there in the middle of a gosub only, so that a function of the kernel
is always called with the stack aligned.  A return with nothing on the stack, and a call
when it is full, are the two ways out (phase "wild"); `SameOutcome` says which scripts
take them.  `NativeSpec` runs what was compiled of any script the parser lets through
(`IsScript`); that what the parser leaves is one is model-checked (`TypeOK`).

TLC was asked first: `IInv` of `XhciProofs` and of `EditorProofs`, `IInv` and `Single` of
`EnFSProofs` were checked as invariants on small instances before they were proved.

Only model-checked: the agreement of the two machines and the meaning of sources
(`Games`).  They are about what recursive operators compute of a tree of any depth
(`Lower` and `Lowering` declare some, and `Games` extends both), which is out of the
prover's reach, and so is all liveness (`CommandReturns`, `SubmitReturns`, `EscEndsPlay`,
`BringUpEnds`).  `FrfrWipesData` is false.

## 6. What the model found

*rm --frfr without an extent* (`enfs_frfr`).  Write a file, write it again with
more data than the volume has left: `WriteFile` sets `startSector = 0`
(`EnFS.cc:171`) and returns `ENFS_NO_SPACE`.  `rm --frfr` now zeroes from sector
0: the superblock goes, the data stays.  (`Remove` then writes a good superblock
again, unless the power fails in between.)

*A refused growth leaves a length behind.*  The same refusal leaves the old
`byteLenght` in the entry, without an extent (`EnFS.cc:171`).  A later write that fits
allocates as many sectors as it needs, and the length is only set once its data is on
the drive.  If that transfer fails, the entry in memory claims more sectors than it was
given, and the next file is put into them: write a with two sectors, grow it to three on
a volume with room for two more, write a with one sector and let the transfer fail, write
b.  Now a write of a that `have` takes to fit goes over the data of b, and so does
`rm --frfr a`.  It came up as a step of the proof of `MemoryExtents` that could not be
proved; `Overlong` is the condition.  Setting the length to zero where the extent is given
up would be enough.

*free and partitions in later entries.*  `Parse` reads the first 4096 bytes of the
array, 32 of the usual 128 entries, and nothing sets the flag `truncated` that
`free` asks for (`Gpt.cc:95`, `Shell.cc:220`): the space of a partition in a later
entry is shown as unallocated, and mkpart may put a partition over it.  `PartsApart`
and `GapsRight` are stated for tables that are read as a whole (`AllParsed`).

*mkpart once only.*  The primary header is never rewritten (`Gpt.cc:201`
sets the checksum in memory), so its checksum is that of the old array and the
next mkpart ends in `GPT_BAD_ENTRY_CRC` (`Gpt.cc:143`).

*A removed file that comes back.*  With 512-byte blocks the table is eight
sectors.  `rm f` whose flush fails leaves f on the drive and its slot free in
memory; writing f and another file again, with a table write torn by a power
loss, can leave f in two entries on the drive.  A later `rm f` that succeeds
frees only the first of them, and f is found again.  It takes two faults; with
4096-byte blocks the table is one sector and `RemovedStaysRemoved` holds.

*An interrupted format.*  A new superblock with `dataUsed` 0 and the table of
before: the next boot mounts it and allocates over the files it lists.  The
properties exclude it (`sound`), as nothing is promised of a volume being
formatted.

*fileCount.*  It is exact as long as nothing fails (`CountExact`).  A power loss
between superblock and table makes it drift for good.

*A refused growth loses the file from memory.*  When the volume is full, the
entry in memory has no extent any more although the drive still has the old
content; the next flush makes that permanent.  `WriteFile` withdraws the promise
of the name in the model, as the call reported a failure.

*echo on the last row.*  On a full console the newline of `Execute` scrolls the row
the arguments point into (`Shell.cc:45`); the pointer then shows the new row, which
is blank: `echo` prints nothing and `neenor` asks for a name.  `ArgumentsArrive`
says that it takes a full console.

*Games that behave differently compiled.*  The table of strays in section 3.  The
two that matter: compiled, a loop without flip cannot be left with ESC, and a
return without a call runs into whatever is on the stack.

*Modifiers after a game.*  `PumpState` reads the codes of modifiers without looking
at the flags: a shift key let go in a game stays pressed for the shell until it is
pressed and let go again.  `FlagsFollow` names this and the other case, two shift
keys with one flag.

*A drive that came up half.*  If the third Identify fails, `nsid` is set and the
queues are not: any command that reads the partition table then divides by zero
entries.  `CrashesOnlyHalfReady` says there is no other way.

*The editor cuts without a word.*  A file longer than the buffer is read up to its end,
and `ReadFile` returns `ENFS_OK` (`EnFS.cc:227`); one of more rows or columns than there is
room for is shown without the rest, and one with as many ends of line as rows with
an empty last row (`Editor.cc:46`).  None of them has the mark for unsaved changes, and
saving loses what was cut.  A file that cannot be read is shown as an empty one
(`Editor.cc:33`).  And a Save of a text without the mark that fails leaves it without,
although it may have damaged the file (`Editor.cc:63-80` never sets it).  `SavedIsKept`
is stated of all other files.

*Variables that begin with a dollar.*  `Materialize` copies the operand on the left of an
operator unless it is a temporary, which it tells from the dollar its name begins with
(`Parse.cc:40`).  A variable may be named so: after `$a = 1; z = $a + 1;` both hold 2.
A variable named `$0` is overwritten by the first expression.  `MeaningKept` excludes
exactly these sources (`Clobbers`); without the exclusion the run finds them.  `TODO:29` has
the temporaries on its list.

*Late answers of USB.*  Events are not compared with what was asked.  It does no
harm, as a bring-up that gave something up ends; but SET_IDLE is not asked for its
success (`XHCI.cc:788`), and its late answer passes for a report of the keyboard.

*Waits of USB with events without end.*  `WaitCommand`, `ControlIn`, `ControlOut` and
`PollHidReport` look at their deadline only when there is no event, and go on to the next
one after an event of another kind (`XHCI.cc:415-427`, `597-610`, `763-772`, `883-891`): a
port whose contact is loose holds the bring-up for as long as it tells of it.  With one
port and an event ring of three the run has these behaviours; `BringUpEnds` says that it
is only they that do not end.  The loops that wait for registers look at the clock each
time.

*A null pointer at boot.*  Without a graphics protocol, or without memory for the back
buffer or the memory map, `init_kernel` goes on with address 0 (`kernel.cc:25`, `67`,
`87`).  Nothing is promised of such a boot but what `CrashesOnlyHalfReady` and
`MountedOnDrive` say; `MemoryHandedOver` is stated for one that has a buffer for the map.

## 7. What is not modelled

`PROJECT.json` gives a reason for each component.  In short: pixels, fonts, port
I/O, PCI enumeration and clock calibration have no state worth a property; the
bits of page tables are only seen by a processor with caches; bytes of x86
instructions and of CRC-32 are below the level of the model.

Of the components that are modelled: `Parse`'s header checks, GUID generation and
name conversion; `partread` and `partwrite` of raw sectors; which of several Engine
partitions `mount` takes while `EnFS` stays mounted, which needs the sectors of two
volumes (`Shell.cc:312`); writes that were given up and are executed late from a
buffer that is used again (`nvme.cc:69`); the images `make` and `export` write, and
the header `RunImage` checks; the alignment of `Arena::Alloc`; contexts and
descriptors of USB.

## 8. Plan

Done: the storage side (`EnFS`, `NvmeQueue`, `Gpt`), memory (`Frames`), games from
source to processor, console and shell, editor, keyboard, boot, USB.  Proofs of all
safety properties of `Frames`, `NvmeQueue`, `Gpt`, `Boot`, `Keyboard`, `Terminal`,
`Editor`, `EnFS` and `Xhci`, of those of the interpreter (`Play`), and that compiled
code stays inside itself (`Native`), with four refinements.

What a next step would be: `Volume` (`Part::Mount` with two partitions under `EnFS`) and
`LateWrites` (`EnFS` over `NvmeQueue`).

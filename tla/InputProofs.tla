---------------------------- MODULE InputProofs ----------------------------
(***************************************************************************)
(* Proofs about Keyboard, for any keys, in any order and any number of     *)
(* them held at once, and about Terminal, which reads the characters, for  *)
(* any size of the console, any table of commands and any arguments.       *)
(*                                                                         *)
(* Keyboard: two readers share one stream and one of them waits in the     *)
(* middle of a code; Paired says that waits and the bytes not yet read     *)
(* always fit together.  HeldFollows relates the keys that are down to     *)
(* those the readers know of, through the bytes in between.                *)
(*                                                                         *)
(* Terminal: TermInv adds to the properties what a screen is; the lemmas   *)
(* say what each operation of the console makes of one.  What is printed   *)
(* character by character is a recursive function, whose values Recursion  *)
(* gives and UptoInd goes through.                                         *)
(***************************************************************************)
EXTENDS Keyboard, Terminal, SequenceTheorems, WellFoundedInduction, TLAPS

---------------------------------------------------------------------------
(* The keyboard *)

Key == [name : STRING, code : Codes, ext : BOOLEAN, mod : Mods \cup {"none"}]
Scan == [code : Codes, make : BOOLEAN, key : player]
Stream == Scan \cup {PrefixByte}

(* An E0 is in front of the code of a key that has it, and of no other.    *)
Paired ==
  /\ waits => queue # <<>> /\ queue[1] # PrefixByte
  /\ \A i \in 1 .. Len(queue) :
       /\ queue[i] = PrefixByte => i + 1 \in 1 .. Len(queue) /\ queue[i + 1] # PrefixByte
       /\ queue[i] # PrefixByte =>
            /\ queue[i].code = queue[i].key.code
            /\ queue[i].key.ext <=> IF i = 1 THEN waits ELSE queue[i - 1] = PrefixByte

CodeOf(i, k) == queue[i] # PrefixByte /\ queue[i].key = k

(* Whether a key is down is what the last of its codes in the stream says, *)
(* and what the readers know if there is none.                             *)
HeldFollows ==
  \A k \in player :
    /\ \A i \in 1 .. Len(queue) :
         CodeOf(i, k) /\ (\A j \in i + 1 .. Len(queue) : ~CodeOf(j, k)) => (k \in held <=> queue[i].make)
    /\ (\A i \in 1 .. Len(queue) : ~CodeOf(i, k)) => (k \in held <=> k \in read)

GhostFree ==
  got.key # "none" =>
    /\ got.of.make
    /\ got.key = got.of.key.code \/ (got.key = "^s" /\ got.of.key.code = "s")
    /\ got.of.key.ext = (got.key \in Arrows \cup {"home"})

DownFollows == game => keysDown = {k.name : k \in begun} \cap Tracked

Typed ==
  /\ player \in Players /\ held \subseteq player /\ read \subseteq player /\ (game => begun \subseteq read)
  /\ queue \in Seq(Stream)
  /\ flags \subseteq Mods /\ adrift \subseteq Mods
  /\ keysDown \subseteq Tracked
  /\ game \in BOOLEAN /\ waits \in BOOLEAN

IInv == Typed /\ Paired /\ HeldFollows /\ GhostFree /\ FlagsFollow /\ DownFollows

(* A key of a player is a key. *)
LEMMA KeyTyped ==
  ASSUME Typed, NEW k \in player
  PROVE  k.code \in Codes /\ k.ext \in BOOLEAN /\ k.mod \in Mods \cup {"none"}
<1>1. k \in Key
  BY KeyboardAssumption DEF Typed, Key
<1>2. QED
  BY <1>1 DEF Key

(* E0 is the code of no key. *)
LEMMA ScanIsNoPrefix ==
  ASSUME NEW s \in Scan
  PROVE  s # PrefixByte
<1>1. s.code \in Codes
  BY DEF Scan
<1>2. PrefixByte.code = "E0"
  BY DEF PrefixByte
<1>3. "E0" \notin Codes
  BY DEF Codes, Chars, Arrows
<1>4. QED
  BY <1>1, <1>2, <1>3

(* What the keyboard sends when a key moves is put behind the rest. *)
LEMMA Sent ==
  ASSUME Typed, NEW k \in player, NEW make \in BOOLEAN, queue' = queue \o Bytes(k, make)
  PROVE  LET n == Len(queue)
             m == IF k.ext THEN n + 2 ELSE n + 1
         IN  /\ queue' \in Seq(Stream) /\ n \in Nat /\ Len(queue') = m
             /\ \A i \in 1 .. n : queue'[i] = queue[i]
             /\ k.ext => queue'[n + 1] = PrefixByte
             /\ queue'[m] = [code |-> k.code, make |-> make, key |-> k]
<1> DEFINE s == [code |-> k.code, make |-> make, key |-> k]
           n == Len(queue)
<1>1. queue \in Seq(Stream) /\ n \in Nat
  BY LenProperties DEF Typed
<1>2. s \in Stream /\ PrefixByte \in Stream
  BY KeyTyped DEF Scan, Stream
<1>3. CASE k.ext
  <2>1. Bytes(k, make) = <<PrefixByte>> \o <<s>>
    BY <1>3 DEF Bytes
  <2> HIDE DEF s
  <2>2. <<PrefixByte>> \in Seq(Stream) /\ <<s>> \in Seq(Stream) /\ Len(<<PrefixByte>>) = 1 /\ Len(<<s>>) = 1
    BY <1>2
  <2>3. /\ Bytes(k, make) \in Seq(Stream) /\ Len(Bytes(k, make)) = 2
        /\ Bytes(k, make)[1] = PrefixByte /\ Bytes(k, make)[2] = s
    BY <2>1, <2>2, ConcatProperties
  <2> DEFINE b == Bytes(k, make)
  <2>4. /\ queue' \in Seq(Stream) /\ Len(queue') = n + 2
        /\ \A i \in 1 .. n + 2 : queue'[i] = IF i <= n THEN queue[i] ELSE b[i - n]
    <3> HIDE DEF b
    <3>1. queue' = queue \o b
      BY DEF b
    <3>2. b \in Seq(Stream) /\ Len(b) = 2
      BY <2>3 DEF b
    <3>3. /\ queue \o b \in Seq(Stream) /\ Len(queue \o b) = Len(queue) + Len(b)
          /\ \A i \in 1 .. Len(queue) + Len(b) : (queue \o b)[i] = IF i <= Len(queue) THEN queue[i] ELSE b[i - Len(queue)]
      BY <1>1, <3>2, ConcatProperties
    <3>4. QED
      BY <3>1, <3>2, <3>3
  <2>5. queue'[n + 1] = b[1] /\ queue'[n + 2] = b[2]
    <3> HIDE DEF b
    <3>1. n + 1 \in 1 .. n + 2 /\ n + 2 \in 1 .. n + 2 /\ ~(n + 1 <= n) /\ ~(n + 2 <= n) /\ n + 1 - n = 1 /\ n + 2 - n = 2
      BY <1>1
    <3>2. QED
      BY <2>4, <3>1
  <2>6. \A i \in 1 .. n : queue'[i] = queue[i]
    BY <1>1, <2>4
  <2>7. QED
    BY <1>1, <1>3, <2>3, <2>4, <2>5, <2>6 DEF s
<1>4. CASE ~k.ext
  <2>1. Bytes(k, make) = <<>> \o <<s>>
    BY <1>4 DEF Bytes
  <2> HIDE DEF s
  <2>2. <<s>> \in Seq(Stream) /\ Len(<<s>>) = 1
    BY <1>2
  <2>3. Bytes(k, make) = <<s>>
    BY <2>1, <2>2, ConcatEmptySeq
  <2>4. QED
    BY <1>1, <1>4, <2>2, <2>3, ConcatProperties DEF s
<1>5. QED
  BY <1>3, <1>4, KeyTyped

(* A byte is read from the front. *)
LEMMA Taken ==
  ASSUME Typed, queue # <<>>, queue' = Tail(queue)
  PROVE  /\ queue' \in Seq(Stream) /\ Len(queue) \in Nat \ {0} /\ Len(queue') = Len(queue) - 1
         /\ \A i \in 1 .. Len(queue') : queue'[i] = queue[i + 1]
         /\ Byte = queue[1] /\ Byte \in Stream
<1>1. queue \in Seq(Stream)
  BY DEF Typed
<1>2. Len(queue) \in Nat \ {0}
  BY <1>1, EmptySeq
<1>3. Byte = queue[1]
  BY <1>1 DEF Byte
<1>4. QED
  BY <1>1, <1>2, <1>3, HeadTailProperties, ElementOfSeq

(* Bytes are in pairs behind each code that is sent ... *)
LEMMA SentPaired ==
  ASSUME Typed, Paired, NEW k \in player, NEW make \in BOOLEAN,
         queue' = queue \o Bytes(k, make), waits' = waits
  PROVE  Paired'
<1> DEFINE n == Len(queue)
           m == IF k.ext THEN n + 2 ELSE n + 1
<1>1. /\ n \in Nat /\ Len(queue') = m
      /\ \A i \in 1 .. n : queue'[i] = queue[i]
      /\ k.ext => queue'[n + 1] = PrefixByte
      /\ queue'[m] = [code |-> k.code, make |-> make, key |-> k]
  BY Sent
<1>2. queue'[m] # PrefixByte /\ queue'[m].code = k.code /\ queue'[m].key = k
  <2>1. [code |-> k.code, make |-> make, key |-> k] \in Scan
    BY KeyTyped DEF Scan
  <2>2. QED
    BY <1>1, <2>1, ScanIsNoPrefix
<1>3. k.ext \in BOOLEAN /\ queue \in Seq(Stream) /\ (queue # <<>> <=> n > 0)
  BY <1>1, KeyTyped, EmptySeq DEF Typed
<1> HIDE DEF m
<1>4. m = IF k.ext THEN n + 2 ELSE n + 1
  BY DEF m
<1>5. waits' => queue' # <<>> /\ queue'[1] # PrefixByte
  <2>1. waits => n > 0 /\ queue[1] # PrefixByte
    BY <1>3 DEF Paired
  <2>2. queue' # <<>>
    BY <1>1, <1>4, EmptySeq
  <2>3. QED
    BY <1>1, <2>1, <2>2
<1>6. ASSUME NEW i \in 1 .. m
      PROVE  /\ queue'[i] = PrefixByte => i + 1 \in 1 .. m /\ queue'[i + 1] # PrefixByte
             /\ queue'[i] # PrefixByte =>
                  /\ queue'[i].code = queue'[i].key.code
                  /\ queue'[i].key.ext <=> IF i = 1 THEN waits' ELSE queue'[i - 1] = PrefixByte
  <2>1. CASE i \in 1 .. n
    <3>1. queue'[i] = queue[i] /\ (i # 1 => queue'[i - 1] = queue[i - 1])
      BY <1>1, <2>1
    <3>2. queue[i] = PrefixByte => i + 1 \in 1 .. n /\ queue'[i + 1] = queue[i + 1]
      BY <1>1, <2>1 DEF Paired
    <3>3. i + 1 \in 1 .. n => i + 1 \in 1 .. m
      BY <1>1, <1>4
    <3>4. QED
      BY <2>1, <3>1, <3>2, <3>3 DEF Paired
  <2>2. CASE i = n + 1 /\ k.ext
    BY <1>1, <1>2, <1>4, <2>2
  <2>3. CASE i = m
    <3>1. i - 1 = n \/ (k.ext /\ i - 1 = n + 1)
      BY <1>1, <1>4, <2>3
    <3>2. CASE k.ext
      BY <1>1, <1>2, <1>4, <2>3, <3>2
    <3>3. CASE ~k.ext
      <4>1. n > 0 => queue'[n] = queue[n] /\ queue[n] # PrefixByte
        BY <1>1 DEF Paired
      <4>2. n = 0 => ~waits
        BY <1>3 DEF Paired
      <4>3. i = n + 1
        BY <1>4, <2>3, <3>3
      <4>4. QED
        BY <1>1, <1>2, <1>4, <2>3, <3>3, <4>1, <4>2, <4>3
    <3>4. QED
      BY <3>2, <3>3
  <2>4. QED
    BY <1>1, <1>4, <2>1, <2>2, <2>3
<1>7. QED
  BY <1>1, <1>5, <1>6 DEF Paired, m

(* ... and stay so when one of them is read. *)
LEMMA TakenPaired ==
  ASSUME Typed, Paired, queue # <<>>, queue' = Tail(queue), waits' = IsPrefix_
  PROVE  Paired'
<1>1. /\ queue' \in Seq(Stream) /\ Len(queue) \in Nat \ {0} /\ Len(queue') = Len(queue) - 1
      /\ \A i \in 1 .. Len(queue') : queue'[i] = queue[i + 1]
      /\ waits' <=> queue[1] = PrefixByte
  BY Taken DEF IsPrefix_
<1>2. waits' => queue' # <<>> /\ queue'[1] # PrefixByte
  <2> SUFFICES ASSUME queue[1] = PrefixByte PROVE queue' # <<>> /\ queue'[1] # PrefixByte
    BY <1>1
  <2>1. 2 \in 1 .. Len(queue) /\ queue[2] # PrefixByte
    BY <1>1 DEF Paired
  <2>2. Len(queue') # 0 /\ queue'[1] = queue[2]
    BY <1>1, <2>1
  <2>3. queue' # <<>>
    BY <2>2, EmptySeq
  <2>4. QED
    BY <2>1, <2>2, <2>3
<1>3. ASSUME NEW i \in 1 .. Len(queue')
      PROVE  /\ queue'[i] = PrefixByte => i + 1 \in 1 .. Len(queue') /\ queue'[i + 1] # PrefixByte
             /\ queue'[i] # PrefixByte =>
                  /\ queue'[i].code = queue'[i].key.code
                  /\ queue'[i].key.ext <=> IF i = 1 THEN waits' ELSE queue'[i - 1] = PrefixByte
  <2>1. i + 1 \in 1 .. Len(queue) /\ i + 1 # 1 /\ i \in Nat /\ (i + 1) - 1 = i
    BY <1>1
  <2>2. /\ queue[i + 1] = PrefixByte => i + 1 + 1 \in 1 .. Len(queue) /\ queue[i + 1 + 1] # PrefixByte
        /\ queue[i + 1] # PrefixByte =>
             /\ queue[i + 1].code = queue[i + 1].key.code
             /\ queue[i + 1].key.ext <=> queue[i] = PrefixByte
    BY <2>1 DEF Paired
  <2>3. i + 1 + 1 \in 1 .. Len(queue) => i + 1 \in 1 .. Len(queue') /\ queue'[i + 1] = queue[i + 1 + 1]
    BY <1>1, <2>1
  <2>4. i # 1 => queue'[i - 1] = queue[i]
    <3>1. i # 1 => i - 1 \in 1 .. Len(queue') /\ (i - 1) + 1 = i
      BY <1>1, <2>1
    <3>2. QED
      BY <1>1, <3>1
  <2>5. QED
    BY <1>1, <2>2, <2>3, <2>4
<1>4. QED
  BY <1>2, <1>3 DEF Paired

(* The player moves a key: the last of its codes is the one just sent.     *)
LEMMA SentHeld ==
  ASSUME Typed, HeldFollows, NEW k \in player, NEW make \in BOOLEAN,
         queue' = queue \o Bytes(k, make), held' = IF make THEN held \cup {k} ELSE held \ {k},
         read' = read, player' = player
  PROVE  HeldFollows'
<1> DEFINE n == Len(queue)
<1>1. PICK m \in Nat : m = IF k.ext THEN n + 2 ELSE n + 1
  BY Sent
<1>2. /\ n \in Nat /\ Len(queue') = m
      /\ \A i \in 1 .. n : queue'[i] = queue[i]
      /\ k.ext => queue'[n + 1] = PrefixByte
      /\ queue'[m] = [code |-> k.code, make |-> make, key |-> k]
  BY <1>1, Sent
<1>3. queue'[m] # PrefixByte /\ queue'[m].make = make /\ queue'[m].key = k
  <2>1. [code |-> k.code, make |-> make, key |-> k] \in Scan
    BY KeyTyped DEF Scan
  <2>2. QED
    BY <1>2, <2>1, ScanIsNoPrefix
<1>4. m \in Nat /\ n < m /\ \A i \in 1 .. m : i \in 1 .. n \/ i = m \/ (k.ext /\ i = n + 1)
  BY <1>1, <1>2, KeyTyped
<1> HIDE DEF n
<1> SUFFICES ASSUME NEW p \in player
             PROVE  /\ \A i \in 1 .. m :
                         CodeOf(i, p)' /\ (\A j \in i + 1 .. m : ~CodeOf(j, p)')
                           => (p \in held' <=> queue'[i].make)
                    /\ (\A i \in 1 .. m : ~CodeOf(i, p)') => (p \in held' <=> p \in read)
  BY <1>2 DEF HeldFollows, CodeOf
<1>5. CASE p = k
  <2>1. CodeOf(m, p)' /\ m \in 1 .. m
    BY <1>2, <1>3, <1>4, <1>5 DEF CodeOf
  <2>2. ASSUME NEW i \in 1 .. m, \A j \in i + 1 .. m : ~CodeOf(j, p)' PROVE i = m
    <3>1. m \notin i + 1 .. m
      BY <2>1, <2>2
    <3>2. QED
      BY <1>2, <1>4, <3>1
  <2>3. p \in held' <=> make
    BY <1>5
  <2>4. QED
    BY <1>3, <2>1, <2>2, <2>3
<1>6. CASE p # k
  <2>1. \A i \in 1 .. n : CodeOf(i, p)' <=> CodeOf(i, p)
    BY <1>2 DEF CodeOf
  <2>2. \A i \in 1 .. m : CodeOf(i, p)' => i \in 1 .. n
    BY <1>2, <1>3, <1>4, <1>6 DEF CodeOf
  <2>3. p \in held' <=> p \in held
    BY <1>6
  <2>4. ASSUME NEW i \in 1 .. m, CodeOf(i, p)', \A j \in i + 1 .. m : ~CodeOf(j, p)'
        PROVE  p \in held' <=> queue'[i].make
    <3>1. i \in 1 .. n /\ CodeOf(i, p)
      BY <2>1, <2>2, <2>4
    <3>2. \A j \in i + 1 .. n : j \in i + 1 .. m /\ j \in 1 .. n
      BY <1>2, <1>4, <3>1
    <3>3. \A j \in i + 1 .. n : ~CodeOf(j, p)
      BY <2>1, <2>4, <3>2
    <3>4. p \in held <=> queue[i].make
      BY <3>1, <3>3 DEF HeldFollows, n
    <3>5. QED
      BY <1>2, <2>3, <3>1, <3>4
  <2>5. ASSUME \A i \in 1 .. m : ~CodeOf(i, p)' PROVE p \in held' <=> p \in read
    <3>1. \A i \in 1 .. n : i \in 1 .. m
      BY <1>2, <1>4
    <3>2. \A i \in 1 .. n : ~CodeOf(i, p)
      BY <2>1, <2>5, <3>1
    <3>3. QED
      BY <2>3, <3>2 DEF HeldFollows, n
  <2>6. QED
    BY <2>4, <2>5
<1>7. QED
  BY <1>5, <1>6

(* A byte is read: what was to come of its key is now known.               *)
LEMMA TakenHeld ==
  ASSUME Typed, HeldFollows, queue # <<>>, queue' = Tail(queue), held' = held, player' = player,
         read' = IF IsPrefix_ THEN read
                 ELSE IF Byte.make THEN read \cup {Byte.key} ELSE read \ {Byte.key}
  PROVE  HeldFollows'
<1> DEFINE n == Len(queue)
<1>1. /\ n \in Nat \ {0} /\ Len(queue') = n - 1
      /\ \A i \in 1 .. n - 1 : queue'[i] = queue[i + 1]
      /\ Byte = queue[1]
  BY Taken
<1> HIDE DEF n
<1> SUFFICES ASSUME NEW p \in player
             PROVE  /\ \A i \in 1 .. n - 1 :
                         CodeOf(i, p)' /\ (\A j \in i + 1 .. n - 1 : ~CodeOf(j, p)')
                           => (p \in held <=> queue'[i].make)
                    /\ (\A i \in 1 .. n - 1 : ~CodeOf(i, p)') => (p \in held <=> p \in read')
  BY <1>1 DEF HeldFollows, CodeOf
<1>2. \A i \in 1 .. n - 1 : CodeOf(i, p)' <=> CodeOf(i + 1, p)
  BY <1>1 DEF CodeOf
<1>3. ASSUME NEW i \in 1 .. n - 1, CodeOf(i, p)', \A j \in i + 1 .. n - 1 : ~CodeOf(j, p)'
      PROVE  p \in held <=> queue'[i].make
  <2>1. i + 1 \in 1 .. n /\ CodeOf(i + 1, p)
    BY <1>1, <1>2, <1>3
  <2>2. ASSUME NEW j \in i + 1 + 1 .. n PROVE ~CodeOf(j, p)
    <3>1. j - 1 \in i + 1 .. n - 1 /\ j - 1 \in 1 .. n - 1 /\ (j - 1) + 1 = j
      BY <1>1
    <3>2. QED
      BY <1>2, <1>3, <3>1
  <2>3. p \in held <=> queue[i + 1].make
    BY <2>1, <2>2 DEF HeldFollows, n
  <2>4. QED
    BY <1>1, <2>3
<1>4. ASSUME \A i \in 1 .. n - 1 : ~CodeOf(i, p)' PROVE p \in held <=> p \in read'
  <2>1. ASSUME NEW j \in 2 .. n PROVE ~CodeOf(j, p)
    <3>1. j - 1 \in 1 .. n - 1 /\ (j - 1) + 1 = j
      BY <1>1
    <3>2. QED
      BY <1>2, <1>4, <3>1
  <2>2. CASE CodeOf(1, p)
    <3>1. 1 \in 1 .. n /\ 1 + 1 = 2
      BY <1>1
    <3>2. p \in held <=> queue[1].make
      BY <2>1, <2>2, <3>1 DEF HeldFollows, n
    <3>3. p \in read' <=> queue[1].make
      BY <1>1, <2>2 DEF CodeOf, IsPrefix_
    <3>4. QED
      BY <3>2, <3>3
  <2>3. CASE ~CodeOf(1, p)
    <3>1. \A i \in 1 .. n : i = 1 \/ i \in 2 .. n
      BY <1>1
    <3>2. p \in held <=> p \in read
      BY <2>1, <2>3, <3>1 DEF HeldFollows, n
    <3>3. p \in read' <=> p \in read
      BY <1>1, <2>3 DEF CodeOf, IsPrefix_
    <3>4. QED
      BY <3>2, <3>3
  <2>4. QED
    BY <2>2, <2>3
<1>5. QED
  BY <1>3, <1>4

---------------------------------------------------------------------------
(* The byte a reader makes something of is the code of a key, behind an E0 *)
(* if that key has one.                                                    *)
LEMMA ByteIsKey ==
  ASSUME Typed, Paired, queue # <<>>, ~IsPrefix_
  PROVE  /\ Byte.key \in player /\ Byte.make \in BOOLEAN
         /\ Byte.code = Byte.key.code /\ Byte.code \in Codes
         /\ Byte.key.ext \in BOOLEAN /\ Byte.key.ext = waits
<1>1. Len(queue) \in Nat \ {0} /\ queue \in Seq(Stream)
  BY EmptySeq DEF Typed
<1>2. Byte = queue[1] /\ queue[1] \in Stream /\ 1 \in 1 .. Len(queue)
  BY <1>1, ElementOfSeq DEF Byte
<1>3. Byte \in Scan
  BY <1>2 DEF IsPrefix_, Stream
<1>4. Byte.code = Byte.key.code /\ (Byte.key.ext <=> waits)
  BY <1>2 DEF Paired, IsPrefix_
<1>5. Byte.key \in player /\ Byte.make \in BOOLEAN /\ Byte.code \in Codes
  BY <1>3 DEF Scan
<1>6. Byte.key.ext \in BOOLEAN /\ waits \in BOOLEAN
  BY <1>5, KeyTyped DEF Typed
<1>7. QED
  BY <1>4, <1>5, <1>6

(* The flag a code stands for is that of the key it comes from. *)
LEMMA FlagOfKey ==
  ASSUME Typed, NEW k \in player
  PROVE  ModifierOf(k.code, k.ext) = {k.mod} \ {"none"} /\ ModifierOf(k.code, k.ext) \subseteq Mods
<1>1. /\ k.mod = "altgr" <=> k.code = "alt" /\ k.ext
      /\ k.mod = "ctrl" <=> k.code = "ctrl"
      /\ k.mod = "shift" <=> k.code \in {"lshift", "rshift"} /\ ~k.ext
  BY LayoutAssumption DEF Typed
<1>2. k.mod \in Mods \cup {"none"}
  BY KeyTyped
<1>3. ModifierOf(k.code, k.ext) =
        IF k.code = "alt" /\ k.ext THEN {"altgr"} ELSE IF k.code = "ctrl" THEN {"ctrl"}
        ELSE IF k.code \in {"lshift", "rshift"} /\ ~k.ext THEN {"shift"} ELSE {}
  BY DEF ModifierOf
<1>4. QED
  BY <1>1, <1>2, <1>3 DEF Mods

(* A code that is read changes flags, or puts in doubt, only what its key  *)
(* stands for.                                                             *)
LEMMA FollowsKeeps ==
  ASSUME Typed, FlagsFollow, NEW r \in BOOLEAN, Follows(Byte, waits, r),
         Byte.key \in player, Byte.make \in BOOLEAN, Byte.code = Byte.key.code, Byte.key.ext = waits
  PROVE  /\ FlagsFollow'
         /\ flags' \subseteq Mods /\ adrift' \subseteq Mods /\ read' \subseteq player
         /\ read' = IF Byte.make THEN read \cup {Byte.key} ELSE read \ {Byte.key}
<1> DEFINE k == Byte.key
           mods == ModifierOf(Byte.code, waits)
<1>1. mods = {k.mod} \ {"none"} /\ mods \subseteq Mods
  BY FlagOfKey
<1>2. read' = IF Byte.make THEN read \cup {k} ELSE read \ {k}
  BY DEF Follows
<1>3. /\ flags' = IF ~r THEN flags ELSE IF Byte.make THEN flags \cup mods ELSE flags \ mods
      /\ adrift' = IF r /\ (Byte.make \/ mods \cap ModsOf(read') = {})
                     THEN adrift \ mods ELSE adrift \cup mods
  BY <1>2 DEF Follows
<1>4. Byte.make => ModsOf(read') = ModsOf(read) \cup mods
  BY <1>1, <1>2 DEF ModsOf
<1>5. ASSUME NEW mod, mod \notin mods PROVE mod \in ModsOf(read') <=> mod \in ModsOf(read)
  BY <1>1, <1>2, <1>5 DEF ModsOf
<1> HIDE DEF mods
<1>6. ASSUME NEW mod \in Mods \ adrift' PROVE (mod \in flags') = (mod \in ModsOf(read'))
  <2>1. CASE mod \in mods
    <3>1. r /\ (Byte.make \/ mods \cap ModsOf(read') = {})
      BY <1>3, <1>6, <2>1
    <3>2. QED
      BY <1>3, <1>4, <2>1, <3>1
  <2>2. CASE mod \notin mods
    <3>1. mod \notin adrift
      BY <1>3, <1>6, <2>2
    <3>2. (mod \in flags) = (mod \in ModsOf(read))
      BY <3>1 DEF FlagsFollow
    <3>3. mod \in flags' <=> mod \in flags
      BY <1>3, <2>2
    <3>4. QED
      BY <1>5, <2>2, <3>2, <3>3
  <2>3. QED
    BY <2>1, <2>2
<1>7. FlagsFollow'
  BY <1>6 DEF FlagsFollow, ModsOf
<1>8. flags' \subseteq Mods /\ adrift' \subseteq Mods /\ read' \subseteq player
  BY <1>1, <1>2, <1>3 DEF Typed
<1>9. QED
  BY <1>2, <1>7, <1>8

(* Nobody has touched a key yet. *)
LEMMA InitIInv == Init => IInv
<1> SUFFICES ASSUME Init PROVE IInv
  OBVIOUS
<1>1. queue = <<>> /\ Len(queue) = 0
  BY DEF Init
<1>2. Typed
  <2>1. <<>> \in Seq(Stream)
    BY EmptySeq
  <2>2. QED
    BY <1>1, <2>1 DEF Init, Typed
<1>3. Paired /\ HeldFollows
  BY <1>1 DEF Init, Paired, HeldFollows
<1>4. GhostFree /\ FlagsFollow /\ DownFollows
  BY DEF Init, GhostFree, Nothing, FlagsFollow, ModsOf, DownFollows
<1>5. QED
  BY <1>2, <1>3, <1>4 DEF IInv

(* Press and Release. *)
LEMMA MoveKeeps ==
  ASSUME IInv, NEW k \in player, Press(k) \/ Release(k), player' = player
  PROVE  IInv'
<1>1. PICK make \in BOOLEAN :
        /\ queue' = queue \o Bytes(k, make)
        /\ held' = IF make THEN held \cup {k} ELSE held \ {k}
  BY DEF Press, Release
<1>2. UNCHANGED <<game, waits, flags, keysDown, got, read, begun, adrift>>
  BY DEF Press, Release
<1>3. Typed /\ Paired /\ HeldFollows
  BY DEF IInv
<1>4. Typed'
  <2>1. queue' \in Seq(Stream)
    BY <1>1, <1>3, Sent
  <2>2. held' \subseteq player
    BY <1>1, <1>3 DEF Typed
  <2>3. QED
    BY <1>2, <1>3, <2>1, <2>2 DEF Typed, Stream, Scan
<1>5. Paired'
  BY <1>1, <1>2, <1>3, SentPaired
<1>6. HeldFollows'
  BY <1>1, <1>2, <1>3, SentHeld
<1>7. GhostFree' /\ FlagsFollow' /\ DownFollows'
  BY <1>2 DEF IInv, GhostFree, FlagsFollow, ModsOf, DownFollows
<1>8. QED
  BY <1>4, <1>5, <1>6, <1>7 DEF IInv

(* What a reader changes of the stream, whichever it is. *)
LEMMA TakenTyped ==
  ASSUME IInv, queue # <<>>, queue' = Tail(queue), waits' = IsPrefix_, player' = player
  PROVE  queue' \in Seq(Stream') /\ waits' \in BOOLEAN /\ Paired'
<1>1. queue' \in Seq(Stream) /\ Paired'
  BY Taken, TakenPaired DEF IInv
<1>2. Stream' = Stream
  BY DEF Stream, Scan
<1>3. QED
  BY <1>1, <1>2 DEF IsPrefix_

(* ReadKey: half a code, or a whole one. *)
LEMMA ReadKeyKeeps ==
  ASSUME IInv, ReadKey, player' = player
  PROVE  IInv'
<1>1. /\ ~game /\ queue # <<>> /\ queue' = Tail(queue) /\ waits' = IsPrefix_
      /\ UNCHANGED <<held, game, keysDown, begun>>
  BY DEF ReadKey
<1>2. Typed /\ Paired /\ HeldFollows /\ FlagsFollow
  BY DEF IInv
<1>3. queue' \in Seq(Stream') /\ waits' \in BOOLEAN /\ Paired'
  BY <1>1, TakenTyped
<1>4. DownFollows'
  BY <1>1 DEF DownFollows
<1>5. CASE IsPrefix_
  <2>1. got' = Nothing /\ UNCHANGED <<flags, read, adrift>>
    BY <1>5 DEF ReadKey
  <2>2. Typed'
    BY <1>1, <1>2, <1>3, <2>1 DEF Typed
  <2>3. HeldFollows'
    BY <1>1, <1>2, <1>5, <2>1, TakenHeld
  <2>4. GhostFree' /\ FlagsFollow'
    BY <1>2, <2>1 DEF GhostFree, Nothing, FlagsFollow, ModsOf
  <2>5. QED
    BY <1>3, <1>4, <2>2, <2>3, <2>4 DEF IInv
<1>6. CASE ~IsPrefix_
  <2> DEFINE key == IF ModifierOf(Byte.code, waits) # {} THEN "none" ELSE CharOf(Byte, waits)
  <2>1. /\ Follows(Byte, waits, TRUE)
        /\ got'.key = key /\ got'.of = Byte
    <3> DEFINE as == IF key \in Chars THEN PlaneOf(key, flags) ELSE "none"
    <3>1. Follows(Byte, waits, TRUE) /\ got' = [key |-> key, of |-> Byte, mods |-> ModsOf(read), as |-> as]
      BY <1>6 DEF ReadKey
    <3> HIDE DEF key, as
    <3>2. QED
      BY <3>1
  <2>2. /\ Byte.key \in player /\ Byte.make \in BOOLEAN
        /\ Byte.code = Byte.key.code /\ Byte.code \in Codes
        /\ Byte.key.ext \in BOOLEAN /\ Byte.key.ext = waits
    BY <1>1, <1>2, <1>6, ByteIsKey
  <2>3. /\ FlagsFollow'
        /\ flags' \subseteq Mods /\ adrift' \subseteq Mods /\ read' \subseteq player
        /\ read' = IF Byte.make THEN read \cup {Byte.key} ELSE read \ {Byte.key}
    BY <1>2, <2>1, <2>2, FollowsKeeps
  <2>4. Typed'
    BY <1>1, <1>2, <1>3, <2>3 DEF Typed
  <2>5. HeldFollows'
    BY <1>1, <1>2, <1>6, <2>3, TakenHeld
  <2>6. key # "none" =>
          /\ Byte.make
          /\ key = Byte.code \/ (key = "^s" /\ Byte.code = "s")
          /\ waits = (key \in Arrows \cup {"home"})
    BY <2>2 DEF CharOf, Arrows, Chars
  <2> HIDE DEF key
  <2>7. GhostFree'
    BY <2>1, <2>2, <2>6 DEF GhostFree
  <2>8. QED
    BY <1>3, <1>4, <2>3, <2>4, <2>5, <2>7 DEF IInv
<1>7. QED
  BY <1>5, <1>6

(* The entry of keysDown for a code is that of the key it comes from. *)
LEMMA StateOfKey ==
  ASSUME Typed, NEW k \in player
  PROVE  StateOf(k.code, k.ext) = {k.name} \cap Tracked
<1>1. /\ k.name \in Tracked <=> k.code \in (IF k.ext THEN Arrows ELSE Chars \cup {"esc"})
      /\ k.name \in Tracked => k.name = k.code
  BY LayoutAssumption DEF Typed
<1>2. CASE k.ext
  BY <1>1, <1>2 DEF StateOf
<1>3. CASE ~k.ext
  BY <1>1, <1>3 DEF StateOf
<1>4. QED
  BY <1>2, <1>3, KeyTyped

(* PumpState: half a code, or a whole one. *)
LEMMA PumpStateKeeps ==
  ASSUME IInv, PumpState, player' = player
  PROVE  IInv'
<1>1. /\ game /\ queue # <<>> /\ queue' = Tail(queue) /\ waits' = IsPrefix_
      /\ UNCHANGED <<held, game, got>>
  BY DEF PumpState
<1>2. Typed /\ Paired /\ HeldFollows /\ FlagsFollow /\ DownFollows
  BY DEF IInv
<1>3. queue' \in Seq(Stream') /\ waits' \in BOOLEAN /\ Paired'
  BY <1>1, TakenTyped
<1>4. GhostFree'
  BY <1>1 DEF IInv, GhostFree
<1>5. CASE IsPrefix_
  <2>1. UNCHANGED <<flags, read, begun, adrift, keysDown>>
    BY <1>5 DEF PumpState
  <2>2. Typed'
    BY <1>1, <1>2, <1>3, <2>1 DEF Typed
  <2>3. HeldFollows'
    BY <1>1, <1>2, <1>5, <2>1, TakenHeld
  <2>4. DownFollows' /\ FlagsFollow'
    BY <1>1, <1>2, <2>1 DEF DownFollows, FlagsFollow, ModsOf
  <2>5. QED
    BY <1>3, <1>4, <2>2, <2>3, <2>4 DEF IInv
<1>6. CASE ~IsPrefix_
  <2> DEFINE k == Byte.key
  <2>1. /\ Follows(Byte, waits, FALSE)
        /\ keysDown' = IF Byte.make THEN keysDown \cup StateOf(Byte.code, waits)
                       ELSE keysDown \ StateOf(Byte.code, waits)
        /\ begun' = IF Byte.make THEN begun \cup {k} ELSE begun \ {k}
    BY <1>6 DEF PumpState
  <2>2. /\ k \in player /\ Byte.make \in BOOLEAN
        /\ Byte.code = k.code /\ k.ext = waits
    BY <1>1, <1>2, <1>6, ByteIsKey
  <2>3. /\ FlagsFollow'
        /\ flags' \subseteq Mods /\ adrift' \subseteq Mods /\ read' \subseteq player
        /\ read' = IF Byte.make THEN read \cup {k} ELSE read \ {k}
    BY <1>2, <2>1, <2>2, FollowsKeeps
  <2>4. StateOf(Byte.code, waits) = {k.name} \cap Tracked
    BY <1>2, <2>2, StateOfKey
  <2> HIDE DEF k
  <2>5. begun \subseteq read /\ begun' \subseteq read'
    BY <1>1, <1>2, <2>1, <2>3 DEF Typed
  <2>6. keysDown' \subseteq Tracked
    BY <1>2, <2>1, <2>4 DEF Typed
  <2>7. Typed'
    BY <1>1, <1>2, <1>3, <2>3, <2>5, <2>6 DEF Typed
  <2>8. HeldFollows'
    BY <1>1, <1>2, <1>6, <2>3, TakenHeld DEF k
  <2>9. keysDown' = {j.name : j \in begun'} \cap Tracked
    <3>1. keysDown = {j.name : j \in begun} \cap Tracked
      BY <1>1, <1>2 DEF DownFollows
    <3>2. CASE Byte.make
      BY <2>1, <2>4, <3>1, <3>2
    <3>3. CASE ~Byte.make
      <4>1. \A j \in begun : j.name = k.name => j = k
        BY <1>2, <2>2, <2>5, LayoutAssumption DEF Typed
      <4>2. {j.name : j \in begun'} = {j.name : j \in begun} \ {k.name}
        BY <2>1, <3>3, <4>1
      <4>3. QED
        BY <2>1, <2>4, <3>1, <3>3, <4>2
    <3>4. QED
      BY <3>2, <3>3
  <2>10. QED
    BY <1>3, <1>4, <2>3, <2>7, <2>8, <2>9 DEF IInv, DownFollows
<1>7. QED
  BY <1>5, <1>6

(* A game starts with no key down, and leaves the stream to ReadKey. *)
LEMMA GameKeeps ==
  ASSUME IInv, StartGame \/ EndGame, player' = player
  PROVE  IInv'
<1>1. UNCHANGED <<held, queue, waits, flags, got, read, adrift>>
  BY DEF StartGame, EndGame
<1>2. /\ game' \in BOOLEAN
      /\ game' => keysDown' = {} /\ begun' = {}
      /\ keysDown' \subseteq Tracked
  BY DEF StartGame, EndGame, ClearedStates, IInv, Typed
<1>3. Typed'
  BY <1>1, <1>2 DEF IInv, Typed, Stream, Scan
<1>4. Paired'
  BY <1>1 DEF IInv, Paired
<1>5. HeldFollows'
  BY <1>1 DEF IInv, HeldFollows, CodeOf
<1>6. GhostFree' /\ FlagsFollow'
  BY <1>1 DEF IInv, GhostFree, FlagsFollow, ModsOf
<1>7. DownFollows'
  BY <1>2 DEF DownFollows
<1>8. QED
  BY <1>3, <1>4, <1>5, <1>6, <1>7 DEF IInv

(* The invariant is inductive. *)
LEMMA NextIInv == IInv /\ [Next]_vars => IInv'
<1> SUFFICES ASSUME IInv, [Next]_vars PROVE IInv'
  OBVIOUS
<1>1. CASE Next
  BY <1>1, MoveKeeps, ReadKeyKeeps, PumpStateKeeps, GameKeeps DEF Next
<1>2. CASE UNCHANGED vars
  <2>1. UNCHANGED <<player, held, queue, game, waits, flags, keysDown, got, read, begun, adrift>>
    BY <1>2 DEF vars
  <2>2. Typed' /\ DownFollows'
    BY <2>1 DEF IInv, Typed, Stream, Scan, DownFollows
  <2>3. Paired' /\ HeldFollows'
    BY <2>1 DEF IInv, Paired, HeldFollows, CodeOf
  <2>4. GhostFree' /\ FlagsFollow'
    BY <2>1 DEF IInv, GhostFree, FlagsFollow, ModsOf
  <2>5. QED
    BY <2>2, <2>3, <2>4 DEF IInv
<1>3. QED
  BY <1>1, <1>2

---------------------------------------------------------------------------
(* It holds however keys are pressed and whoever reads. *)
LEMMA AlwaysIInv == Spec => []IInv
BY InitIInv, NextIInv, PTL DEF Spec

(* No reader takes half a code for one of its own, whichever of them read  *)
(* the other half: ReadKey reports a key for the press of that key only.   *)
THEOREM NeverAGhost == Spec => []NoGhostKey
<1>1. IInv => NoGhostKey
  <2> SUFFICES ASSUME IInv PROVE NoGhostKey
    OBVIOUS
  <2>1. Typed /\ Paired /\ GhostFree
    BY DEF IInv
  <2>2. waits => queue # <<>> /\ Byte # PrefixByte /\ Byte.key.ext
    <3> SUFFICES ASSUME waits PROVE queue # <<>> /\ Byte # PrefixByte /\ Byte.key.ext
      OBVIOUS
    <3>1. queue # <<>> /\ queue[1] # PrefixByte
      BY <2>1 DEF Paired
    <3>2. Byte = queue[1]
      BY <2>1, <3>1 DEF Typed, Byte
    <3>3. Byte.key.ext = waits
      BY <2>1, <3>1, <3>2, ByteIsKey DEF IsPrefix_
    <3>4. QED
      BY <3>1, <3>2, <3>3
  <2>3. TypeOK
    BY <2>1, <2>2 DEF Typed, TypeOK, Stream, Scan
  <2>4. QED
    BY <2>1, <2>3 DEF GhostFree, NoGhostKey
<1>2. QED
  BY <1>1, AlwaysIInv, PTL

(* A flag says what is held, but for the modifiers a game or the release   *)
(* of one of two keys has put in doubt.                                    *)
THEOREM FlagsAlwaysFollow == Spec => []FlagsFollow
<1>1. IInv => FlagsFollow
  BY DEF IInv
<1>2. QED
  BY <1>1, AlwaysIInv, PTL

(* What a game is told is down was pressed in this game, and is held once  *)
(* the game has read everything.                                           *)
THEOREM DownAlwaysHeld == Spec => []DownIsHeld
<1>1. IInv => DownIsHeld
  <2> SUFFICES ASSUME IInv, game
               PROVE  /\ keysDown = {k.name : k \in begun} \cap Tracked
                      /\ queue = <<>> => \A c \in keysDown : \E k \in held : k.name = c
    BY DEF DownIsHeld
  <2>1. keysDown = {k.name : k \in begun} \cap Tracked
    BY DEF IInv, DownFollows
  <2>2. ASSUME queue = <<>>, NEW c \in keysDown PROVE \E k \in held : k.name = c
    <3>1. PICK k \in begun : k.name = c
      BY <2>1
    <3>2. k \in player /\ k \in read
      BY DEF IInv, Typed
    <3>3. Len(queue) = 0
      BY <2>2, EmptySeq
    <3>4. k \in held
      BY <3>2, <3>3 DEF IInv, HeldFollows
    <3>5. QED
      BY <3>1, <3>4
  <2>3. QED
    BY <2>1, <2>2
<1>2. QED
  BY <1>1, AlwaysIInv, PTL

(* A character comes from the table of the modifiers that were held when   *)
(* its key was pressed, unless one of them is in doubt.                    *)
THEOREM AlwaysTypedAsMeant == Spec => TypedAsMeant
<1> DEFINE A == (got' # got /\ got'.as # "none" /\ adrift = {}) => got'.as = Meant(got'.key, got'.mods)
<1>1. IInv /\ [Next]_vars => [A]_vars
  <2> SUFFICES ASSUME IInv, Next, got' # got, got'.as # "none", adrift = {}
               PROVE  got'.as = Meant(got'.key, got'.mods)
    OBVIOUS
  <2>1. ReadKey
    BY DEF Next, Press, Release, PumpState, StartGame, EndGame
  <2>2. ~IsPrefix_
    <3>1. IsPrefix_ => got' = Nothing
      BY <2>1 DEF ReadKey
    <3>2. Nothing.as = "none"
      BY DEF Nothing
    <3>3. QED
      BY <3>1, <3>2
  <2> DEFINE key == IF ModifierOf(Byte.code, waits) # {} THEN "none" ELSE CharOf(Byte, waits)
             as == IF key \in Chars THEN PlaneOf(key, flags) ELSE "none"
  <2>3. got' = [key |-> key, of |-> Byte, mods |-> ModsOf(read), as |-> as]
    BY <2>1, <2>2 DEF ReadKey
  <2> HIDE DEF key
  <2>4. got'.key = key /\ got'.mods = ModsOf(read) /\ got'.as = PlaneOf(key, flags)
    <3>1. got'.key = key /\ got'.mods = ModsOf(read) /\ got'.as = as
      <4> HIDE DEF as
      <4>1. QED
        BY <2>3
    <3>2. QED
      BY <3>1
  <2>5. \A mod \in Mods : (mod \in flags) = (mod \in ModsOf(read))
    BY DEF IInv, FlagsFollow
  <2>6. PlaneOf(key, flags) = Meant(key, ModsOf(read))
    BY <2>5 DEF PlaneOf, Meant, AltGrHas, Mods
  <2>7. QED
    BY <2>4, <2>6
<1>2. QED
  BY <1>1, AlwaysIInv, PTL DEF Spec, TypedAsMeant

---------------------------------------------------------------------------
(* Functions that are defined by recursion over a number *)

LessThan == {p \in Nat \X Nat : p[1] < p[2]}

(* A set that holds the first number and each next one up to a bound holds *)
(* all of them.                                                            *)
LEMMA UptoInd ==
  ASSUME NEW lo \in Nat, NEW hi \in Nat, NEW S, lo \in S,
         \A n \in lo .. hi - 1 : n \in S => n + 1 \in S
  PROVE  \A n \in lo .. hi : n \in S
<1>1. SUFFICES ASSUME NEW bad \in lo .. hi, bad \notin S PROVE FALSE
  OBVIOUS
<1> DEFINE D == {n \in lo .. hi : n \notin S}
<1>2. D \subseteq Nat /\ D # {}
  BY <1>1
<1>3. IsWellFoundedOn(LessThan, Nat)
  BY NatLessThanWellFounded DEF OpToRel, LessThan
<1>4. PICK x \in D : \A y \in D : ~ (<<y, x>> \in LessThan)
  BY <1>2, <1>3, WFMin
<1>5. x \in lo .. hi /\ x # lo /\ x - 1 \in lo .. hi - 1
  BY <1>4
<1>6. x - 1 \notin S
  BY <1>4, <1>5
<1>7. x - 1 \in D
  BY <1>5, <1>6
<1>8. <<x - 1, x>> \in LessThan
  BY <1>5 DEF LessThan
<1>9. QED
  BY <1>4, <1>7, <1>8

(* A value for each number from 0 on: base, then what step makes of the    *)
(* one before.                                                             *)
Runs(n, S, base, step) ==
  {f \in [0 .. n -> S] : f[0] = base /\ \A k \in 1 .. n : f[k] = step[k][f[k - 1]]}

LEMMA Recursion ==
  ASSUME NEW hi \in Nat, NEW S, NEW base \in S, NEW step \in [1 .. hi -> [S -> S]]
  PROVE  Runs(hi, S, base, step) # {}
<1> DEFINE Ms == {n \in 0 .. hi : \E f \in [0 .. n -> S] : f \in Runs(n, S, base, step)}
<1>1. 0 \in Ms
  <2>1. [k \in 0 .. 0 |-> base] \in [0 .. 0 -> S]
    OBVIOUS
  <2>2. [k \in 0 .. 0 |-> base] \in Runs(0, S, base, step)
    BY <2>1 DEF Runs
  <2>3. 0 \in 0 .. hi
    OBVIOUS
  <2>4. QED
    BY <2>1, <2>2, <2>3
<1>2. ASSUME NEW n \in 0 .. hi - 1, n \in Ms PROVE n + 1 \in Ms
  <2>1. PICK f \in [0 .. n -> S] : f[0] = base /\ \A k \in 1 .. n : f[k] = step[k][f[k - 1]]
    BY <1>2 DEF Runs
  <2> DEFINE g == [k \in 0 .. n + 1 |-> IF k = n + 1 THEN step[n + 1][f[n]] ELSE f[k]]
  <2>2. n + 1 \in 1 .. hi /\ n \in 0 .. n
    OBVIOUS
  <2>3. step[n + 1][f[n]] \in S
    BY <2>2
  <2>4. g \in [0 .. n + 1 -> S]
    BY <2>3
  <2>5. g[0] = base
    BY <2>1
  <2>6. ASSUME NEW k \in 1 .. n + 1 PROVE g[k] = step[k][g[k - 1]]
    <3>1. CASE k = n + 1
      BY <3>1
    <3>2. CASE k # n + 1
      <4>1. k \in 1 .. n /\ k - 1 \in 0 .. n
        BY <3>2
      <4>2. g[k] = f[k] /\ g[k - 1] = f[k - 1]
        BY <4>1
      <4>3. QED
        BY <2>1, <4>1, <4>2
    <3>3. QED
      BY <3>1, <3>2
  <2>7. g \in Runs(n + 1, S, base, step)
    BY <2>4, <2>5, <2>6 DEF Runs
  <2>8. n + 1 \in 0 .. hi
    OBVIOUS
  <2>9. QED
    BY <2>4, <2>7, <2>8
<1>3. hi \in Ms
  <2> HIDE DEF Ms
  <2>1. \A n \in 0 .. hi : n \in Ms
    BY <1>1, <1>2, UptoInd, ZenonT(30)
  <2>2. hi \in 0 .. hi
    OBVIOUS
  <2>3. QED
    BY <2>1, <2>2
<1>4. QED
  BY <1>3

---------------------------------------------------------------------------
(* The console *)

Cells == Typable \cup {"="}
RowOf == {r \in Seq(Cells) : Len(r) < MaxCols}
Screens == {rs \in Seq(RowOf) : Len(rs) \in 1 .. MaxLine}

(* What a screen is, and the row Enter reads of it. *)
LEMMA ScreenSound ==
  ASSUME NEW rs \in Screens
  PROVE  /\ rs \in Seq(RowOf) /\ Len(rs) \in Nat \ {0} /\ Len(rs) <= MaxLine /\ MaxLine \in Nat \ {0} /\ MaxCols \in Nat \ {0, 1}
         /\ \A i \in 1 .. Len(rs) : rs[i] \in RowOf /\ rs[i] \in Seq(Cells) /\ Len(rs[i]) \in Nat /\ Len(rs[i]) < MaxCols
         /\ Last_(rs) \in RowOf /\ Last_(rs) \in Seq(Cells) /\ Len(Last_(rs)) \in Nat /\ Len(Last_(rs)) < MaxCols
         /\ Last_(rs) = <<>> <=> Len(Last_(rs)) = 0
<1>1. rs \in Seq(RowOf) /\ Len(rs) \in 1 .. MaxLine
  BY DEF Screens
<1>2. MaxLine \in Nat \ {0} /\ MaxCols \in Nat \ {0, 1}
  BY TerminalAssumption
<1>3. Len(rs) \in Nat \ {0} /\ Len(rs) <= MaxLine
  BY <1>1, <1>2
<1>4. ASSUME NEW i \in 1 .. Len(rs)
      PROVE  rs[i] \in RowOf /\ rs[i] \in Seq(Cells) /\ Len(rs[i]) \in Nat /\ Len(rs[i]) < MaxCols
  <2>1. rs[i] \in RowOf
    BY <1>1, ElementOfSeq
  <2>2. QED
    BY <2>1, LenProperties DEF RowOf
<1>5. Last_(rs) \in RowOf /\ Last_(rs) \in Seq(Cells) /\ Len(Last_(rs)) \in Nat /\ Len(Last_(rs)) < MaxCols
  <2>1. Len(rs) \in 1 .. Len(rs)
    BY <1>3
  <2>2. QED
    BY <1>4, <2>1 DEF Last_
<1>6. Last_(rs) = <<>> <=> Len(Last_(rs)) = 0
  BY <1>5, EmptySeq
<1>7. QED
  BY <1>1, <1>2, <1>3, <1>4, <1>5, <1>6

(* An empty row is a row. *)
LEMMA EmptyRow == <<>> \in RowOf /\ <<>> \in Seq(Cells) /\ Len(<<>>) = 0
BY TerminalAssumption, EmptySeq DEF RowOf

(* A new line is blank, and with room for it the others stay in place. *)
LEMMA NewLineSound ==
  ASSUME NEW rs \in Screens
  PROVE  /\ NewLine(rs) \in Screens
         /\ Last_(NewLine(rs)) = <<>>
         /\ Len(rs) <= Len(NewLine(rs))
         /\ Len(rs) < MaxLine => NewLine(rs)[Len(rs)] = Last_(rs)
<1> DEFINE kept == IF Len(rs) < MaxLine THEN rs ELSE Tail(rs)
           new == Append(kept, <<>>)
<1>1. PICK n \in Nat \ {0} : n = Len(rs)
  BY ScreenSound
<1>2. rs \in Seq(RowOf) /\ n <= MaxLine /\ MaxLine \in Nat \ {0}
  BY <1>1, ScreenSound
<1>3. kept \in Seq(RowOf) /\ Len(kept) = IF n < MaxLine THEN n ELSE n - 1
  <2>1. CASE n < MaxLine
    BY <1>1, <1>2, <2>1
  <2>2. CASE ~(n < MaxLine)
    <3>1. rs # <<>>
      BY <1>1, <1>2, EmptySeq
    <3>2. Tail(rs) \in Seq(RowOf) /\ Len(Tail(rs)) = n - 1
      BY <1>1, <1>2, <3>1, HeadTailProperties
    <3>3. QED
      BY <1>1, <2>2, <3>2
  <2>3. QED
    BY <2>1, <2>2
<1> HIDE DEF kept
<1>4. /\ new \in Seq(RowOf) /\ Len(new) = Len(kept) + 1
      /\ new[Len(kept) + 1] = <<>> /\ \A i \in 1 .. Len(kept) : new[i] = kept[i]
  BY <1>3, EmptyRow, AppendProperties
<1>5. NewLine(rs) = new
  BY DEF NewLine, kept
<1> HIDE DEF new
<1>6. Len(new) \in 1 .. MaxLine /\ n <= Len(new)
  BY <1>1, <1>2, <1>3, <1>4
<1>7. Last_(new) = <<>>
  BY <1>4 DEF Last_
<1>8. ASSUME n < MaxLine PROVE new[n] = Last_(rs)
  <2>1. kept = rs /\ n \in 1 .. Len(kept)
    BY <1>1, <1>8 DEF kept
  <2>2. QED
    BY <1>1, <1>4, <2>1 DEF Last_
<1>9. QED
  BY <1>1, <1>4, <1>5, <1>6, <1>7, <1>8 DEF Screens

(* The last row exchanged for another. *)
LEMMA LastExchanged ==
  ASSUME NEW rs \in Screens, NEW r \in RowOf
  PROVE  [rs EXCEPT ![Len(rs)] = r] \in Screens /\ Last_([rs EXCEPT ![Len(rs)] = r]) = r
<1>1. rs \in Seq(RowOf) /\ Len(rs) \in Nat \ {0} /\ Len(rs) \in 1 .. MaxLine
  BY ScreenSound
<1>2. [rs EXCEPT ![Len(rs)] = r] \in Seq(RowOf) /\ Len([rs EXCEPT ![Len(rs)] = r]) = Len(rs)
  BY <1>1, ExceptSeq
<1>3. [rs EXCEPT ![Len(rs)] = r][Len(rs)] = r
  BY <1>1
<1>4. QED
  BY <1>1, <1>2, <1>3 DEF Screens, Last_

(* Print of a character, in the row or at the start of the next. *)
LEMMA PutSound ==
  ASSUME NEW rs \in Screens, NEW c \in Cells
  PROVE  /\ Put(rs, c) \in Screens
         /\ Len(Last_(rs)) < MaxCols - 1 => Last_(Put(rs, c)) = Append(Last_(rs), c)
<1> DEFINE room == IF Len(Last_(rs)) >= MaxCols - 1 THEN NewLine(rs) ELSE rs
           r == Append(Last_(room), c)
<1>1. room \in Screens /\ Len(Last_(room)) < MaxCols - 1
  <2>1. PICK m \in Nat : m = Len(Last_(rs)) /\ m < MaxCols
    BY ScreenSound
  <2>2. CASE m >= MaxCols - 1
    <3>1. room = NewLine(rs)
      BY <2>1, <2>2
    <3>2. Len(<<>>) < MaxCols - 1
      BY EmptyRow, TerminalAssumption
    <3>3. QED
      BY <3>1, <3>2, NewLineSound
  <2>3. CASE ~(m >= MaxCols - 1)
    <3>1. room = rs
      BY <2>1, <2>3
    <3>2. QED
      BY <2>1, <2>3, <3>1, TerminalAssumption
  <2>4. QED
    BY <2>2, <2>3
<1>2. Len(Last_(rs)) < MaxCols - 1 => room = rs
  BY ScreenSound
<1>3. Put(rs, c) = [room EXCEPT ![Len(room)] = Append(@, c)]
  BY DEF Put
<1> HIDE DEF room
<1>4. Last_(room) \in Seq(Cells) /\ Len(Last_(room)) \in Nat /\ MaxCols \in Nat
  BY <1>1, ScreenSound
<1>5. r \in Seq(Cells) /\ Len(r) = Len(Last_(room)) + 1
  BY <1>4, AppendProperties
<1>6. [room EXCEPT ![Len(room)] = Append(@, c)] = [room EXCEPT ![Len(room)] = r]
  BY DEF Last_
<1> HIDE DEF r
<1>7. r \in RowOf
  <2>1. Len(r) < MaxCols
    BY <1>1, <1>4, <1>5
  <2>2. QED
    BY <1>5, <2>1 DEF RowOf
<1>8. Put(rs, c) \in Screens /\ Last_(Put(rs, c)) = r
  BY <1>1, <1>3, <1>6, <1>7, LastExchanged
<1>9. QED
  BY <1>2, <1>8 DEF r

(* Backspace takes the last character of the last row, if there is one. *)
LEMMA BackSound ==
  ASSUME NEW rs \in Screens
  PROVE  /\ Back(rs) \in Screens
         /\ Last_(Back(rs)) = IF Last_(rs) = <<>> THEN <<>> ELSE AllButLast(Last_(rs))
<1>1. CASE Last_(rs) = <<>>
  BY <1>1 DEF Back
<1>2. CASE Last_(rs) # <<>>
  <2> DEFINE r == AllButLast(Last_(rs))
  <2>1. Last_(rs) \in Seq(Cells) /\ Len(Last_(rs)) \in Nat \ {0} /\ Len(Last_(rs)) < MaxCols /\ MaxCols \in Nat
    BY <1>2, ScreenSound
  <2>2. r \in Seq(Cells) /\ Len(r) = Len(Last_(rs)) - 1
    <3>1. PICK n \in Nat \ {0} : n = Len(Last_(rs))
      BY <2>1
    <3>2. n - 1 \in Int /\ \A i \in 1 .. n - 1 : Last_(rs)[i] \in Cells
      BY <2>1, <3>1, ElementOfSeq
    <3>3. r = SubSeq(Last_(rs), 1, n - 1)
      BY <3>1 DEF AllButLast
    <3>4. SubSeq(Last_(rs), 1, n - 1) \in Seq(Cells) /\ Len(SubSeq(Last_(rs), 1, n - 1)) = IF 1 <= n - 1 THEN n - 1 - 1 + 1 ELSE 0
      BY <3>2, SubSeqProperties
    <3> DEFINE t == SubSeq(Last_(rs), 1, n - 1)
    <3> HIDE DEF t, r
    <3>5. QED
      BY <3>1, <3>3, <3>4 DEF t
  <2>3. Back(rs) = [rs EXCEPT ![Len(rs)] = r]
    BY <1>2 DEF Back, Last_
  <2> HIDE DEF r
  <2>4. r \in RowOf
    BY <2>1, <2>2 DEF RowOf
  <2>5. QED
    BY <1>2, <2>3, <2>4, LastExchanged DEF r
<1>3. QED
  BY <1>1, <1>2

(* Printed characters, each in its row, leave a screen. *)
LEMMA PrintedSound ==
  ASSUME NEW rs \in Screens, NEW text \in Seq(Cells)
  PROVE  Printed(rs, text)[Len(text)] \in Screens
<1> DEFINE n == Len(text)
           Is(g) == g = [k \in 0 .. n |-> IF k = 0 THEN rs ELSE Put(g[k - 1], text[k])]
           step == [k \in 1 .. n |-> [s \in Screens |-> Put(s, text[k])]]
<1>1. n \in Nat /\ \A k \in 1 .. n : text[k] \in Cells
  BY LenProperties, ElementOfSeq
<1>2. step \in [1 .. n -> [Screens -> Screens]]
  BY <1>1, PutSound
<1>3. PICK f \in [0 .. n -> Screens] : f[0] = rs /\ \A k \in 1 .. n : f[k] = step[k][f[k - 1]]
  <2>1. Runs(n, Screens, rs, step) # {}
    <3> HIDE DEF step, n
    <3>1. QED
      BY <1>1, <1>2, Recursion
  <2>2. QED
    BY <2>1 DEF Runs
<1>4. ASSUME NEW k \in 0 .. n PROVE f[k] = IF k = 0 THEN rs ELSE Put(f[k - 1], text[k])
  <2>1. CASE k = 0
    BY <1>3, <2>1
  <2>2. CASE k # 0
    <3>1. k \in 1 .. n /\ k - 1 \in 0 .. n
      BY <1>1, <2>2
    <3>2. f[k - 1] \in Screens /\ f[k] = step[k][f[k - 1]]
      BY <1>3, <3>1
    <3>3. QED
      BY <2>2, <3>1, <3>2
  <2>3. QED
    BY <2>1, <2>2
<1>5. Is(f)
  <2>1. f = [k \in 0 .. n |-> f[k]]
    OBVIOUS
  <2>2. QED
    BY <1>4, <2>1
<1> DEFINE g == CHOOSE h : Is(h)
<1>6. Is(g)
  <2> HIDE DEF Is
  <2>1. QED
    BY <1>5
<1>7. Printed(rs, text) = g
  BY DEF Printed
<1> HIDE DEF g
<1>8. g[0] = rs
  BY <1>1, <1>6
<1>9. ASSUME NEW k \in 1 .. n PROVE g[k] = Put(g[k - 1], text[k])
  <2>1. k \in 0 .. n /\ k # 0
    BY <1>1
  <2>2. QED
    BY <1>6, <2>1
<1>10. \A k \in 0 .. n : g[k] \in Screens
  <2> DEFINE A == {k \in 0 .. n : g[k] \in Screens}
  <2> HIDE DEF Is
  <2>1. 0 \in A
    <3>1. 0 \in 0 .. n /\ g[0] \in Screens
      BY <1>1, <1>8
    <3>2. QED
      BY <3>1
  <2>2. ASSUME NEW k \in 0 .. n - 1, k \in A PROVE k + 1 \in A
    <3>1. k + 1 \in 1 .. n /\ k + 1 - 1 = k /\ k + 1 \in 0 .. n
      BY <1>1
    <3>2. g[k + 1] = Put(g[k], text[k + 1]) /\ text[k + 1] \in Cells
      BY <1>1, <1>9, <3>1
    <3>3. g[k + 1] \in Screens
      BY <2>2, <3>2, PutSound
    <3>4. QED
      BY <3>1, <3>3
  <2> HIDE DEF A, n
  <2>3. \A k \in 0 .. n : k \in A
    BY <1>1, <2>1, <2>2, UptoInd
  <2>4. QED
    BY <2>3 DEF A
<1>11. QED
  BY <1>1, <1>7, <1>10

(* A printed line ends with the start of the next. *)
LEMMA PrintlnSound ==
  ASSUME NEW rs \in Screens, NEW text \in Seq(Cells)
  PROVE  Println(rs, text) \in Screens /\ Last_(Println(rs, text)) = <<>>
BY PrintedSound, NewLineSound DEF Println

LEMMA LineSound == Line \in Seq(Cells)
<1>1. "=" \in Cells
  BY Zenon DEF Cells
<1>2. PICK c \in Cells : c = "="
  BY <1>1, Zenon
<1>3. <<c>> \in Seq(Cells)
  OBVIOUS
<1>4. Line = <<c>>
  BY <1>2, Zenon DEF Line
<1>5. QED
  BY <1>3, <1>4, Zenon

(* Lines printed below a blank row leave a blank row. *)
LEMMA SaysSound ==
  ASSUME NEW rs \in Screens, Last_(rs) = <<>>, NEW lines \in Nat
  PROVE  Says(rs, lines) \in Screens /\ Last_(Says(rs, lines)) = <<>>
<1> DEFINE S == {s \in Screens : Last_(s) = <<>>}
           Is(g) == g = [k \in 0 .. lines |-> IF k = 0 THEN rs ELSE Println(g[k - 1], Line)]
           step == [k \in 1 .. lines |-> [s \in S |-> Println(s, Line)]]
<1>1. \A s \in S : Println(s, Line) \in S
  BY PrintlnSound, LineSound
<1>2. step \in [1 .. lines -> [S -> S]]
  <2> HIDE DEF S
  <2>1. QED
    BY <1>1
<1>3. rs \in S
  OBVIOUS
<1>4. PICK f \in [0 .. lines -> S] : f[0] = rs /\ \A k \in 1 .. lines : f[k] = step[k][f[k - 1]]
  <2>1. Runs(lines, S, rs, step) # {}
    <3> HIDE DEF step, S
    <3>1. QED
      BY <1>2, <1>3, Recursion
  <2>2. QED
    BY <2>1 DEF Runs
<1> HIDE DEF S
<1>5. ASSUME NEW k \in 0 .. lines PROVE f[k] = IF k = 0 THEN rs ELSE Println(f[k - 1], Line)
  <2>1. CASE k = 0
    BY <1>4, <2>1
  <2>2. CASE k # 0
    <3>1. k \in 1 .. lines /\ k - 1 \in 0 .. lines
      BY <2>2
    <3>2. f[k - 1] \in S /\ f[k] = step[k][f[k - 1]]
      BY <1>4, <3>1
    <3>3. QED
      BY <2>2, <3>1, <3>2
  <2>3. QED
    BY <2>1, <2>2
<1>6. Is(f)
  <2>1. f = [k \in 0 .. lines |-> f[k]]
    OBVIOUS
  <2>2. QED
    BY <1>5, <2>1
<1> DEFINE g == CHOOSE h : Is(h)
<1>7. Is(g)
  <2> HIDE DEF Is
  <2>1. QED
    BY <1>6
<1>8. Says(rs, lines) = g[lines]
  BY DEF Says
<1> HIDE DEF g
<1>9. g[0] = rs
  BY <1>7
<1>10. ASSUME NEW k \in 1 .. lines PROVE g[k] = Println(g[k - 1], Line)
  <2>1. k \in 0 .. lines /\ k # 0
    OBVIOUS
  <2>2. QED
    BY <1>7, <2>1
<1>11. \A k \in 0 .. lines : g[k] \in S
  <2> DEFINE A == {k \in 0 .. lines : g[k] \in S}
  <2> HIDE DEF Is
  <2>1. 0 \in A
    BY <1>3, <1>9
  <2>2. ASSUME NEW k \in 0 .. lines - 1, k \in A PROVE k + 1 \in A
    <3>1. k + 1 \in 1 .. lines /\ k + 1 - 1 = k /\ k + 1 \in 0 .. lines
      OBVIOUS
    <3>2. g[k + 1] = Println(g[k], Line)
      BY <1>10, <3>1
    <3>3. g[k + 1] \in S
      BY <1>1, <2>2, <3>2
    <3>4. QED
      BY <3>1, <3>3
  <2> HIDE DEF A
  <2>3. \A k \in 0 .. lines : k \in A
    BY <2>1, <2>2, UptoInd
  <2>4. QED
    BY <2>3 DEF A
<1>12. QED
  BY <1>8, <1>11 DEF S

---------------------------------------------------------------------------
(* The command line *)

(* A position looked for is at or behind the one it is looked for from,    *)
(* and at most just behind the line.                                       *)
LEMMA FromSound ==
  ASSUME NEW line \in Seq(Cells), NEW p \in 1 .. Len(line) + 1, NEW space
  PROVE  From(line, p, space) \in p .. Len(line) + 1
<1> DEFINE at == {i \in p .. Len(line) : (line[i] = " ") = space}
<1>1. From(line, p, space) = IF at = {} THEN Len(line) + 1 ELSE CHOOSE i \in at : \A j \in at : i <= j
  BY Zenon DEF From
<1>2. at \subseteq p .. Len(line)
  BY Zenon
<1> HIDE DEF at
<1>3. PICK n \in Nat : n = Len(line)
  BY LenProperties
<1>4. CASE at = {}
  BY <1>1, <1>3, <1>4
<1>5. CASE at # {}
  <2>1. IsWellFoundedOn(LessThan, Nat)
    BY NatLessThanWellFounded DEF OpToRel, LessThan
  <2>2. at \subseteq Nat
    BY <1>2, <1>3
  <2>3. PICK x \in at : \A y \in at : ~ (<<y, x>> \in LessThan)
    BY <1>5, <2>1, <2>2, WFMin
  <2>4. \A y \in at : x <= y
    <3>1. SUFFICES ASSUME NEW y \in at, ~(x <= y) PROVE FALSE
      OBVIOUS
    <3>2. x \in Nat /\ y \in Nat /\ y < x
      BY <2>2, <3>1
    <3>3. <<y, x>> \in LessThan
      BY <3>2 DEF LessThan
    <3>4. QED
      BY <2>3, <3>3
  <2>5. PICK least \in at : least = CHOOSE i \in at : \A j \in at : i <= j
    BY <2>4, Zenon
  <2>6. From(line, p, space) = least
    BY <1>1, <1>5, <2>5, Zenon
  <2>7. QED
    BY <1>2, <1>3, <2>6
<1>6. QED
  BY <1>4, <1>5

(* What is behind any position of a row is text.                           *)
LEMMA SuffixSound ==
  ASSUME NEW row \in Seq(Cells), NEW p \in Nat \ {0}
  PROVE  Suffix(row, p) \in Seq(Cells)
<1>1. PICK n \in Nat : n = Len(row)
  BY LenProperties
<1>2. \A i \in p .. n : row[i] \in Cells
  BY <1>1, ElementOfSeq
<1>3. SubSeq(row, p, n) \in Seq(Cells)
  BY <1>2, SubSeqProperties
<1>4. QED
  BY <1>1, <1>3 DEF Suffix

(* The name of a command is text, and the arguments begin at a position.   *)
LEMMA SplitSound ==
  ASSUME NEW line \in Seq(Cells)
  PROVE  Split(line).name \in Seq(Cells) /\ Split(line).args \in Nat \ {0}
<1> DEFINE name == From(line, 1, FALSE)
           stop == From(line, name, TRUE)
           end == IF stop > name + NameMax THEN name + NameMax ELSE stop
<1>1. PICK n \in Nat : n = Len(line)
  BY LenProperties
<1>2. name \in 1 .. n + 1
  <2>1. 1 \in 1 .. Len(line) + 1
    BY <1>1
  <2>2. QED
    BY <1>1, <2>1, FromSound
<1> HIDE DEF name
<1>3. stop \in name .. n + 1
  BY <1>1, <1>2, FromSound
<1> HIDE DEF stop
<1>4. end \in 1 .. n + 1
  BY <1>2, <1>3, TerminalAssumption
<1> HIDE DEF end
<1> DEFINE args == From(line, end, FALSE)
<1>5. args \in end .. n + 1
  BY <1>1, <1>4, FromSound
<1> HIDE DEF args
<1>6. SubSeq(line, name, end - 1) \in Seq(Cells)
  <2>1. name \in Int /\ end - 1 \in Int
    BY <1>2, <1>4
  <2>2. \A i \in name .. end - 1 : line[i] \in Cells
    BY <1>1, <1>2, <1>4, ElementOfSeq
  <2>3. QED
    BY <2>1, <2>2, SubSeqProperties
<1>7. Split(line) = [name |-> SubSeq(line, name, end - 1), args |-> args]
  BY DEF Split, name, stop, end, args
<1>8. Split(line).name = SubSeq(line, name, end - 1) /\ Split(line).args = args
  <2> DEFINE found == SubSeq(line, name, end - 1)
             both == [name |-> found, args |-> args]
  <2>1. both.name = found /\ both.args = args
    <3> HIDE DEF found
    <3>1. QED
      OBVIOUS
  <2>2. Split(line) = both
    BY <1>7, Zenon
  <2> HIDE DEF found, both
  <2>3. Split(line).name = found /\ Split(line).args = args
    BY <2>1, <2>2, Zenon
  <2>4. QED
    BY <2>3, Zenon DEF found
<1>9. args \in Nat \ {0}
  BY <1>1, <1>4, <1>5
<1>10. QED
  BY <1>6, <1>8, <1>9, Zenon

---------------------------------------------------------------------------
(* The terminal *)

(* The screen keeps its shape, the row Enter reads is what was typed, and  *)
(* the last command that ran had its arguments if there was room.          *)
TermInv ==
  /\ rows \in Screens
  /\ active \in BOOLEAN /\ wrapped \in BOOLEAN
  /\ ~wrapped => Last_(rows) = typed
  /\ ArgumentsArrive

LEMMA ClearedSound == Cleared \in Screens /\ Last_(Cleared) = <<>>
<1> DEFINE blank == <<>>
<1>1. blank \in RowOf
  BY EmptyRow
<1> HIDE DEF blank
<1>2. <<blank>> \in Seq(RowOf) /\ Len(<<blank>>) = 1 /\ <<blank>>[1] = blank
  BY <1>1
<1>3. 1 \in 1 .. MaxLine
  BY TerminalAssumption
<1>4. <<blank>> \in Screens /\ Last_(<<blank>>) = blank
  BY <1>2, <1>3 DEF Screens, Last_
<1>5. QED
  BY <1>4 DEF Cleared, blank

LEMMA TerminalInitInv == TerminalInit => TermInv
<1> SUFFICES ASSUME TerminalInit PROVE TermInv
  OBVIOUS
<1> USE DEF TerminalInit
<1>1. Cleared \in Screens /\ Last_(Cleared) = <<>>
  BY ClearedSound
<1>2. ArgumentsArrive
  BY DEF ArgumentsArrive
<1>3. QED
  BY <1>1, <1>2 DEF TermInv

(* Enter leaves a blank row whatever the command prints, and a handler     *)
(* sees its arguments if the newline did not scroll.                       *)
LEMMA EnterKeeps == TermInv /\ Enter => TermInv'
<1> SUFFICES ASSUME TermInv, Enter PROVE TermInv'
  OBVIOUS
<1> DEFINE line == Last_(rows)
           cmd == Split(line)
           open == NewLine(rows)
           given == Given(rows, open, cmd.args)
           Leaves(after) ==
             /\ rows' = after /\ after \in Screens /\ Last_(after) = <<>>
             /\ ran'.full = (Len(rows) = MaxLine) /\ ran'.arrived = (given = Suffix(line, cmd.args))
             /\ typed' = <<>> /\ wrapped' = FALSE /\ active' \in BOOLEAN
<1>1. rows \in Screens /\ active \in BOOLEAN
  BY DEF TermInv
<1>2. line \in Seq(Cells) /\ Len(rows) <= MaxLine /\ Len(rows) \in Nat \ {0} /\ MaxLine \in Nat
  BY <1>1, ScreenSound
<1>3. open \in Screens /\ Last_(open) = <<>> /\ Len(rows) <= Len(open) /\ (Len(rows) < MaxLine => open[Len(rows)] = line)
  BY <1>1, NewLineSound
<1>4. cmd.name \in Seq(Cells) /\ cmd.args \in Nat \ {0}
  BY <1>2, SplitSound
<1>5. given \in Seq(Cells)
  <2>1. Len(rows) \in 1 .. Len(open)
    <3>1. Len(open) \in Nat
      BY <1>3, ScreenSound
    <3>2. QED
      BY <1>2, <1>3, <3>1
  <2>2. open[Len(rows)] \in Seq(Cells)
    BY <1>3, <2>1, ScreenSound
  <2>3. QED
    BY <1>4, <2>2, SuffixSound DEF Given
<1>6. Len(rows) # MaxLine => given = Suffix(line, cmd.args)
  <2>1. Len(rows) # MaxLine => Len(rows) < MaxLine
    BY <1>2
  <2>2. QED
    BY <1>3, <2>1 DEF Given
<1> HIDE DEF line, cmd, open, given
<1>7. \E after : Leaves(after)
  <2> DEFINE Run(kind, after) ==
        /\ rows' = after
        /\ ran' = [kind |-> kind, arrived |-> given = Suffix(line, cmd.args), full |-> Len(rows) = MaxLine]
        /\ typed' = <<>> /\ wrapped' = FALSE
  <2>1. \/ Run("echo", Println(open, given)) /\ UNCHANGED active
        \/ Run("clear", Cleared) /\ UNCHANGED active
        \/ Run("help", Says(open, 2)) /\ UNCHANGED active
        \/ /\ \E mounted \in BOOLEAN : active' = (mounted /\ given # <<>>)
           /\ Run("neenor", IF active' THEN open ELSE Println(open, Line))
        \/ \E k \in 0 .. GameLines : Run("game", Says(open, k)) /\ UNCHANGED active
        \/ Run("unknown", Println(open, Line \o cmd.name)) /\ UNCHANGED active
    BY Zenon DEF Enter, line, cmd, open, given
  <2>2. \A kind, after : Run(kind, after) /\ after \in Screens /\ Last_(after) = <<>> /\ active' \in BOOLEAN => Leaves(after)
    <3>1. SUFFICES ASSUME NEW kind, NEW after, Run(kind, after),
                          after \in Screens, Last_(after) = <<>>, active' \in BOOLEAN
                   PROVE  Leaves(after)
      BY Zenon
    <3> DEFINE r == [kind |-> kind, arrived |-> given = Suffix(line, cmd.args), full |-> Len(rows) = MaxLine]
    <3>2. r.full = (Len(rows) = MaxLine) /\ r.arrived = (given = Suffix(line, cmd.args))
      OBVIOUS
    <3>3. ran' = r
      BY <3>1, Zenon
    <3> HIDE DEF r
    <3>4. ran'.full = (Len(rows) = MaxLine) /\ ran'.arrived = (given = Suffix(line, cmd.args))
      BY <3>2, <3>3, Zenon
    <3>5. QED
      BY <3>1, <3>4, Zenon
  <2>3. UNCHANGED active => active' \in BOOLEAN
    BY <1>1
  <2> HIDE DEF Run, Leaves
  <2>4. CASE Run("echo", Println(open, given)) /\ UNCHANGED active
    BY <1>3, <1>5, <2>2, <2>3, <2>4, PrintlnSound, Zenon
  <2>5. CASE Run("clear", Cleared) /\ UNCHANGED active
    BY <2>2, <2>3, <2>5, ClearedSound, Zenon
  <2>6. CASE Run("help", Says(open, 2)) /\ UNCHANGED active
    <3>1. Says(open, 2) \in Screens /\ Last_(Says(open, 2)) = <<>>
      <4>1. 2 \in Nat
        OBVIOUS
      <4>2. QED
        BY <1>3, <4>1, SaysSound
    <3>2. QED
      BY <2>2, <2>3, <2>6, <3>1, Zenon
  <2>7. CASE /\ \E mounted \in BOOLEAN : active' = (mounted /\ given # <<>>)
             /\ Run("neenor", IF active' THEN open ELSE Println(open, Line))
    <3> DEFINE after == IF active' THEN open ELSE Println(open, Line)
    <3>1. after \in Screens /\ Last_(after) = <<>>
      BY <1>3, PrintlnSound, LineSound
    <3>2. active' \in BOOLEAN
      BY <2>7
    <3> HIDE DEF after
    <3>3. Run("neenor", after)
      BY <2>7, Zenon DEF after
    <3>4. QED
      BY <2>2, <3>1, <3>2, <3>3, Zenon
  <2>8. CASE \E k \in 0 .. GameLines : Run("game", Says(open, k)) /\ UNCHANGED active
    <3>1. PICK k \in 0 .. GameLines : Run("game", Says(open, k)) /\ UNCHANGED active
      BY <2>8, Zenon
    <3>2. Says(open, k) \in Screens /\ Last_(Says(open, k)) = <<>>
      <4>1. k \in Nat
        BY TerminalAssumption
      <4>2. QED
        BY <1>3, <4>1, SaysSound
    <3>3. QED
      BY <2>2, <2>3, <3>1, <3>2, Zenon
  <2>9. CASE Run("unknown", Println(open, Line \o cmd.name)) /\ UNCHANGED active
    <3>1. Line \o cmd.name \in Seq(Cells)
      BY <1>4, LineSound, ConcatProperties
    <3>2. QED
      BY <1>3, <2>2, <2>3, <2>9, <3>1, PrintlnSound, Zenon
  <2>10. QED
    BY <2>1, <2>4, <2>5, <2>6, <2>7, <2>8, <2>9, Zenon
<1>8. PICK after : Leaves(after)
  BY <1>7
<1>9. rows' \in Screens /\ Last_(rows)' = typed' /\ active' \in BOOLEAN /\ wrapped' \in BOOLEAN
  BY <1>8 DEF Last_
<1>10. ArgumentsArrive'
  BY <1>6, <1>8, Zenon DEF ArgumentsArrive
<1>11. QED
  BY <1>9, <1>10 DEF TermInv

(* A character goes to the row and to what was typed alike, as long as     *)
(* the row has room for it.                                                *)
LEMMA TypeKeeps == TermInv /\ (\E c \in Typable : Type(c)) => TermInv'
<1> SUFFICES ASSUME TermInv, NEW c \in Typable, Type(c) PROVE TermInv'
  OBVIOUS
<1>1. rows \in Screens /\ active \in BOOLEAN /\ wrapped \in BOOLEAN /\ (~wrapped => Last_(rows) = typed)
  BY DEF TermInv
<1>2. c \in Cells
  BY Zenon DEF Cells
<1>3. Put(rows, c) \in Screens /\ (Len(Last_(rows)) < MaxCols - 1 => Last_(Put(rows, c)) = Append(Last_(rows), c))
  BY <1>1, <1>2, PutSound
<1>4. rows' = Put(rows, c) /\ wrapped' = (wrapped \/ Len(Last_(rows)) >= MaxCols - 1)
      /\ typed' = (IF wrapped' THEN <<>> ELSE Append(typed, c)) /\ active' = active /\ ran' = ran
  BY DEF Type
<1>5. wrapped' \in BOOLEAN
  BY <1>4
<1>6. ASSUME ~wrapped' PROVE Last_(rows)' = typed'
  <2>1. ~wrapped /\ ~(Len(Last_(rows)) >= MaxCols - 1)
    BY <1>4, <1>6
  <2>2. Len(Last_(rows)) < MaxCols - 1
    BY <1>1, <2>1, ScreenSound
  <2>3. Last_(rows)' = Last_(Put(rows, c))
    BY <1>4 DEF Last_
  <2>4. QED
    BY <1>1, <1>3, <1>4, <1>6, <2>1, <2>2, <2>3
<1>7. ArgumentsArrive'
  BY <1>4, Zenon DEF TermInv, ArgumentsArrive
<1>8. QED
  BY <1>1, <1>3, <1>4, <1>5, <1>6, <1>7 DEF TermInv

LEMMA BackspaceKeeps == TermInv /\ Backspace => TermInv'
<1> SUFFICES ASSUME TermInv, Backspace PROVE TermInv'
  OBVIOUS
<1>1. rows \in Screens /\ active \in BOOLEAN /\ wrapped \in BOOLEAN /\ (~wrapped => Last_(rows) = typed)
  BY DEF TermInv
<1>2. rows' = Back(rows) /\ typed' = (IF typed = <<>> THEN typed ELSE AllButLast(typed))
      /\ active' = active /\ wrapped' = wrapped /\ ran' = ran
  BY DEF Backspace
<1>3. Back(rows) \in Screens /\ Last_(Back(rows)) = IF Last_(rows) = <<>> THEN <<>> ELSE AllButLast(Last_(rows))
  BY <1>1, BackSound
<1>4. Last_(rows)' = Last_(Back(rows))
  BY <1>2 DEF Last_
<1>5. ~wrapped' => Last_(rows)' = typed'
  BY <1>1, <1>2, <1>3, <1>4
<1>6. ArgumentsArrive'
  BY <1>2, Zenon DEF TermInv, ArgumentsArrive
<1>7. QED
  BY <1>1, <1>2, <1>3, <1>5, <1>6 DEF TermInv

LEMMA TerminalNextInv == TermInv /\ [TerminalNext]_terminalVars => TermInv'
<1> SUFFICES ASSUME TermInv, [TerminalNext]_terminalVars PROVE TermInv'
  OBVIOUS
<1>1. CASE Enter
  BY <1>1, EnterKeeps
<1>2. CASE \E c \in Typable : Type(c)
  BY <1>2, TypeKeeps
<1>3. CASE Backspace
  BY <1>3, BackspaceKeeps
<1>4. CASE LeaveEditor
  BY <1>4, Zenon DEF LeaveEditor, TermInv, ArgumentsArrive, Last_
<1>5. CASE UNCHANGED terminalVars
  BY <1>5, Zenon DEF terminalVars, TermInv, ArgumentsArrive, Last_
<1>6. QED
  BY <1>1, <1>2, <1>3, <1>4, <1>5 DEF TerminalNext

LEMMA AlwaysTermInv == TerminalSpec => []TermInv
BY TerminalInitInv, TerminalNextInv, PTL DEF TerminalSpec

(* The row Enter reads is what was typed, whatever the commands before     *)
(* printed and however often the console scrolled, for every size of the   *)
(* console, and no row is longer than there is room for.                   *)
THEOREM AlwaysRunsWhatWasTyped == TerminalSpec => []RunsWhatWasTyped
<1>1. TermInv => RunsWhatWasTyped
  <2> SUFFICES ASSUME TermInv PROVE RunsWhatWasTyped
    OBVIOUS
  <2>1. rows \in Screens /\ active \in BOOLEAN /\ (~wrapped => Last_(rows) = typed)
    BY DEF TermInv
  <2>2. Len(rows) \in 1 .. MaxLine
    BY <2>1 DEF Screens
  <2>3. rows \in Seq(RowOf) /\ \A i \in 1 .. Len(rows) : Len(rows[i]) < MaxCols
    BY <2>1, ScreenSound
  <2>4. DOMAIN rows = 1 .. Len(rows)
    BY <2>3, LenProperties
  <2>5. TerminalTypeOK
    BY <2>1, <2>2, <2>3, <2>4 DEF TerminalTypeOK
  <2>6. QED
    BY <2>1, <2>5 DEF RunsWhatWasTyped
<1>2. QED
  BY <1>1, AlwaysTermInv, PTL

(* With a free row below it, the row of the command keeps its arguments    *)
(* while the handler runs.                                                 *)
THEOREM AlwaysArgumentsArrive == TerminalSpec => []ArgumentsArrive
<1>1. TermInv => ArgumentsArrive
  BY DEF TermInv
<1>2. QED
  BY <1>1, AlwaysTermInv, PTL

===========================================================================

---------------------------- MODULE StorageProofs ---------------------------
(***************************************************************************)
(* Proofs about the drive below the file system: NvmeQueue, for a ring of  *)
(* any size and any number of commands, given up or not, and Gpt, for a    *)
(* table and a drive of any size, any contents of the table at the start   *)
(* and any number of failed writes.                                        *)
(*                                                                         *)
(* NvmeQueue.  The phase bits only make sense together: RingShape says     *)
(* what every entry of the completion ring holds, seen from the            *)
(* controller, and how far the driver can be behind.  OneAtATime says      *)
(* where the one command of a driver that never gave up can be.  With      *)
(* these, what the phase bits show as pending is the distance from the     *)
(* driver to the controller (PendingIsDistance), and every step is one of  *)
(* the channel or none.                                                    *)
(*                                                                         *)
(* Gpt.  The checksum of the primary copy never changes, so mkpart can     *)
(* only work on the table of the start, and fills the same entry of it     *)
(* each time.  Every array there is is therefore the one of the start, or  *)
(* differs from it in that entry alone (OneEntry); Halves says how far the *)
(* three writes have come, and Kept what was promised by then.             *)
(***************************************************************************)
EXTENDS NvmeQueue, Gpt, SequenceTheorems, WellFoundedInduction, TLAPS

---------------------------------------------------------------------------
(* The queue pair *)

(* The entries the controller has written on this lap carry its phase, the *)
(* others the opposite one; and the driver is on the controller's lap      *)
(* behind it, or on the lap before in front of it.                         *)
RingShape ==
  /\ cqDoorbell = cqHead
  /\ sqDoorbell = sqTail
  /\ \A i \in Ring : cq[i].phase = IF i < devTail THEN devPhase ELSE Flip(devPhase)
  /\ \/ devPhase = phase /\ cqHead <= devTail
     \/ devPhase = Flip(phase) /\ devTail < cqHead

(* What the controller will fetch are commands that were submitted, even   *)
(* when so many were given up that the ring was overrun.                   *)
Unread(i) ==
  IF devHead <= sqTail THEN devHead <= i /\ i < sqTail ELSE devHead <= i \/ i < sqTail
UnreadFilled == \A i \in Ring : Unread(i) => sq[i] \in 1 .. submitted

(* The entries between the driver and the controller hold the completions  *)
(* of commands that were submitted.                                        *)
Ahead(i) ==
  IF devPhase = phase THEN cqHead <= i /\ i < devTail ELSE cqHead <= i \/ i < devTail
AheadFilled == \A i \in Ring : Ahead(i) => cq[i].done.cmd \in 1 .. submitted

(* The command is in the submission ring, or being executed, or its        *)
(* completion is at cqHead.                                                *)
InRing == After(devHead) = sqTail /\ sq[devHead] = submitted /\ executing = {} /\ devTail = cqHead
InController == devHead = sqTail /\ executing = {submitted} /\ devTail = cqHead
InCompletion ==
  /\ devHead = sqTail
  /\ executing = {}
  /\ devTail = After(cqHead)
  /\ cq[cqHead].done.cmd = submitted

OneAtATime ==
  timeouts = 0 =>
    /\ waiting => submitted > 0 /\ (InRing \/ InController \/ InCompletion)
    /\ ~waiting => /\ devHead = sqTail /\ executing = {} /\ devTail = cqHead
                   /\ submitted > 0 => last # <<>> /\ last[1].cmd = submitted

IInv == TypeOK /\ RingShape /\ UnreadFilled /\ AheadFilled /\ OneAtATime

USE EntriesAssumption, BoundAssumption

(* The ring wraps behind its last entry. *)
LEMMA AfterInRing ==
  ASSUME NEW i \in Ring
  PROVE  /\ After(i) \in Ring
         /\ After(i) = IF i + 1 = Entries THEN 0 ELSE i + 1
         /\ After(i) # i
<1>1. (i + 1) % Entries = IF i + 1 = Entries THEN 0 ELSE i + 1
  BY DEF Ring
<1>2. QED
  BY <1>1 DEF Ring, After

(* The phase bit matches exactly when the controller is ahead. *)
LEMMA PhaseFromShape == IInv => PhaseSound
<1> SUFFICES ASSUME IInv PROVE PhaseMatches <=> cqHead # devTail
  BY DEF PhaseSound
<1>1. cqHead \in Ring /\ devTail \in Ring /\ phase \in {0, 1} /\ devPhase \in {0, 1}
  BY DEF IInv, TypeOK
<1>2. cqHead \in Int /\ devTail \in Int
  BY <1>1 DEF Ring
<1>3. cq[cqHead].phase = IF cqHead < devTail THEN devPhase ELSE Flip(devPhase)
  BY <1>1 DEF IInv, RingShape
<1>4. CASE devPhase = phase /\ cqHead <= devTail
  BY <1>1, <1>2, <1>3, <1>4 DEF PhaseMatches, Flip
<1>5. CASE devPhase = Flip(phase) /\ devTail < cqHead
  BY <1>1, <1>2, <1>3, <1>5 DEF PhaseMatches, Flip
<1>6. QED
  BY <1>4, <1>5 DEF IInv, RingShape

(* The rings start out empty, on the first lap. *)
LEMMA InitIInv == Init => IInv
<1> SUFFICES ASSUME Init PROVE IInv
  OBVIOUS
<1>1. 0 \in Ring
  BY DEF Ring
<1>2. cq \in [Ring -> [phase : {0, 1}, done : [cmd : 0 .. MaxCommands, status : Status]]]
  BY DEF Init, Status
<1>3. sq \in [Ring -> 0 .. MaxCommands]
  BY DEF Init
<1>4. TypeOK
  BY <1>1, <1>2, <1>3 DEF Init, TypeOK
<1>5. RingShape
  BY <1>1 DEF Init, RingShape, Ring, Flip
<1>6. AheadFilled
  BY DEF Init, AheadFilled, Ahead, Ring
<1>7. OneAtATime
  BY DEF Init, OneAtATime
<1>8. UnreadFilled
  BY DEF Init, UnreadFilled, Unread, Ring
<1>9. QED
  BY <1>4, <1>5, <1>6, <1>7, <1>8 DEF IInv

(* The facts about a state of the invariant that every step starts from. *)
LEMMA Ranges ==
  ASSUME IInv
  PROVE  /\ sqTail \in Ring /\ cqHead \in Ring /\ devHead \in Ring /\ devTail \in Ring
         /\ cqDoorbell = cqHead /\ sqDoorbell = sqTail
         /\ phase \in {0, 1} /\ devPhase \in {0, 1}
         /\ submitted \in 0 .. MaxCommands /\ timeouts \in 0 .. MaxTimeouts
         /\ executing \subseteq 1 .. submitted /\ answered \subseteq 1 .. submitted
BY DEF IInv, TypeOK, RingShape

(* Nvme::Submit up to its polling loop. *)
LEMMA SubmitKeeps == ASSUME IInv, Submit PROVE IInv'
<1>1. TypeOK'
  <2>1. sqTail' \in Ring /\ sqDoorbell' \in Ring
    BY Ranges, AfterInRing DEF Submit
  <2>2. submitted' \in 0 .. MaxCommands
    BY Ranges DEF Submit
  <2>3. sq' \in [Ring -> 0 .. MaxCommands]
    BY Ranges, <2>2 DEF Submit, IInv, TypeOK
  <2>4. executing' \subseteq 1 .. submitted' /\ answered' \subseteq 1 .. submitted'
    BY Ranges DEF Submit, controller
  <2>5. QED
    BY <2>1, <2>2, <2>3, <2>4 DEF Submit, controller, IInv, TypeOK
<1>2. RingShape'
  BY DEF Submit, controller, IInv, RingShape
<1>3. AheadFilled'
  <2> SUFFICES ASSUME NEW i \in Ring, Ahead(i) PROVE cq[i].done.cmd \in 1 .. submitted'
    BY DEF Submit, controller, AheadFilled, Ahead
  <2>1. cq[i].done.cmd \in 1 .. submitted
    BY DEF IInv, AheadFilled
  <2>2. QED
    BY <2>1, Ranges DEF Submit
<1>4. OneAtATime'
  <2> SUFFICES ASSUME timeouts' = 0 PROVE waiting' /\ submitted' > 0 /\ InRing'
    BY DEF OneAtATime
  <2>1. devHead = sqTail /\ executing = {} /\ devTail = cqHead
    BY DEF Submit, IInv, OneAtATime
  <2>2. sq'[sqTail] = submitted'
    BY Ranges DEF Submit, IInv, TypeOK
  <2>3. QED
    BY Ranges, <2>1, <2>2 DEF Submit, controller, InRing, After
<1>5. UnreadFilled'
  <2> SUFFICES ASSUME NEW i \in Ring, Unread(i)' PROVE sq'[i] \in 1 .. submitted + 1
    BY DEF Submit, UnreadFilled
  <2>1. sqTail' = IF sqTail + 1 = Entries THEN 0 ELSE sqTail + 1
    BY Ranges, AfterInRing DEF Submit
  <2>2. CASE i = sqTail
    BY <2>2, Ranges DEF Submit, IInv, TypeOK
  <2>3. CASE i # sqTail
    <3>1. Unread(i)
      BY <2>1, <2>3, Ranges DEF Submit, controller, Unread, Ring
    <3>2. sq'[i] = sq[i]
      BY <2>3, Ranges DEF Submit, IInv, TypeOK
    <3>3. QED
      BY <3>1, <3>2, Ranges DEF IInv, UnreadFilled
  <2>4. QED
    BY <2>2, <2>3
<1>6. QED
  BY <1>1, <1>2, <1>3, <1>4, <1>5 DEF IInv

(* Nvme::Submit returning a status. *)
LEMMA PollKeeps == ASSUME IInv, Poll PROVE IInv'
<1>1. cqHead # devTail
  BY PhaseFromShape DEF Poll, PhaseSound
<1>2. /\ cqHead' = IF cqHead + 1 = Entries THEN 0 ELSE cqHead + 1
      /\ phase' = IF cqHead' = 0 THEN Flip(phase) ELSE phase
      /\ cqDoorbell' = cqHead'
      /\ UNCHANGED <<sqTail, sq, cq, sqDoorbell, controller, counters>>
  BY Ranges, AfterInRing DEF Poll, NextPhase
<1>3. cqHead' \in Ring
  BY Ranges, AfterInRing DEF Poll
<1>4. /\ devHead' = devHead /\ devTail' = devTail /\ devPhase' = devPhase
      /\ executing' = executing /\ submitted' = submitted /\ timeouts' = timeouts
      /\ answered' = answered /\ cq' = cq /\ sq' = sq /\ sqTail' = sqTail
      /\ sqDoorbell' = sqDoorbell
  BY <1>2 DEF controller, counters
<1>5. Ahead(cqHead)
  BY Ranges, <1>1 DEF IInv, RingShape, Ahead, Ring, Flip
<1>6. cq[cqHead].done \in Completion
  <2>1. cq[cqHead].done \in [cmd : 0 .. MaxCommands, status : Status]
    BY Ranges DEF IInv, TypeOK
  <2>2. cq[cqHead].done.cmd \in 1 .. MaxCommands
    BY Ranges, <1>5 DEF IInv, AheadFilled
  <2>3. QED
    BY <2>1, <2>2 DEF Completion
<1>7. TypeOK'
  <2>1. phase' \in {0, 1}
    BY Ranges, <1>2 DEF Flip
  <2>2. last' \in {<<>>} \cup {<<c>> : c \in Completion}
    BY <1>6 DEF Poll
  <2>3. waiting' \in BOOLEAN
    BY DEF Poll
  <2>4. QED
    BY <1>2, <1>3, <1>4, <2>1, <2>2, <2>3 DEF IInv, TypeOK
<1>8. RingShape'
  <2>1. \/ devPhase' = phase' /\ cqHead' <= devTail'
        \/ devPhase' = Flip(phase') /\ devTail' < cqHead'
    BY Ranges, <1>1, <1>2, <1>4 DEF IInv, RingShape, Ring, Flip
  <2>2. QED
    BY <1>2, <1>4, <2>1 DEF IInv, RingShape
<1>9. AheadFilled'
  <2> SUFFICES ASSUME NEW i \in Ring, Ahead(i)' PROVE cq[i].done.cmd \in 1 .. submitted
    BY <1>4 DEF AheadFilled
  <2>1. Ahead(i)
    BY Ranges, <1>1, <1>2, <1>4 DEF IInv, RingShape, Ahead, Ring, Flip
  <2>2. QED
    BY <2>1 DEF IInv, AheadFilled
<1>10. OneAtATime'
  <2> SUFFICES ASSUME timeouts = 0
               PROVE  /\ devHead = sqTail /\ executing = {} /\ devTail = cqHead'
                      /\ last' # <<>> /\ last'[1].cmd = submitted
    BY <1>4 DEF OneAtATime, Poll
  <2>1. InCompletion
    BY <1>1 DEF Poll, IInv, OneAtATime, InRing, InController
  <2>2. last' = <<cq[cqHead].done>> /\ cqHead' = After(cqHead)
    BY DEF Poll
  <2>3. QED
    BY <2>1, <2>2 DEF InCompletion
<1>11. UnreadFilled'
  BY <1>4 DEF IInv, UnreadFilled, Unread
<1>12. QED
  BY <1>7, <1>8, <1>9, <1>10, <1>11 DEF IInv

(* Nvme::Submit giving up. *)
LEMMA TimeOutKeeps == ASSUME IInv, TimeOut PROVE IInv'
<1>1. TypeOK'
  <2>1. timeouts' \in 0 .. MaxTimeouts /\ waiting' \in BOOLEAN
    <3>1. timeouts' = timeouts + 1 /\ timeouts < MaxTimeouts
      BY DEF TimeOut
    <3>2. waiting' \in BOOLEAN
      BY Zenon DEF TimeOut
    <3>3. QED
      BY <3>1, <3>2, Ranges
  <2>2. /\ UNCHANGED <<sqTail, cqHead, phase, last, submitted, answered>>
        /\ UNCHANGED <<sq, cq, sqDoorbell, cqDoorbell>>
        /\ UNCHANGED <<devHead, devTail, devPhase, executing>>
    BY DEF TimeOut, shared, controller
  <2>3. QED
    BY <2>1, <2>2 DEF IInv, TypeOK
<1>2. RingShape'
  BY DEF TimeOut, shared, controller, IInv, RingShape
<1>3. AheadFilled'
  BY DEF TimeOut, shared, controller, IInv, AheadFilled, Ahead
<1>4. OneAtATime'
  BY Ranges DEF TimeOut, OneAtATime
<1>5. UnreadFilled'
  BY DEF TimeOut, shared, controller, IInv, UnreadFilled, Unread
<1>6. QED
  BY <1>1, <1>2, <1>3, <1>4, <1>5 DEF IInv

(* The controller fetching a command that was submitted. *)
LEMMA FetchKeeps == ASSUME IInv, Fetch PROVE IInv'
<1>1. /\ devHead' = After(devHead) /\ executing' = executing \cup {sq[devHead]}
      /\ UNCHANGED <<driver, shared, devTail, devPhase, submitted, timeouts, answered>>
  BY DEF Fetch, counters
<1>2. sq[devHead] \in 1 .. submitted
  <2>1. devHead # sqTail
    BY Ranges DEF Fetch
  <2>2. Unread(devHead)
    BY Ranges, <2>1 DEF Unread, Ring
  <2>3. QED
    BY Ranges, <2>2 DEF IInv, UnreadFilled
<1>3. TypeOK'
  <2>1. devHead' \in Ring /\ executing' \subseteq 1 .. submitted
    BY Ranges, AfterInRing, <1>1, <1>2
  <2>2. QED
    BY <1>1, <2>1 DEF driver, shared, IInv, TypeOK
<1>4. RingShape'
  BY <1>1 DEF driver, shared, IInv, RingShape
<1>5. AheadFilled'
  BY <1>1 DEF driver, shared, IInv, AheadFilled, Ahead
<1>6. OneAtATime'
  <2> SUFFICES ASSUME timeouts = 0 PROVE waiting /\ submitted > 0 /\ InController'
    BY <1>1 DEF OneAtATime, driver
  <2>1. devHead # sqTail
    BY Ranges DEF Fetch
  <2>2. waiting /\ submitted > 0 /\ InRing
    BY <2>1 DEF IInv, OneAtATime, InController, InCompletion
  <2>3. QED
    BY <2>2, <1>1 DEF InRing, InController, driver
<1>7. UnreadFilled'
  <2> SUFFICES ASSUME NEW i \in Ring, Unread(i)' PROVE sq[i] \in 1 .. submitted
    BY <1>1 DEF shared, UnreadFilled
  <2>1. devHead' = IF devHead + 1 = Entries THEN 0 ELSE devHead + 1
    BY Ranges, AfterInRing, <1>1
  <2>2. devHead # sqTail
    BY Ranges DEF Fetch
  <2>3. Unread(i)
    BY <1>1, <2>1, <2>2, Ranges DEF driver, Unread, Ring
  <2>4. QED
    BY <2>3 DEF IInv, UnreadFilled
<1>8. QED
  BY <1>3, <1>4, <1>5, <1>6, <1>7 DEF IInv

(* The controller answering a command it executes. *)
LEMMA CompleteKeeps ==
  ASSUME IInv, NEW c \in executing, NEW s \in Status, Complete(c, s)
  PROVE  IInv'
<1>1. /\ After(devTail) # cqHead
      /\ cq' = [cq EXCEPT ![devTail] = [phase |-> devPhase, done |-> [cmd |-> c, status |-> s]]]
      /\ devTail' = IF devTail + 1 = Entries THEN 0 ELSE devTail + 1
      /\ devPhase' = IF devTail' = 0 THEN Flip(devPhase) ELSE devPhase
      /\ executing' = executing \ {c}
      /\ answered' = answered \cup {c}
  BY Ranges, AfterInRing DEF Complete
<1>2. /\ UNCHANGED <<sqTail, cqHead, phase, waiting, last>>
      /\ UNCHANGED <<sq, sqDoorbell, cqDoorbell, devHead, submitted, timeouts>>
  BY DEF Complete, driver
<1>3. c \in 1 .. submitted /\ c \in 1 .. MaxCommands
  BY Ranges
<1>4. devTail' \in Ring /\ devPhase' \in {0, 1}
  BY Ranges, AfterInRing, <1>1 DEF Complete, Flip
<1>5. /\ cq'[devTail] = [phase |-> devPhase, done |-> [cmd |-> c, status |-> s]]
      /\ \A i \in Ring \ {devTail} : cq'[i] = cq[i]
  BY Ranges, <1>1 DEF IInv, TypeOK
<1>6. TypeOK'
  <2>1. cq' \in [Ring -> [phase : {0, 1}, done : [cmd : 0 .. MaxCommands, status : Status]]]
    <3> DEFINE CE == [phase : {0, 1}, done : [cmd : 0 .. MaxCommands, status : Status]]
    <3>1. [phase |-> devPhase, done |-> [cmd |-> c, status |-> s]] \in CE
      BY Ranges, <1>3
    <3>2. cq \in [Ring -> CE]
      BY DEF IInv, TypeOK
    <3> HIDE DEF CE
    <3>3. cq' \in [Ring -> CE]
      BY <3>1, <3>2, <1>1
    <3>4. QED
      BY <3>3 DEF CE
  <2>2. executing' \subseteq 1 .. submitted' /\ answered' \subseteq 1 .. submitted'
    BY Ranges, <1>1, <1>2, <1>3
  <2>3. QED
    BY <1>2, <1>4, <2>1, <2>2 DEF IInv, TypeOK
<1>7. RingShape'
  <2>1. \A i \in Ring : cq'[i].phase = IF i < devTail' THEN devPhase' ELSE Flip(devPhase')
    <3> SUFFICES ASSUME NEW i \in Ring
                 PROVE  cq'[i].phase = IF i < devTail' THEN devPhase' ELSE Flip(devPhase')
      OBVIOUS
    <3>1. cq'[i].phase = IF i <= devTail THEN devPhase ELSE Flip(devPhase)
      <4>1. CASE i = devTail
        BY <4>1, <1>5, Ranges DEF Ring
      <4>2. CASE i # devTail
        BY <4>2, <1>5, Ranges DEF IInv, RingShape, Ring
      <4>3. QED
        BY <4>1, <4>2
    <3>2. Flip(Flip(devPhase)) = devPhase
      BY Ranges DEF Flip
    <3>3. QED
      BY <3>1, <3>2, <1>1, Ranges DEF Ring
  <2>2. \/ devPhase' = phase' /\ cqHead' <= devTail'
        \/ devPhase' = Flip(phase') /\ devTail' < cqHead'
    <3>1. After(devTail) = IF devTail + 1 = Entries THEN 0 ELSE devTail + 1
      BY Ranges, AfterInRing
    <3>2. QED
      BY <3>1, <1>1, <1>2, Ranges DEF IInv, RingShape, Ring, Flip
  <2>3. QED
    BY <1>2, <2>1, <2>2 DEF IInv, RingShape
<1>8. UnreadFilled'
  BY <1>2 DEF IInv, UnreadFilled, Unread
<1>9. AheadFilled'
  <2> SUFFICES ASSUME NEW i \in Ring, Ahead(i)' PROVE cq'[i].done.cmd \in 1 .. submitted
    BY <1>2 DEF AheadFilled
  <2>1. CASE i = devTail
    BY <2>1, <1>3, <1>5
  <2>2. CASE i # devTail
    <3>1. Ahead(i)
      BY <2>2, <1>1, <1>2, Ranges DEF IInv, RingShape, Ahead, Ring, Flip
    <3>2. QED
      BY <3>1, <2>2, <1>5 DEF IInv, AheadFilled
  <2>3. QED
    BY <2>1, <2>2
<1>10. OneAtATime'
  <2> SUFFICES ASSUME timeouts = 0 PROVE waiting /\ submitted > 0 /\ InCompletion'
    BY <1>2 DEF OneAtATime
  <2>1. waiting /\ submitted > 0 /\ InController
    BY DEF IInv, OneAtATime, InRing, InCompletion
  <2>2. c = submitted /\ executing' = {}
    BY <2>1, <1>1 DEF InController
  <2>3. devTail' = After(cqHead)
    BY <2>1 DEF InController, Complete
  <2>4. cq'[cqHead].done.cmd = submitted
    BY <2>1, <2>2, <1>5 DEF InController
  <2>5. After(cqHead)' = After(cqHead)
    BY <1>2 DEF After
  <2>6. QED
    BY <2>1, <2>2, <2>3, <2>4, <2>5, <1>2 DEF InController, InCompletion
<1>11. QED
  BY <1>6, <1>7, <1>8, <1>9, <1>10 DEF IInv

(* Every step of the driver and of the controller keeps the invariant. *)
LEMMA NextIInv == IInv /\ [Next]_vars => IInv'
<1> SUFFICES ASSUME IInv, [Next]_vars PROVE IInv'
  OBVIOUS
<1>1. CASE Answer
  BY <1>1, CompleteKeeps DEF Answer
<1>2. CASE UNCHANGED vars
  <2>1. /\ UNCHANGED <<sqTail, cqHead, phase, waiting, last>>
        /\ UNCHANGED <<sq, cq, sqDoorbell, cqDoorbell>>
        /\ UNCHANGED <<devHead, devTail, devPhase, executing>>
        /\ UNCHANGED <<submitted, timeouts, answered>>
    BY <1>2 DEF vars, driver, shared, controller, counters
  <2>2. TypeOK'
    BY <2>1 DEF IInv, TypeOK
  <2>3. RingShape'
    BY <2>1 DEF IInv, RingShape
  <2>4. UnreadFilled'
    BY <2>1 DEF IInv, UnreadFilled, Unread
  <2>5. AheadFilled'
    BY <2>1 DEF IInv, AheadFilled, Ahead
  <2>6. OneAtATime'
    BY <2>1 DEF IInv, OneAtATime, InRing, InController, InCompletion, After
  <2>7. QED
    BY <2>2, <2>3, <2>4, <2>5, <2>6 DEF IInv
<1>3. QED
  BY <1>1, <1>2, SubmitKeeps, PollKeeps, TimeOutKeeps, FetchKeeps DEF Next, Done

(* The invariant holds in every reachable state. *)
THEOREM Invariance == Spec => []IInv
BY InitIInv, NextIInv, PTL DEF Spec

(* Type correctness of the queue pair: no index of NvmeQueue ever leaves   *)
(* its ring, and the controller only executes what was submitted.          *)
THEOREM TypeCorrect == Spec => []TypeOK
<1>1. IInv => TypeOK
  BY DEF IInv
<1>2. QED
  BY <1>1, Invariance, PTL

(* The phase bit Submit polls always tells a new completion from one of    *)
(* the lap before, for a ring of any size, with commands given up or not.  *)
THEOREM PhaseAlwaysSound == Spec => []PhaseSound
BY PhaseFromShape, Invariance, PTL

(* As long as none was given up, Submit returns its own command's status.  *)
THEOREM AlwaysOwnCompletion == Spec => []OwnCompletion
<1>1. IInv => OwnCompletion
  BY DEF IInv, OneAtATime, OwnCompletion
<1>2. QED
  BY <1>1, Invariance, PTL

---------------------------------------------------------------------------
(* The channel *)

(* How far the controller is ahead of the driver. *)
Distance == IF devPhase = phase THEN devTail - cqHead ELSE devTail + Entries - cqHead

(* The entry k places behind the head. *)
Place(k) == (cqHead + k) % Entries

(* The place is found without a division. *)
LEMMA PlaceSound ==
  ASSUME cqHead \in Ring, NEW k \in 0 .. Entries
  PROVE  /\ Place(k) \in Ring
         /\ Place(k) = IF cqHead + k < Entries THEN cqHead + k ELSE cqHead + k - Entries
<1>1. (cqHead + k) % Entries = IF cqHead + k < Entries THEN cqHead + k ELSE cqHead + k - Entries
  BY DEF Ring
<1>2. QED
  BY <1>1 DEF Ring, Place

(* What the phase bits show as pending are the entries between the two.    *)
LEMMA PendingIsDistance ==
  ASSUME IInv
  PROVE  Pending = Distance /\ Distance \in 0 .. Entries - 1
<1>1. /\ cqHead \in Ring /\ devTail \in Ring /\ phase \in {0, 1} /\ devPhase \in {0, 1}
      /\ \/ devPhase = phase /\ cqHead <= devTail
         \/ devPhase = Flip(phase) /\ devPhase # phase /\ devTail < cqHead
  BY DEF IInv, TypeOK, RingShape, Flip
<1>2. Distance \in 0 .. Entries - 1
  BY <1>1 DEF Distance, Ring
<1>3. ASSUME NEW k \in 0 .. Entries - 1 PROVE Fresh(k) <=> k < Distance
  <2> DEFINE i == Place(k)
  <2>1. i \in Ring /\ i = IF cqHead + k < Entries THEN cqHead + k ELSE cqHead + k - Entries
    BY <1>1, PlaceSound
  <2>2. Fresh(k) <=> cq[i].phase = IF cqHead + k < Entries THEN phase ELSE Flip(phase)
    BY DEF Fresh, Place
  <2> HIDE DEF i
  <2>3. cq[i].phase = IF i < devTail THEN devPhase ELSE Flip(devPhase)
    BY <2>1 DEF IInv, RingShape
  <2>4. QED
    BY <1>1, <2>1, <2>2, <2>3 DEF Distance, Ring, Flip
<1> DEFINE P(n) == (\A k \in 0 .. n - 1 : Fresh(k)) /\ (n = Entries - 1 \/ ~Fresh(n))
<1>4. P(Distance)
  BY <1>2, <1>3
<1>5. ASSUME NEW n \in 0 .. Entries - 1, P(n) PROVE n = Distance
  <2>1. CASE n < Distance
    BY <1>2, <1>3, <1>5, <2>1
  <2>2. CASE n > Distance
    <3>1. Distance \in 0 .. n - 1 /\ ~(Distance < Distance)
      BY <1>2, <2>2
    <3>2. QED
      BY <1>2, <1>3, <1>5, <3>1
  <2>3. QED
    BY <1>2, <2>1, <2>2
<1>6. Pending = CHOOSE n \in 0 .. Entries - 1 : P(n)
  BY DEF Pending
<1> HIDE DEF P
<1>7. QED
  BY <1>2, <1>4, <1>5, <1>6

Reported == [cmd : 0 .. MaxCommands, status : Status]

(* The channel is the sequence of the entries between the two. *)
ChanShape ==
  /\ Chan \in Seq(Reported)
  /\ Len(Chan) = Distance /\ Distance \in Nat
  /\ \A k \in 1 .. Distance : Chan[k] = cq[Place(k - 1)].done

LEMMA ChanSound == IInv => ChanShape
<1> SUFFICES ASSUME IInv PROVE ChanShape
  OBVIOUS
<1>1. Pending = Distance /\ Distance \in 0 .. Entries - 1
  BY PendingIsDistance
<1>2. ASSUME NEW k \in 1 .. Distance
      PROVE  cq[(cqHead + k - 1) % Entries].done \in Reported /\ Place(k - 1) = (cqHead + k - 1) % Entries
  <2>1. k - 1 \in 0 .. Entries /\ cqHead \in Ring /\ cqHead \in Int
    BY <1>1, Ranges DEF Ring
  <2>2. Place(k - 1) \in Ring
    BY <2>1, PlaceSound
  <2>3. cqHead + (k - 1) = cqHead + k - 1
    BY <2>1
  <2>4. cq[Place(k - 1)].done \in Reported
    BY <2>2 DEF IInv, TypeOK, Reported
  <2>5. QED
    BY <2>3, <2>4 DEF Place
<1>3. Chan = [k \in 1 .. Distance |-> cq[(cqHead + k - 1) % Entries].done]
  BY <1>1 DEF Chan
<1>4. Chan \in [1 .. Distance -> Reported]
  BY <1>2, <1>3
<1>5. Chan \in Seq(Reported)
  BY <1>1, <1>4, SeqDef
<1>6. Len(Chan) = Distance
  BY <1>1, <1>4, <1>5, LenProperties
<1>7. QED
  BY <1>1, <1>2, <1>3, <1>5, <1>6 DEF ChanShape

(* Entries the driver has not passed, and the controller has not reached,  *)
(* are the same ones before and after a step that leaves both alone.       *)
LEMMA ChanStays ==
  ASSUME UNCHANGED <<cq, cqHead, phase>>
  PROVE  Chan' = Chan
<1>1. \A k : Fresh(k)' <=> Fresh(k)
  BY DEF Fresh, Flip
<1>2. Pending' = Pending
  BY <1>1 DEF Pending, Fresh, Flip
<1>3. QED
  BY <1>2 DEF Chan

(* An empty ring is an empty channel. *)
LEMMA ChannelInit == Init => Channel!Init
<1> SUFFICES ASSUME Init PROVE Chan = <<>> /\ last = <<>>
  BY DEF Channel!Init
<1>1. Distance = 0
  BY DEF Init, Distance
<1>2. Chan \in Seq(Reported) /\ Len(Chan) = 0
  BY <1>1, InitIInv, ChanSound DEF ChanShape
<1>3. QED
  BY <1>2, EmptySeq DEF Init

(* A status returned is the first completion taken out. *)
LEMMA PollTakes == ASSUME IInv, Poll PROVE Channel!Take
<1>1. cqHead # devTail
  BY PhaseFromShape DEF Poll, PhaseSound
<1>2. /\ cqHead' = IF cqHead + 1 = Entries THEN 0 ELSE cqHead + 1
      /\ phase' = IF cqHead' = 0 THEN Flip(phase) ELSE phase
      /\ devTail' = devTail /\ devPhase' = devPhase /\ cq' = cq
      /\ last' = <<cq[cqHead].done>>
  BY Ranges, AfterInRing DEF Poll, NextPhase, controller, counters
<1>3. Distance > 0 /\ Distance' = Distance - 1
  BY Ranges, <1>1, <1>2 DEF IInv, RingShape, Distance, Ring, Flip
<1>4. ChanShape
  BY ChanSound
<1>5. ChanShape'
  <2>1. IInv'
    BY PollKeeps
  <2>2. QED
    BY <2>1, ChanSound, PTL
<1>6. ASSUME NEW k \in 0 .. Distance - 2 PROVE Place(k)' = Place(k + 1)
  <2>1. k \in Nat /\ k + 1 \in 0 .. Entries /\ cqHead \in Ring
    BY Ranges, PendingIsDistance
  <2>2. Place(k + 1) = IF cqHead + k + 1 < Entries THEN cqHead + k + 1 ELSE cqHead + k + 1 - Entries
    BY <2>1, PlaceSound DEF Ring
  <2>3. Place(k)' = (cqHead' + k) % Entries
    BY DEF Place
  <2>4. cqHead' + k \in Nat /\ (cqHead' + k) % Entries = IF cqHead' + k < Entries THEN cqHead' + k ELSE cqHead' + k - Entries
    BY <1>2, <2>1 DEF Ring
  <2>5. QED
    BY <1>2, <2>1, <2>2, <2>3, <2>4 DEF Ring
<1>7. Place(0) = cqHead
  BY Ranges, PlaceSound DEF Ring
<1>8. Chan # <<>> /\ last' = <<Head(Chan)>>
  <2>1. Len(Chan) # 0
    BY <1>3, <1>4 DEF ChanShape
  <2>2. Chan # <<>>
    BY <2>1, EmptySeq
  <2>3. Chan[1] = cq[cqHead].done
    BY <1>3, <1>4, <1>7 DEF ChanShape
  <2>4. QED
    BY <1>2, <2>2, <2>3
<1>9. Chan' = Tail(Chan)
  <2>1. /\ Tail(Chan) \in Seq(Reported) /\ Len(Tail(Chan)) = Distance - 1
        /\ \A k \in 1 .. Distance - 1 : Tail(Chan)[k] = Chan[k + 1]
    BY <1>4, <1>8, HeadTailProperties DEF ChanShape
  <2>2. Chan' \in Seq(Reported) /\ Len(Chan') = Distance - 1
    BY <1>3, <1>5 DEF ChanShape, Reported
  <2>3. ASSUME NEW k \in 1 .. Distance - 1 PROVE Chan'[k] = Tail(Chan)[k]
    <3>1. Distance \in Nat /\ k - 1 \in 0 .. Distance - 2 /\ k + 1 \in 1 .. Distance /\ k \in 1 .. Distance'
      BY <1>3, <1>4 DEF ChanShape
    <3>2. Chan'[k] = cq'[Place(k - 1)'].done
      BY <1>5, <3>1 DEF ChanShape
    <3>3. Place(k - 1)' = Place(k)
      <4>1. Place(k - 1)' = Place((k - 1) + 1)
        BY <1>6, <3>1
      <4>2. (k - 1) + 1 = k
        BY <3>1
      <4>3. QED
        BY <4>1, <4>2
    <3>4. Chan[k + 1] = cq[Place(k)].done
      <4>1. Chan[k + 1] = cq[Place((k + 1) - 1)].done
        BY <1>4, <3>1 DEF ChanShape
      <4>2. (k + 1) - 1 = k
        BY <3>1
      <4>3. QED
        BY <4>1, <4>2
    <3>5. QED
      BY <1>2, <2>1, <3>2, <3>3, <3>4
  <2>4. QED
    BY <2>1, <2>2, <2>3, SeqEqual
<1>10. QED
  BY <1>8, <1>9 DEF Channel!Take

(* A completion the controller writes is put in behind the others. *)
LEMMA CompletePosts ==
  ASSUME IInv, NEW c \in executing, NEW s \in Status, Complete(c, s)
  PROVE  Channel!Post([cmd |-> c, status |-> s]) /\ [cmd |-> c, status |-> s] \in Completion
<1> DEFINE d == [cmd |-> c, status |-> s]
<1>1. /\ After(devTail) # cqHead
      /\ devTail' = IF devTail + 1 = Entries THEN 0 ELSE devTail + 1
      /\ devPhase' = IF devTail' = 0 THEN Flip(devPhase) ELSE devPhase
      /\ UNCHANGED <<cqHead, phase, last>>
  BY Ranges, AfterInRing DEF Complete, driver
<1>2. After(devTail) = IF devTail + 1 = Entries THEN 0 ELSE devTail + 1
  BY Ranges, AfterInRing
<1>3. Distance \in 0 .. Entries - 2 /\ Distance' = Distance + 1
  BY Ranges, <1>1, <1>2 DEF IInv, RingShape, Distance, Ring, Flip
<1>4. cq'[devTail].done = d /\ \A i \in Ring \ {devTail} : cq'[i] = cq[i]
  BY Ranges DEF Complete, IInv, TypeOK
<1>5. ChanShape
  BY ChanSound
<1>6. ChanShape'
  <2>1. IInv'
    BY CompleteKeeps
  <2>2. QED
    BY <2>1, ChanSound, PTL
<1>7. ASSUME NEW k \in 0 .. Distance
      PROVE  /\ Place(k)' = Place(k) /\ Place(k) \in Ring
             /\ Place(k) = devTail <=> k = Distance
  <2>1. Place(k) \in Ring /\ Place(k) = IF cqHead + k < Entries THEN cqHead + k ELSE cqHead + k - Entries
    BY Ranges, <1>3, PlaceSound
  <2>2. Place(k)' = Place(k)
    BY <1>1 DEF Place
  <2>3. Place(k) = devTail <=> k = Distance
    BY Ranges, <1>3, <2>1 DEF IInv, RingShape, Distance, Ring, Flip
  <2>4. QED
    BY <2>1, <2>2, <2>3
<1>8. d \in Completion /\ d \in Reported
  <2>1. c \in 1 .. MaxCommands
    BY Ranges
  <2>2. QED
    BY <2>1 DEF Completion, Reported
<1> HIDE DEF d
<1>9. Chan' = Append(Chan, d)
  <2>1. /\ Append(Chan, d) \in Seq(Reported) /\ Len(Append(Chan, d)) = Distance + 1
        /\ \A k \in 1 .. Distance : Append(Chan, d)[k] = Chan[k]
        /\ Append(Chan, d)[Distance + 1] = d
    BY <1>5, <1>8, AppendProperties DEF ChanShape
  <2>2. Chan' \in Seq(Reported) /\ Len(Chan') = Distance + 1
    BY <1>3, <1>6 DEF ChanShape, Reported
  <2>3. ASSUME NEW k \in 1 .. Distance + 1 PROVE Chan'[k] = Append(Chan, d)[k]
    <3>1. Distance \in Nat /\ k - 1 \in 0 .. Distance /\ k \in 1 .. Distance'
      BY <1>3
    <3>2. Chan'[k] = cq'[Place(k - 1)].done
      BY <1>6, <1>7, <3>1 DEF ChanShape
    <3>3. CASE k = Distance + 1
      <4>1. Place(k - 1) = devTail
        BY <1>7, <3>1, <3>3
      <4>2. QED
        BY <1>4, <2>1, <3>2, <3>3, <4>1
    <3>4. CASE k \in 1 .. Distance
      <4>1. Place(k - 1) \in Ring \ {devTail}
        BY <1>7, <3>1, <3>4
      <4>2. Chan[k] = cq[Place(k - 1)].done
        BY <1>5, <3>4 DEF ChanShape
      <4>3. QED
        BY <1>4, <2>1, <3>2, <3>4, <4>1, <4>2
    <3>5. k = Distance + 1 \/ k \in 1 .. Distance
      BY <3>1
    <3>6. QED
      BY <3>3, <3>4, <3>5
  <2>4. QED
    BY <2>1, <2>2, <2>3, SeqEqual
<1>10. QED
  BY <1>1, <1>8, <1>9 DEF Channel!Post, d

(* A step is one of the channel, or leaves it as it is. *)
LEMMA ChannelNext ==
  ASSUME IInv, [Next]_vars
  PROVE  [Channel!Next]_<<Chan, last>>
<1>1. CASE Poll
  BY <1>1, PollTakes DEF Channel!Next
<1>2. CASE Answer
  BY <1>2, CompletePosts DEF Answer, Channel!Next
<1>3. CASE Submit \/ TimeOut \/ Fetch \/ Done \/ UNCHANGED vars
  <2>1. UNCHANGED <<cq, cqHead, phase, last>>
    BY <1>3 DEF Submit, TimeOut, Fetch, Done, vars, driver, shared
  <2>2. QED
    BY <2>1, ChanStays
<1>4. QED
  BY <1>1, <1>2, <1>3 DEF Next

(* Read by its phase bits, the completion ring is a channel: every status  *)
(* Submit returns is taken from the front of it, each once and in order,   *)
(* whatever was given up.                                                  *)
THEOREM AlwaysAChannel == Spec => ImplementsChannel
BY ChannelInit, ChannelNext, Invariance, PTL DEF Spec, ImplementsChannel, Channel!Spec

---------------------------------------------------------------------------
(* The partition table *)

---------------------------------------------------------------------------
(* Numbers *)

LessThan == {p \in Nat \X Nat : p[1] < p[2]}

(* A set of natural numbers has a least one. *)
LEMMA NatHasMin ==
  ASSUME NEW S \in SUBSET Nat, S # {}
  PROVE  Min(S) \in S /\ \A y \in S : Min(S) <= y
<1>1. IsWellFoundedOn(LessThan, Nat)
  BY NatLessThanWellFounded DEF OpToRel, LessThan
<1>2. PICK x \in S : \A y \in S : ~ (<<y, x>> \in LessThan)
  BY <1>1, WFMin
<1>3. ASSUME NEW y \in S PROVE x <= y
  <2>1. ~ (<<y, x>> \in LessThan) /\ x \in Nat /\ y \in Nat
    BY <1>2
  <2>2. QED
    BY <2>1 DEF LessThan
<1>4. QED
  BY <1>3 DEF Min

(* A bounded set of natural numbers has a greatest one. *)
LEMMA NatHasMax ==
  ASSUME NEW S \in SUBSET Nat, S # {}, NEW b \in Nat, \A y \in S : y <= b
  PROVE  Max(S) \in S /\ \A y \in S : Max(S) >= y
<1> DEFINE D == {b - y : y \in S}
<1>1. D \in SUBSET Nat /\ D # {}
  <2>1. \A y \in S : b - y \in Nat
    OBVIOUS
  <2>2. QED
    BY <2>1
<1>2. PICK x \in S : Min(D) = b - x
  BY <1>1, NatHasMin
<1>3. ASSUME NEW y \in S PROVE x >= y
  <2>1. b - y \in D /\ b - x <= b - y
    BY <1>1, <1>2, NatHasMin
  <2>2. QED
    BY <2>1
<1>4. QED
  BY <1>3 DEF Max

(* Multiplication by a unit keeps the order. *)
LEMMA UnitOrder ==
  ASSUME NEW x \in Int, NEW y \in Int, NEW a \in Nat \ {0}
  PROVE  x * a \in Int /\ (x <= y <=> x * a <= y * a) /\ (x <= y <=> x * a < y * a + a)
OBVIOUS

(* Integer division is the greatest number of whole units. *)
LEMMA WholeUnits ==
  ASSUME NEW x \in Nat, NEW a \in Nat \ {0}
  PROVE  /\ x \div a \in Nat
         /\ (x \div a) * a <= x /\ x < (x \div a) * a + a
         /\ \A n \in Nat : n * a <= x => n <= x \div a
OBVIOUS

(* What is a multiple of a unit, and what is not. *)
LEMMA Multiples ==
  ASSUME NEW a \in Nat \ {0}
  PROVE  /\ \A k \in Nat : (k * a) % a = 0
         /\ \A x \in Nat : x % a = 0 => \E k \in Nat : x = k * a
OBVIOUS

---------------------------------------------------------------------------
(* Tables *)

Table == [Index -> Entry]

(* Every index is in one of the chunks, and the chunks before it are done  *)
(* when a write has come to it.                                            *)
LEMMA IndexInChunks == \A i \in Index : (i - 1) \div PerChunk \in Chunks
<1> SUFFICES ASSUME NEW i \in Index PROVE (i - 1) \div PerChunk \in Chunks
  OBVIOUS
<1> DEFINE c == (i - 1) \div PerChunk
           n == NumEntries \div PerChunk
<1>1. i - 1 \in Nat /\ NumEntries \in Nat /\ PerChunk \in Nat \ {0} /\ i - 1 < NumEntries
  BY SizeAssumption DEF Index
<1>2. c \in Nat /\ c * PerChunk <= i - 1 /\ n \in Nat
  BY <1>1, WholeUnits
<1>3. PICK k \in Nat : NumEntries = k * PerChunk
  BY <1>1, SizeAssumption, Multiples
<1>4. k <= n
  BY <1>1, <1>3, WholeUnits
<1>5. ~ (k <= c)
  BY <1>1, <1>2, <1>3, UnitOrder
<1>6. QED
  BY <1>2, <1>4, <1>5 DEF Chunks

(* A table that differs from t at most in its first free entry. *)
OneEntry(t, u) ==
  \A i \in Index : u[i] = t[i] \/ (~t[i].used /\ \A j \in Index : ~t[j].used => i <= j)

(* Of two arrays that differ from the same one in the same entry at most,  *)
(* a mixture is one or the other.                                          *)
LEMMA Mixture ==
  ASSUME NEW t \in Table, NEW u \in Table, NEW v \in Table, NEW S,
         OneEntry(t, u), OneEntry(t, v)
  PROVE  [i \in Index |-> IF i \in S THEN v[i] ELSE u[i]] \in {u, v}
<1> DEFINE w == [i \in Index |-> IF i \in S THEN v[i] ELSE u[i]]
<1>1. CASE \A i \in Index : u[i] = v[i]
  <2>1. w = u
    BY <1>1 DEF Table
  <2>2. QED
    BY <2>1
<1>2. CASE \E i \in Index : u[i] # v[i]
  <2>1. PICK m \in Index : u[m] # v[m]
    BY <1>2
  <2>2. ~t[m].used /\ \A j \in Index : ~t[j].used => m <= j
    BY <2>1 DEF OneEntry
  <2>3. \A i \in Index : i # m => u[i] = v[i]
    BY <2>2 DEF OneEntry, Index
  <2>4. CASE m \in S
    BY <2>3, <2>4 DEF Table
  <2>5. CASE m \notin S
    BY <2>3, <2>5 DEF Table
  <2>6. QED
    BY <2>4, <2>5
<1>3. QED
  BY <1>1, <1>2

(* The partitions of the table are in every one that grew out of it. *)
LEMMA PartsGrow ==
  ASSUME NEW t \in Table, NEW u \in Table, OneEntry(t, u)
  PROVE  Parts(t) \subseteq Parts(u)
<1> SUFFICES ASSUME NEW i \in Index, t[i].used PROVE t[i] \in Parts(u)
  BY DEF Parts
<1>1. u[i] = t[i]
  BY DEF OneEntry
<1>2. QED
  BY <1>1 DEF Parts

---------------------------------------------------------------------------
(* The sweep *)

Partition == [used : {TRUE}, start : Lba, end : Lba]

(* The sizes are natural numbers. *)
LEMMA Sizes ==
  /\ FirstUsable \in Nat /\ LastUsable \in Nat /\ FirstUsable <= LastUsable
  /\ Align \in Nat \ {0}
BY SizeAssumption

(* A partition is in the usable range. *)
LEMMA PartitionSound ==
  ASSUME NEW p \in Partition
  PROVE  /\ p.used
         /\ p.start \in Nat /\ FirstUsable <= p.start /\ p.start <= LastUsable
         /\ p.end \in Nat /\ FirstUsable <= p.end /\ p.end <= LastUsable
<1>1. p.used = TRUE /\ p.start \in Lba /\ p.end \in Lba
  BY DEF Partition
<1>2. QED
  BY <1>1, Sizes DEF Lba

(* Rounding up to whole units gives the first aligned sector not before n. *)
LEMMA AlignUpSound ==
  ASSUME NEW n \in Nat
  PROVE  /\ AlignUp(n) \in Nat /\ n <= AlignUp(n) /\ AlignUp(n) % Align = 0
         /\ \A s \in Nat : n <= s /\ s % Align = 0 => AlignUp(n) <= s
<1> DEFINE k == (n + Align - 1) \div Align
<1>1. Align \in Nat \ {0} /\ n + Align - 1 \in Nat
  BY SizeAssumption
<1>2. /\ k \in Nat /\ k * Align <= n + Align - 1 /\ n + Align - 1 < k * Align + Align
      /\ AlignUp(n) = k * Align
  BY <1>1, WholeUnits DEF AlignUp
<1> HIDE DEF k
<1>3. k * Align \in Nat /\ (k * Align) % Align = 0
  BY <1>1, <1>2, Multiples
<1>4. ASSUME NEW s \in Nat, n <= s, s % Align = 0 PROVE k * Align <= s
  <2>1. PICK j \in Nat : s = j * Align
    BY <1>1, <1>4, Multiples
  <2>2. k * Align < j * Align + Align
    BY <1>1, <1>2, <1>3, <1>4, <2>1
  <2>3. k <= j
    BY <1>1, <1>2, <2>2, UnitOrder
  <2>4. QED
    BY <1>1, <1>2, <2>1, <2>3, UnitOrder
<1>5. QED
  BY <1>1, <1>2, <1>3, <1>4

(* The cursor is behind every partition that starts before the limit, and  *)
(* no further than it must be.                                             *)
LEMMA CursorSound ==
  ASSUME NEW parts \in SUBSET Partition, NEW limit \in Nat
  PROVE  /\ Cursor(parts, limit) \in Nat /\ FirstUsable <= Cursor(parts, limit)
         /\ \A q \in parts : q.start < limit => q.end < Cursor(parts, limit)
         /\ \A s \in Nat : FirstUsable <= s /\ (\A q \in parts : q.start < limit => q.end < s)
              => Cursor(parts, limit) <= s
<1> DEFINE ends == {p.end + 1 : p \in {q \in parts : q.start < limit}}
           S == {FirstUsable} \cup ends
<1>1. \A q \in parts : q.start \in Nat /\ q.end \in Nat /\ q.end <= LastUsable
  BY PartitionSound
<1>2. FirstUsable \in Nat /\ LastUsable \in Nat /\ FirstUsable <= LastUsable
  BY Sizes
<1>3. S \in SUBSET Nat /\ S # {} /\ \A y \in S : y <= LastUsable + 1
  BY <1>1, <1>2
<1>4. Max(S) \in S /\ \A y \in S : Max(S) >= y
  <2> HIDE DEF S
  <2>1. LastUsable + 1 \in Nat
    BY <1>2
  <2>2. QED
    BY <1>3, <2>1, NatHasMax
<1>5. FirstUsable \in S /\ Max(S) \in Nat
  BY <1>3, <1>4
<1>6. Cursor(parts, limit) = Max(S)
  BY DEF Cursor
<1>7. ASSUME NEW q \in parts, q.start < limit PROVE q.end < Max(S)
  <2>1. q.end + 1 \in S
    BY <1>7
  <2> HIDE DEF S
  <2>2. QED
    BY <1>1, <1>4, <1>5, <2>1
<1>8. ASSUME NEW s \in Nat, FirstUsable <= s, \A q \in parts : q.start < limit => q.end < s
      PROVE  Max(S) <= s
  <2>1. \A y \in S : y <= s
    BY <1>1, <1>2, <1>8
  <2>2. QED
    BY <1>4, <2>1
<1> HIDE DEF S
<1>9. QED
  BY <1>2, <1>4, <1>6, <1>7, <1>8, <1>5

(* What fits in front of a limit is whole units from the aligned cursor on. *)
LEMMA RoomSound ==
  ASSUME NEW parts \in SUBSET Partition, NEW limit \in Nat
  PROVE  LET start == AlignUp(Cursor(parts, limit)) IN
         /\ Room(parts, limit) \in Nat
         /\ Room(parts, limit) > 0 => start + Room(parts, limit) <= limit
         /\ \A n \in Nat \ {0} :
              start + n * Align <= limit => Room(parts, limit) > 0 /\ n * Align <= Room(parts, limit)
<1> DEFINE start == AlignUp(Cursor(parts, limit))
           k == (limit - start) \div Align
<1>1. start \in Nat /\ Align \in Nat \ {0}
  BY CursorSound, AlignUpSound, SizeAssumption
<1>2. CASE start < limit
  <2> HIDE DEF start
  <2>1. limit - start \in Nat
    BY <1>1, <1>2
  <2>2. /\ k \in Nat /\ k * Align <= limit - start
        /\ \A n \in Nat : n * Align <= limit - start => n <= k
    BY <1>1, <2>1, WholeUnits
  <2>3. Room(parts, limit) = k * Align
    BY <1>2 DEF Room, start
  <2> HIDE DEF k
  <2>4. k * Align \in Nat
    BY <1>1, <2>2
  <2>5. ASSUME NEW n \in Nat \ {0}, start + n * Align <= limit
        PROVE  k * Align > 0 /\ n * Align <= k * Align
    <3>1. n * Align \in Nat /\ n * Align > 0
      BY <1>1
    <3>2. n <= k
      BY <1>1, <2>2, <2>5, <3>1
    <3>3. n * Align <= k * Align
      BY <1>1, <2>2, <3>2, UnitOrder
    <3>4. QED
      BY <2>4, <3>1, <3>3
  <2>6. QED
    BY <1>1, <2>2, <2>3, <2>4, <2>5 DEF start
<1>3. CASE ~(start < limit)
  <2> HIDE DEF start
  <2>1. Room(parts, limit) = 0
    BY <1>3 DEF Room, start
  <2>2. ASSUME NEW n \in Nat \ {0}, start + n * Align <= limit PROVE FALSE
    <3>1. n * Align \in Nat /\ n * Align > 0
      BY <1>1
    <3>2. QED
      BY <1>1, <1>3, <2>2, <3>1
  <2>3. QED
    BY <2>1, <2>2 DEF start
<1>4. QED
  BY <1>2, <1>3

(* The places the sweep looks at are sectors, and there always is one.     *)
LEMMA LimitsSound ==
  ASSUME NEW parts \in SUBSET Partition
  PROVE  Limits(parts) \in SUBSET (FirstUsable .. LastUsable + 1) /\ LastUsable + 1 \in Limits(parts)
<1>1. \A p \in parts : p.start \in FirstUsable .. LastUsable
  BY PartitionSound, Sizes
<1>2. QED
  BY <1>1, Sizes DEF Limits

(* No partition reaches into the room in front of a limit.                 *)
LEMMA RoomIsFree ==
  ASSUME NEW parts \in SUBSET Partition, NEW l \in Limits(parts), NEW size \in Nat,
         Room(parts, l) > 0, size <= Room(parts, l)
  PROVE  LET s == AlignUp(Cursor(parts, l)) IN
         /\ s \in Nat /\ FirstUsable <= s /\ s % Align = 0 /\ s + size - 1 <= LastUsable
         /\ \A p \in parts : ~Overlap(Part(s, s + size - 1), p)
<1> DEFINE s == AlignUp(Cursor(parts, l))
<1>1. FirstUsable \in Nat /\ LastUsable \in Nat /\ l \in Nat /\ l <= LastUsable + 1
  BY LimitsSound, SizeAssumption
<1>2. s \in Nat /\ Cursor(parts, l) \in Nat /\ Cursor(parts, l) <= s /\ FirstUsable <= Cursor(parts, l) /\ s % Align = 0
  BY <1>1, CursorSound, AlignUpSound
<1>3. Room(parts, l) \in Nat /\ s + Room(parts, l) <= l
  BY <1>1, RoomSound
<1>4. ASSUME NEW p \in parts PROVE ~Overlap(Part(s, s + size - 1), p)
  <2>1. p.start \in Nat /\ p.end \in Nat
    BY PartitionSound
  <2>2. p.start < l => p.end < Cursor(parts, l)
    BY <1>1, CursorSound
  <2> HIDE DEF s
  <2>3. QED
    BY <1>1, <1>2, <1>3, <2>1, <2>2 DEF Overlap, Part
<1> HIDE DEF s
<1>5. s + size - 1 <= LastUsable
  BY <1>1, <1>2, <1>3
<1>6. QED
  BY <1>1, <1>2, <1>4, <1>5 DEF s

(* mkpart is given no place, or the place of one of the limits.            *)
LEMMA FindGapFits ==
  ASSUME NEW parts \in SUBSET Partition, NEW need \in Nat
  PROVE  LET fitting == {l \in Limits(parts) : Room(parts, l) > 0 /\ Room(parts, l) >= need} IN
         \/ fitting = {} /\ FindGap(parts, need) = -1
         \/ /\ Min(fitting) \in fitting /\ \A l \in fitting : Min(fitting) <= l
            /\ FindGap(parts, need) = AlignUp(Cursor(parts, Min(fitting)))
<1> DEFINE fitting == {l \in Limits(parts) : Room(parts, l) > 0 /\ Room(parts, l) >= need}
<1>1. fitting \in SUBSET Nat
  BY LimitsSound, SizeAssumption
<1>2. CASE fitting = {}
  BY <1>2 DEF FindGap
<1>3. CASE fitting # {}
  BY <1>1, <1>3, NatHasMin DEF FindGap
<1>4. QED
  BY <1>2, <1>3

(* The place found is a sector. *)
LEMMA FindGapTyped ==
  ASSUME NEW parts \in SUBSET Partition, NEW need \in Nat
  PROVE  FindGap(parts, need) = -1 \/ FindGap(parts, need) \in Nat
<1> DEFINE fitting == {l \in Limits(parts) : Room(parts, l) > 0 /\ Room(parts, l) >= need}
<1>1. CASE FindGap(parts, need) = -1
  BY <1>1
<1>2. CASE FindGap(parts, need) # -1
  <2>1. Min(fitting) \in Limits(parts) /\ FindGap(parts, need) = AlignUp(Cursor(parts, Min(fitting)))
    BY <1>2, FindGapFits
  <2>2. Min(fitting) \in Nat
    BY <2>1, LimitsSound, Sizes
  <2>3. Cursor(parts, Min(fitting)) \in Nat
    BY <2>2, CursorSound
  <2>4. AlignUp(Cursor(parts, Min(fitting))) \in Nat
    BY <2>3, AlignUpSound
  <2>5. QED
    BY <2>1, <2>4
<1>3. QED
  BY <1>1, <1>2

(* What is asked for is one sector at least. *)
LEMMA NeedsSound == Needs \in SUBSET (Nat \ {0})
<1>1. 1 .. (LastUsable \div Align) \subseteq Nat \ {0}
  BY Sizes
<1>2. \A n \in Nat \ {0} : n * Align \in Nat \ {0}
  BY Sizes
<1>3. QED
  BY <1>1, <1>2 DEF Needs

(* The first place that is free is found, if no partition ends before it   *)
(* starts.                                                                 *)
LEMMA FirstFit ==
  ASSUME NEW parts \in SUBSET Partition, \A p \in parts : p.start <= p.end, NEW need \in Needs
  PROVE  LET free == {s \in {x \in Lba : x % Align = 0} : FreeRange(parts, s, need)}
         IN  FindGap(parts, need) = IF free = {} THEN -1 ELSE Min(free)
<1> DEFINE free == {s \in {x \in Lba : x % Align = 0} : FreeRange(parts, s, need)}
           fitting == {l \in Limits(parts) : Room(parts, l) > 0 /\ Room(parts, l) >= need}
<1>1. PICK n \in Nat \ {0} : need = n * Align
  <2>1. 1 .. (LastUsable \div Align) \subseteq Nat \ {0}
    BY Sizes
  <2>2. QED
    BY <2>1 DEF Needs
<1>2. need \in Nat \ {0} /\ free \in SUBSET Nat /\ Limits(parts) \in SUBSET Nat
  <2>1. n * Align \in Nat \ {0}
    BY Sizes
  <2>2. QED
    BY <1>1, <2>1, Sizes, LimitsSound DEF Lba
<1>3. ASSUME NEW l \in fitting PROVE AlignUp(Cursor(parts, l)) \in free
  <2> DEFINE s == AlignUp(Cursor(parts, l))
  <2>1. /\ s \in Nat /\ FirstUsable <= s /\ s % Align = 0 /\ s + need - 1 <= LastUsable
        /\ \A p \in parts : ~Overlap(Part(s, s + need - 1), p)
    BY <1>2, RoomSound, RoomIsFree
  <2> HIDE DEF s
  <2>2. s \in Lba
    BY <1>2, <2>1, Sizes DEF Lba
  <2>3. QED
    BY <2>1, <2>2 DEF FreeRange, s
<1>4. ASSUME NEW s \in free
      PROVE  \E l \in fitting : \A k \in Limits(parts) : k <= l => AlignUp(Cursor(parts, k)) <= s
  <2>1. /\ s \in Nat /\ FirstUsable <= s /\ s + need - 1 <= LastUsable /\ s % Align = 0
        /\ \A p \in parts : ~Overlap(Part(s, s + need - 1), p)
    BY Sizes DEF Lba, FreeRange
  <2> DEFINE behind == {k \in Limits(parts) : s <= k}
  <2>2. LastUsable + 1 \in behind
    BY <1>2, <2>1, LimitsSound, Sizes
  <2>3. PICK l \in behind : \A k \in behind : l <= k
    <3>1. behind \in SUBSET Nat /\ behind # {}
      BY <1>2, <2>2
    <3> HIDE DEF behind
    <3>2. QED
      BY <3>1, NatHasMin
  <2>4. l \in Nat /\ l \in Limits(parts) /\ s <= l
    BY <1>2, <2>3
  <2>5. s + need <= l
    <3>1. CASE l = LastUsable + 1
      BY <1>2, <2>1, <3>1, Sizes
    <3>2. CASE \E p \in parts : l = p.start
      <4>1. PICK p \in parts : l = p.start
        BY <3>2
      <4>2. p.start \in Nat /\ p.end \in Nat /\ p.start <= p.end
        BY PartitionSound
      <4>3. ~(s <= p.end /\ p.start <= s + need - 1)
        BY <2>1 DEF Overlap, Part
      <4>4. QED
        BY <1>2, <2>1, <2>4, <4>1, <4>2, <4>3
    <3>3. QED
      BY <2>4, <3>1, <3>2 DEF Limits
  <2>6. ASSUME NEW q \in parts, q.start < l PROVE q.end < s
    <3>1. q.start \in Nat /\ q.end \in Nat
      BY PartitionSound
    <3>2. q.start \in Limits(parts)
      BY DEF Limits
    <3>3. q.start < s
      BY <2>1, <2>3, <2>4, <2>6, <3>1, <3>2
    <3>4. ~(s <= q.end /\ q.start <= s + need - 1)
      BY <2>1 DEF Overlap, Part
    <3>5. QED
      BY <1>2, <2>1, <3>1, <3>3, <3>4
  <2>7. ASSUME NEW k \in Limits(parts), k <= l PROVE AlignUp(Cursor(parts, k)) <= s
    <3>1. k \in Nat
      BY <1>2
    <3>2. \A q \in parts : q.start < k => q.end < s
      BY <2>4, <2>6, <2>7, <3>1, PartitionSound
    <3>3. Cursor(parts, k) \in Nat /\ Cursor(parts, k) <= s
      BY <2>1, <3>1, <3>2, CursorSound
    <3>4. QED
      BY <2>1, <3>3, AlignUpSound
  <2>8. l \in fitting
    <3> DEFINE start == AlignUp(Cursor(parts, l))
    <3>1. start \in Nat /\ start <= s
      <4>1. Cursor(parts, l) \in Nat
        BY <2>4, CursorSound
      <4>2. l <= l
        BY <2>4
      <4>3. QED
        BY <2>4, <2>7, <4>1, <4>2, AlignUpSound
    <3> HIDE DEF start
    <3>2. start + n * Align <= l
      BY <1>1, <1>2, <2>1, <2>4, <2>5, <3>1
    <3>3. Room(parts, l) > 0 /\ n * Align <= Room(parts, l) /\ Room(parts, l) \in Nat
      BY <2>4, <3>2, RoomSound DEF start
    <3>4. QED
      BY <1>1, <1>2, <2>4, <3>3
  <2>9. QED
    BY <2>7, <2>8
<1>5. CASE fitting = {}
  <2>1. free = {}
    BY <1>4, <1>5
  <2>2. FindGap(parts, need) = -1
    BY <1>5 DEF FindGap
  <2>3. QED
    BY <2>1, <2>2
<1>6. CASE fitting # {}
  <2>1. /\ Min(fitting) \in fitting /\ \A l \in fitting : Min(fitting) <= l
        /\ FindGap(parts, need) = AlignUp(Cursor(parts, Min(fitting)))
    BY <1>2, <1>6, FindGapFits
  <2> DEFINE gap == AlignUp(Cursor(parts, Min(fitting)))
  <2>2. gap \in free
    BY <1>3, <2>1
  <2>3. ASSUME NEW s \in free PROVE gap <= s
    <3>1. PICK l \in fitting : \A k \in Limits(parts) : k <= l => AlignUp(Cursor(parts, k)) <= s
      BY <1>4
    <3>2. Min(fitting) \in Limits(parts) /\ Min(fitting) <= l
      BY <2>1
    <3>3. QED
      BY <3>1, <3>2
  <2>4. Min(free) \in free /\ \A s \in free : Min(free) <= s
    BY <1>2, <2>2, NatHasMin
  <2>5. gap = Min(free)
    <3> HIDE DEF gap, free
    <3>1. gap <= Min(free) /\ Min(free) <= gap /\ gap \in Nat /\ Min(free) \in Nat
      BY <1>2, <2>2, <2>3, <2>4
    <3>2. QED
      BY <3>1
  <2>6. QED
    BY <2>1, <2>2, <2>5
<1>7. QED
  BY <1>5, <1>6

---------------------------------------------------------------------------
(* The three writes *)

TablesTyped ==
  /\ primaryArray \in Table /\ primaryCrc \in Table
  /\ backupArray \in Table /\ backupCrc \in Table
  /\ array \in Table

Grown ==
  /\ OneEntry(primaryCrc, primaryArray)
  /\ OneEntry(primaryCrc, backupArray) /\ OneEntry(primaryCrc, backupCrc)
  /\ OneEntry(primaryCrc, array)

(* The chunks before this one have been written. *)
Before(t) == \A i \in Index : (i - 1) \div PerChunk < chunk => t[i] = array[i]

Halves ==
  /\ stage = "idle" => primaryArray = primaryCrc \/ backupArray = backupCrc
  /\ stage \in {"backupArray", "backupHeader"} => primaryArray = primaryCrc
  /\ stage = "backupArray" => Before(backupArray)
  /\ stage = "backupHeader" => backupArray = array
  /\ stage = "primaryArray" => backupArray = array /\ backupCrc = array /\ Before(primaryArray)
  /\ stage # "idle" => array # primaryCrc

Kept ==
  \/ kept \subseteq Parts(primaryCrc)
  \/ /\ stage = "idle" /\ array # primaryCrc
     /\ primaryArray = array /\ backupArray = array /\ backupCrc = array
     /\ kept \subseteq Parts(array)

(* What mkpart is about to add is apart from what the table held. *)
AddsApart ==
  stage # "idle" /\ AllParsed(primaryCrc) /\ Apart(primaryCrc) => Apart(array)

GptIInv == GptTypeOK /\ Grown /\ Halves /\ Kept /\ AddsApart

(* An entry that is used is a partition in the usable range.               *)
LEMMA UsedSound ==
  ASSUME NEW e \in Entry, e.used
  PROVE  e \in Partition
<1>1. e # Free
  BY DEF Free
<1>2. QED
  BY <1>1 DEF Entry, Partition

(* What Parse sees are partitions of the table.                            *)
LEMMA ParsedSound ==
  ASSUME primaryArray \in Table
  PROVE  /\ Parsed \in SUBSET Partition /\ Parsed \subseteq Parts(primaryArray)
         /\ AllParsed(primaryArray) => Parsed = Parts(primaryArray)
<1>1. \A i \in Index : primaryArray[i].used => primaryArray[i] \in Partition
  BY UsedSound DEF Table
<1>2. ChunkOf(0) \subseteq Index
  BY DEF ChunkOf
<1>3. Parsed \in SUBSET Partition /\ Parsed \subseteq Parts(primaryArray)
  BY <1>1, <1>2 DEF Parsed, Parts
<1>4. AllParsed(primaryArray) => Parts(primaryArray) \subseteq Parsed
  BY DEF AllParsed, Parsed, Parts
<1>5. QED
  BY <1>3, <1>4

(* mkpart fills the first free entry of a table whose checksum is right,   *)
(* with a partition that is apart from those Parse has seen.               *)
LEMMA MkpartGives ==
  ASSUME TablesTyped, NEW need \in Needs, Mkpart(need)
  PROVE  /\ primaryArray = primaryCrc
         /\ array' \in Table /\ OneEntry(primaryCrc, array') /\ array' # primaryCrc
         /\ AllParsed(primaryCrc) /\ Apart(primaryCrc) => Apart(array')
<1> DEFINE start == FindGap(Parsed, need)
           new == Part(start, start + need - 1)
           m == Min(FreeIndexes)
<1>1. /\ start # -1
      /\ new.start >= FirstUsable /\ new.end <= LastUsable
      /\ \A p \in Parsed : ~Overlap(new, p)
      /\ primaryCrc = primaryArray
      /\ FreeIndexes # {}
      /\ array' = [primaryArray EXCEPT ![m] = new]
  BY DEF Mkpart, ArrayTrusted
<1>2. need \in Nat \ {0}
  BY NeedsSound
<1>3. new \in Partition
  <2>1. start \in Nat
    BY <1>1, <1>2, ParsedSound, FindGapTyped DEF TablesTyped
  <2> HIDE DEF start
  <2>2. start \in Lba /\ start + need - 1 \in Lba
    BY <1>1, <1>2, <2>1, Sizes DEF Lba, Part
  <2>3. QED
    BY <2>2 DEF Part, Partition
<1> HIDE DEF start
<1>4. m \in Index /\ ~primaryArray[m].used /\ \A j \in Index : ~primaryArray[j].used => m <= j
  <2>1. FreeIndexes \in SUBSET Nat
    BY SizeAssumption DEF FreeIndexes, Index
  <2>2. m \in FreeIndexes /\ \A j \in FreeIndexes : m <= j
    BY <1>1, <2>1, NatHasMin
  <2>3. QED
    BY <2>2 DEF FreeIndexes
<1>5. new.used /\ new \in Entry
  BY <1>3 DEF Part, Partition, Entry
<1> HIDE DEF new, m
<1>6. array' \in Table
  BY <1>1, <1>4, <1>5 DEF TablesTyped, Table
<1>7. array'[m] = new /\ \A i \in Index : i # m => array'[i] = primaryArray[i]
  BY <1>1, <1>4 DEF TablesTyped, Table
<1>8. OneEntry(primaryCrc, array') /\ array' # primaryCrc
  BY <1>1, <1>4, <1>5, <1>7 DEF OneEntry
<1>9. ASSUME AllParsed(primaryCrc), Apart(primaryCrc) PROVE Apart(array')
  <2>1. Parsed = Parts(primaryArray)
    BY <1>1, <1>9, ParsedSound DEF TablesTyped
  <2>2. \A i \in Index : primaryArray[i].used => ~Overlap(new, primaryArray[i]) /\ ~Overlap(primaryArray[i], new)
    BY <1>1, <2>1 DEF Parts, Overlap
  <2>3. QED
    BY <1>1, <1>4, <1>7, <1>9, <2>2 DEF Apart
<1>10. QED
  BY <1>1, <1>6, <1>8, <1>9

(* A write that is cut short anywhere leaves the array that was there or   *)
(* the one that was written.                                               *)
LEMMA WrittenSound ==
  ASSUME TablesTyped, NEW t \in Table, NEW S, OneEntry(primaryCrc, t), OneEntry(primaryCrc, array)
  PROVE  Written(t, S) \in {t, array}
BY Mixture DEF TablesTyped, Written

(* A chunk more of the array is written.                                   *)
LEMMA ChunkWritten ==
  ASSUME TablesTyped, chunk \in Chunks, NEW t \in Table, Before(t)
  PROVE  LET w == Written(t, ChunkOf(chunk)) IN
         /\ \A i \in Index : (i - 1) \div PerChunk < chunk + 1 => w[i] = array[i]
         /\ chunk + 1 \notin Chunks => w = array
<1> DEFINE w == Written(t, ChunkOf(chunk))
           d(i) == (i - 1) \div PerChunk
<1>1. Chunks \subseteq Nat /\ \A c \in Chunks : c <= chunk \/ chunk + 1 \in Chunks
  <2>1. NumEntries \div PerChunk \in Nat
    BY SizeAssumption, WholeUnits
  <2>2. QED
    BY <2>1 DEF Chunks
<1>2. ASSUME NEW i \in Index, d(i) < chunk + 1 PROVE w[i] = array[i]
  <2>1. d(i) \in Nat /\ chunk \in Nat
    BY <1>1, IndexInChunks
  <2>2. i \in ChunkOf(chunk) <=> d(i) = chunk
    BY DEF ChunkOf
  <2> HIDE DEF d
  <2>3. d(i) < chunk \/ d(i) = chunk
    BY <1>2, <2>1
  <2>4. CASE d(i) = chunk
    BY <2>2, <2>4 DEF Written
  <2>5. CASE d(i) < chunk
    BY <2>2, <2>5 DEF Written, Before, d
  <2>6. QED
    BY <2>3, <2>4, <2>5
<1>3. ASSUME chunk + 1 \notin Chunks PROVE w = array
  <2>1. \A i \in Index : d(i) < chunk + 1
    <3> SUFFICES ASSUME NEW i \in Index PROVE d(i) < chunk + 1
      OBVIOUS
    <3>1. d(i) \in Chunks
      BY IndexInChunks
    <3>2. \A c \in Chunks : c < chunk + 1
      <4>1. chunk \in Nat /\ \A c \in Chunks : c \in Nat /\ c <= chunk
        BY <1>1, <1>3
      <4>2. QED
        BY <4>1
    <3> HIDE DEF d
    <3>3. QED
      BY <3>1, <3>2
  <2>2. \A i \in Index : w[i] = array[i]
    BY <1>2, <2>1
  <2>3. QED
    BY <2>2 DEF Written, TablesTyped, Table
<1>4. QED
  BY <1>2, <1>3

(* The type invariant, table by table. *)
LEMMA TypeOKTables ==
  GptTypeOK <=> /\ TablesTyped
             /\ stage \in {"idle", "backupArray", "backupHeader", "primaryArray"}
             /\ chunk \in Chunks
             /\ faults \in 0 .. MaxFaults
             /\ \A p \in kept : p \in Entry
BY DEF GptTypeOK, TablesTyped, Table

(* The first chunk is one. *)
LEMMA ZeroIsChunk == 0 \in Chunks
<1>1. 1 \in Index /\ PerChunk \in Nat \ {0}
  BY SizeAssumption DEF Index
<1>2. (1 - 1) \div PerChunk = 0
  BY <1>1
<1>3. QED
  BY <1>1, <1>2, IndexInChunks

(* The partitions of a table are entries. *)
LEMMA PartsTyped ==
  ASSUME NEW t \in Table
  PROVE  \A p \in Parts(t) : p \in Entry
BY DEF Parts, Table

(* The table of the start is whole, in both copies. *)
LEMMA InitGptIInv == GptInit => GptIInv
<1> SUFFICES ASSUME GptInit PROVE GptIInv
  OBVIOUS
<1>1. primaryArray \in Table
  BY TablesAssumption DEF GptInit, Table
<1>2. GptTypeOK
  <2>1. TablesTyped
    BY <1>1 DEF GptInit, TablesTyped
  <2>2. \A p \in kept : p \in Entry
    BY <1>1, PartsTyped DEF GptInit
  <2>3. faults \in 0 .. MaxFaults
    BY SizeAssumption DEF GptInit
  <2>4. QED
    BY <2>1, <2>2, <2>3, ZeroIsChunk, TypeOKTables DEF GptInit
<1>3. Grown
  BY DEF GptInit, Grown, OneEntry
<1>4. Halves /\ Kept /\ AddsApart
  BY DEF GptInit, Halves, Kept, AddsApart
<1>5. QED
  BY <1>2, <1>3, <1>4 DEF GptIInv

(* The new array is in memory only; nothing of it is on the drive yet. *)
LEMMA MkpartKeeps ==
  ASSUME GptIInv, NEW need \in Needs, Mkpart(need)
  PROVE  GptIInv'
<1>1. TablesTyped /\ stage = "idle" /\ Grown /\ Kept
  BY TypeOKTables DEF GptIInv, Mkpart
<1>2. /\ primaryArray = primaryCrc
      /\ array' \in Table /\ OneEntry(primaryCrc, array') /\ array' # primaryCrc
      /\ AllParsed(primaryCrc) /\ Apart(primaryCrc) => Apart(array')
  BY <1>1, MkpartGives
<1>3. stage' = "backupArray" /\ chunk' = 0 /\ UNCHANGED <<disk, faults, kept>>
  BY DEF Mkpart
<1>4. GptTypeOK'
  BY <1>1, <1>2, <1>3, ZeroIsChunk, TypeOKTables DEF GptIInv, GptTypeOK, TablesTyped, Table, disk
<1>5. Grown'
  BY <1>1, <1>2, <1>3 DEF Grown, OneEntry, disk
<1>6. Halves'
  <2>1. \A i \in Index : ~((i - 1) \div PerChunk < 0)
    <3>1. \A c \in Chunks : ~(c < 0)
      BY DEF Chunks
    <3>2. QED
      BY <3>1, IndexInChunks
  <2>2. QED
    BY <1>2, <1>3, <2>1 DEF Halves, Before, disk
<1>7. Kept'
  BY <1>1, <1>2, <1>3 DEF Kept, Parts, disk
<1>8. AddsApart'
  BY <1>2, <1>3 DEF AddsApart, AllParsed, Apart, disk
<1>9. QED
  BY <1>4, <1>5, <1>6, <1>7, <1>8 DEF GptIInv

(* The backup array is the old one or the new one, the primary untouched. *)
LEMMA WriteBackupArrayKeeps ==
  ASSUME GptIInv, WriteBackupArray
  PROVE  GptIInv'
<1> DEFINE w == Written(backupArray, ChunkOf(chunk))
<1>1. /\ TablesTyped /\ stage = "backupArray" /\ Grown /\ Kept /\ AddsApart /\ Before(backupArray)
      /\ primaryArray = primaryCrc /\ array # primaryCrc /\ chunk \in Chunks
  BY TypeOKTables DEF GptIInv, WriteBackupArray, Halves
<1>2. /\ backupArray' = w
      /\ UNCHANGED <<primaryArray, primaryCrc, backupCrc, array, faults, kept>>
      /\ \/ chunk + 1 \in Chunks /\ chunk' = chunk + 1 /\ stage' = "backupArray"
         \/ chunk + 1 \notin Chunks /\ chunk' = 0 /\ stage' = "backupHeader"
  BY <1>1 DEF WriteBackupArray, NextChunk
<1>3. w \in {backupArray, array}
  BY <1>1, WrittenSound DEF TablesTyped, Grown
<1>4. /\ \A i \in Index : (i - 1) \div PerChunk < chunk + 1 => w[i] = array[i]
      /\ chunk + 1 \notin Chunks => w = array
  BY <1>1, ChunkWritten DEF TablesTyped
<1> HIDE DEF w
<1>5. GptTypeOK'
  <2>1. TablesTyped'
    BY <1>1, <1>2, <1>3 DEF TablesTyped
  <2>2. stage' \in {"idle", "backupArray", "backupHeader", "primaryArray"} /\ chunk' \in Chunks
    BY <1>2, ZeroIsChunk
  <2>3. QED
    BY <1>2, <2>1, <2>2 DEF GptIInv, GptTypeOK, TablesTyped, Table
<1>6. Grown'
  BY <1>1, <1>2, <1>3 DEF Grown, OneEntry
<1>7. Halves'
  BY <1>1, <1>2, <1>4 DEF Halves, Before
<1>8. Kept'
  BY <1>1, <1>2 DEF Kept, Parts
<1>9. AddsApart'
  BY <1>1, <1>2 DEF AddsApart, AllParsed, Apart
<1>10. QED
  BY <1>5, <1>6, <1>7, <1>8, <1>9 DEF GptIInv

(* From here on the backup copy is intact, and the new table. *)
LEMMA WriteBackupHeaderKeeps ==
  ASSUME GptIInv, WriteBackupHeader
  PROVE  GptIInv'
<1>1. /\ TablesTyped /\ stage = "backupHeader" /\ Grown /\ Kept /\ AddsApart
      /\ backupArray = array /\ primaryArray = primaryCrc /\ array # primaryCrc
  BY TypeOKTables DEF GptIInv, WriteBackupHeader, Halves
<1>2. /\ backupCrc' = array /\ stage' = "primaryArray" /\ chunk' = 0
      /\ UNCHANGED <<primaryArray, primaryCrc, backupArray, array, faults, kept>>
  BY DEF WriteBackupHeader
<1>3. GptTypeOK'
  BY <1>1, <1>2, ZeroIsChunk DEF GptIInv, GptTypeOK, TablesTyped, Table
<1>4. Grown'
  BY <1>1, <1>2 DEF Grown, OneEntry
<1>5. Halves'
  <2>1. \A i \in Index : ~((i - 1) \div PerChunk < 0)
    <3>1. \A c \in Chunks : ~(c < 0)
      BY DEF Chunks
    <3>2. QED
      BY <3>1, IndexInChunks
  <2>2. QED
    BY <1>1, <1>2, <2>1 DEF Halves, Before
<1>6. Kept'
  BY <1>1, <1>2 DEF Kept, Parts
<1>7. AddsApart'
  BY <1>1, <1>2 DEF AddsApart, AllParsed, Apart
<1>8. QED
  BY <1>3, <1>4, <1>5, <1>6, <1>7 DEF GptIInv

(* With its last chunk the primary array is the new one, and is reported. *)
LEMMA WritePrimaryArrayKeeps ==
  ASSUME GptIInv, WritePrimaryArray
  PROVE  GptIInv'
<1> DEFINE w == Written(primaryArray, ChunkOf(chunk))
<1>1. /\ TablesTyped /\ stage = "primaryArray" /\ Grown /\ Kept /\ AddsApart /\ Before(primaryArray)
      /\ backupArray = array /\ backupCrc = array /\ array # primaryCrc /\ chunk \in Chunks
  BY TypeOKTables DEF GptIInv, WritePrimaryArray, Halves
<1>2. /\ primaryArray' = w
      /\ UNCHANGED <<primaryCrc, backupArray, backupCrc, array, faults>>
      /\ \/ chunk + 1 \in Chunks /\ chunk' = chunk + 1 /\ stage' = "primaryArray" /\ kept' = kept
         \/ chunk + 1 \notin Chunks /\ chunk' = 0 /\ stage' = "idle" /\ kept' = kept \cup Parts(array)
  BY <1>1 DEF WritePrimaryArray, NextChunk
<1>3. w \in {primaryArray, array}
  BY <1>1, WrittenSound DEF TablesTyped, Grown
<1>4. /\ \A i \in Index : (i - 1) \div PerChunk < chunk + 1 => w[i] = array[i]
      /\ chunk + 1 \notin Chunks => w = array
  BY <1>1, ChunkWritten DEF TablesTyped
<1> HIDE DEF w
<1>5. kept \subseteq Parts(primaryCrc) /\ Parts(primaryCrc) \subseteq Parts(array)
  BY <1>1, PartsGrow DEF Kept, Grown, TablesTyped
<1>6. GptTypeOK'
  <2>1. TablesTyped'
    BY <1>1, <1>2, <1>3 DEF TablesTyped
  <2>2. stage' \in {"idle", "backupArray", "backupHeader", "primaryArray"} /\ chunk' \in Chunks
    BY <1>2, ZeroIsChunk
  <2>3. \A p \in kept' : p \in Entry
    BY <1>1, <1>2, PartsTyped DEF GptIInv, GptTypeOK, TablesTyped
  <2>4. QED
    BY <1>2, <2>1, <2>2, <2>3 DEF GptIInv, GptTypeOK, TablesTyped, Table
<1>7. Grown'
  BY <1>1, <1>2, <1>3 DEF Grown, OneEntry
<1>8. Halves'
  BY <1>1, <1>2, <1>4 DEF Halves, Before
<1>9. Kept'
  BY <1>1, <1>2, <1>4, <1>5 DEF Kept, Parts
<1>10. AddsApart'
  BY <1>1, <1>2 DEF AddsApart, AllParsed, Apart
<1>11. QED
  BY <1>6, <1>7, <1>8, <1>9, <1>10 DEF GptIInv

(* A write that fails touches one copy only; the other one is still right. *)
LEMMA WriteFailsKeeps ==
  ASSUME GptIInv, WriteFails
  PROVE  GptIInv'
<1>1. TablesTyped /\ stage # "idle" /\ Grown /\ Halves /\ Kept
  BY TypeOKTables DEF GptIInv, WriteFails
<1>2. stage' = "idle" /\ chunk' = 0 /\ UNCHANGED <<primaryCrc, array, kept>> /\ faults' \in 0 .. MaxFaults
  BY SizeAssumption DEF WriteFails, disk, GptIInv, GptTypeOK
<1>3. \/ UNCHANGED <<primaryArray, backupArray, backupCrc>>
      \/ stage = "backupHeader" /\ backupCrc' = array /\ UNCHANGED <<primaryArray, backupArray>>
      \/ stage = "backupArray" /\ backupArray' \in {backupArray, array} /\ UNCHANGED <<primaryArray, backupCrc>>
      \/ stage = "primaryArray" /\ primaryArray' \in {primaryArray, array} /\ UNCHANGED <<backupArray, backupCrc>>
  BY <1>1, WrittenSound DEF WriteFails, disk, TablesTyped, Grown
<1>4. GptTypeOK'
  <2>1. TablesTyped'
    BY <1>1, <1>2, <1>3 DEF TablesTyped
  <2>2. QED
    BY <1>2, <2>1, ZeroIsChunk DEF GptIInv, GptTypeOK, TablesTyped, Table
<1>5. Grown'
  BY <1>1, <1>2, <1>3 DEF Grown, OneEntry
<1>6. Halves'
  <2>1. CASE stage \in {"backupArray", "backupHeader"}
    <3>1. primaryArray' = primaryCrc
      BY <1>1, <1>3, <2>1 DEF Halves
    <3>2. QED
      BY <1>2, <3>1 DEF Halves
  <2>2. CASE stage = "primaryArray"
    <3>1. backupArray' = array /\ backupCrc' = array
      BY <1>1, <1>3, <2>2 DEF Halves
    <3>2. QED
      BY <1>2, <3>1 DEF Halves
  <2>3. QED
    BY <1>1, <2>1, <2>2 DEF GptIInv, GptTypeOK
<1>7. Kept' /\ AddsApart'
  BY <1>1, <1>2 DEF Kept, AddsApart, Parts
<1>8. QED
  BY <1>4, <1>5, <1>6, <1>7 DEF GptIInv

(* The invariant is inductive. *)
LEMMA NextGptIInv == GptIInv /\ [GptNext]_gptVars => GptIInv'
<1> SUFFICES ASSUME GptIInv, [GptNext]_gptVars PROVE GptIInv'
  OBVIOUS
<1>1. CASE UNCHANGED gptVars
  BY <1>1 DEF gptVars, disk, GptIInv, GptTypeOK, Grown, OneEntry, Halves, Before, Kept, Parts, AddsApart, AllParsed, Apart
<1>2. CASE GptNext
  BY <1>2, MkpartKeeps, WriteBackupArrayKeeps, WriteBackupHeaderKeeps, WritePrimaryArrayKeeps, WriteFailsKeeps DEF GptNext
<1>3. QED
  BY <1>1, <1>2

---------------------------------------------------------------------------
(* It holds at every step of mkpart. *)
LEMMA AlwaysIInv == GptSpec => []GptIInv
BY InitGptIInv, NextGptIInv, PTL DEF GptSpec

(* Every array is a table of entries of the usable range, whatever mkpart  *)
(* has put into it and wherever it was cut short.                          *)
THEOREM GptTypeCorrect == GptSpec => []GptTypeOK
<1>1. GptIInv => GptTypeOK
  BY DEF GptIInv
<1>2. QED
  BY <1>1, AlwaysIInv, PTL

(* Whatever write of mkpart fails, one copy of the table is intact, and an *)
(* intact copy has all that was there or was reported as created.          *)
THEOREM AlwaysRemembered == GptSpec => []NothingForgotten
<1>1. GptIInv => NothingForgotten
  <2> SUFFICES ASSUME GptIInv PROVE NothingForgotten
    OBVIOUS
  <2>1. TablesTyped /\ Grown /\ Halves /\ Kept
    BY TypeOKTables DEF GptIInv
  <2>2. stage \in {"idle", "backupArray", "backupHeader", "primaryArray"}
    BY DEF GptIInv, GptTypeOK
  <2>3. PrimaryIntact \/ BackupIntact
    BY <2>1, <2>2 DEF Halves, PrimaryIntact, BackupIntact
  <2>4. Parts(primaryCrc) \subseteq Parts(primaryArray) /\ Parts(primaryCrc) \subseteq Parts(backupArray)
    BY <2>1, PartsGrow DEF TablesTyped, Grown
  <2>5. (PrimaryIntact => kept \subseteq Parts(primaryArray)) /\ (BackupIntact => kept \subseteq Parts(backupArray))
    BY <2>1, <2>4 DEF Kept, PrimaryIntact
  <2>6. QED
    BY <2>3, <2>5 DEF NothingForgotten
<1>2. QED
  BY <1>1, AlwaysIInv, PTL

(* No step brings partitions that are apart into each other, in either     *)
(* copy of the table, if Parse sees all of them.                           *)
THEOREM StayApart == GptSpec => PartsApart
<1> DEFINE A == AllParsed(primaryArray) /\ Apart(primaryArray) /\ Apart(backupArray)
                  => Apart(primaryArray') /\ Apart(backupArray')
<1>1. GptIInv /\ [GptNext]_gptVars => [A]_gptVars
  <2> SUFFICES ASSUME GptIInv, GptNext, AllParsed(primaryArray), Apart(primaryArray), Apart(backupArray)
               PROVE  Apart(primaryArray') /\ Apart(backupArray')
    OBVIOUS
  <2>1. TablesTyped /\ Grown /\ Halves /\ AddsApart
    BY TypeOKTables DEF GptIInv
  <2>2. CASE \E need \in Needs : Mkpart(need)
    BY <2>2 DEF Mkpart, disk, Apart
  <2>3. CASE stage = "backupArray" /\ (WriteBackupArray \/ WriteFails)
    <3>1. Apart(array)
      BY <2>1, <2>3 DEF Halves, AddsApart
    <3>2. backupArray' \in {backupArray, array} /\ primaryArray' = primaryArray
      BY <2>1, <2>3, WrittenSound DEF WriteBackupArray, WriteFails, disk, TablesTyped, Grown
    <3>3. QED
      BY <3>1, <3>2 DEF Apart
  <2>4. CASE stage = "primaryArray" /\ (WritePrimaryArray \/ WriteFails)
    <3>1. Apart(array)
      BY <2>1, <2>4 DEF Halves
    <3>2. primaryArray' \in {primaryArray, array} /\ backupArray' = backupArray
      BY <2>1, <2>4, WrittenSound DEF WritePrimaryArray, WriteFails, disk, TablesTyped, Grown
    <3>3. QED
      BY <3>1, <3>2 DEF Apart
  <2>5. CASE stage = "backupHeader" /\ (WriteBackupHeader \/ WriteFails)
    BY <2>5 DEF WriteBackupHeader, WriteFails, disk, Apart
  <2>6. QED
    BY <2>2, <2>3, <2>4, <2>5 DEF GptNext, WriteBackupArray, WriteBackupHeader, WritePrimaryArray, WriteFails, GptIInv, GptTypeOK
<1>2. QED
  BY <1>1, AlwaysIInv, PTL DEF GptSpec, PartsApart

(* The entries that are used end where they start or later. *)
WellFormed(t) == \A i \in Index : t[i].used => t[i].start <= t[i].end

(* The drive is assumed to start with such a table ... *)
LEMMA InitWellFormed ==
  ASSUME \A t \in Tables : WellFormed(t), GptInit
  PROVE  WellFormed(primaryArray) /\ WellFormed(array)
BY DEF GptInit

(* ... and mkpart adds a partition like that. *)
LEMMA NextWellFormed ==
  ASSUME GptIInv, WellFormed(primaryArray), WellFormed(array), [GptNext]_gptVars
  PROVE  WellFormed(primaryArray') /\ WellFormed(array')
<1>1. TablesTyped
  BY TypeOKTables DEF GptIInv
<1>2. ASSUME NEW need \in Needs, Mkpart(need) PROVE WellFormed(array') /\ UNCHANGED primaryArray
  <2> DEFINE start == FindGap(Parsed, need)
             new == Part(start, start + need - 1)
             m == Min(FreeIndexes)
  <2>1. need \in Nat \ {0}
    BY NeedsSound
  <2>2. array' \in Table /\ array' = [primaryArray EXCEPT ![m] = new] /\ UNCHANGED primaryArray
    BY <1>1, <1>2, MkpartGives DEF Mkpart, disk
  <2>3. start \in Int
    BY <1>1, <2>1, ParsedSound, FindGapTyped DEF TablesTyped
  <2> HIDE DEF start
  <2>4. new.start <= new.end
    BY <2>1, <2>3 DEF Part
  <2> HIDE DEF new, m
  <2>5. QED
    BY <1>1, <2>2, <2>4 DEF WellFormed, TablesTyped, Table
<1>3. ASSUME NEW S, primaryArray' = Written(primaryArray, S), UNCHANGED array
      PROVE  WellFormed(primaryArray') /\ WellFormed(array')
  BY <1>3 DEF Written, WellFormed
<1>4. QED
  BY <1>2, <1>3 DEF GptNext, WriteBackupArray, WriteBackupHeader, WritePrimaryArray, WriteFails, disk, gptVars, WellFormed

(* mkpart and free are given what is really free, and mkpart the first of  *)
(* it, on a drive none of whose partitions ends before it starts.          *)
THEOREM AlwaysGapsRight ==
  ASSUME \A t \in Tables : WellFormed(t)
  PROVE  GptSpec => []GapsRight
<1> DEFINE WInv == WellFormed(primaryArray) /\ WellFormed(array)
<1>1. GptInit => WInv
  BY InitWellFormed
<1>2. GptIInv /\ WInv /\ [GptNext]_gptVars => WInv'
  BY NextWellFormed
<1>3. GptIInv /\ WInv => GapsRight
  <2> SUFFICES ASSUME GptIInv, WInv PROVE GapsRight
    OBVIOUS
  <2>1. /\ Parsed \in SUBSET Partition /\ Parsed \subseteq Parts(primaryArray)
        /\ AllParsed(primaryArray) => Parsed = Parts(primaryArray)
    BY ParsedSound, TypeOKTables DEF GptIInv, TablesTyped
  <2>2. \A p \in Parsed : p.start <= p.end
    BY <2>1 DEF WellFormed, Parts
  <2>3. GapIsFirstFit
    BY <2>1, <2>2, FirstFit DEF GapIsFirstFit
  <2>4. FreeIsUnallocated
    <3> SUFFICES ASSUME AllParsed(primaryArray), NEW l \in Limits(Parsed), Room(Parsed, l) > 0
                 PROVE  LET s == AlignUp(Cursor(Parsed, l))
                        IN  \A p \in Parts(primaryArray) : ~Overlap(Part(s, s + Room(Parsed, l) - 1), p)
      BY DEF FreeIsUnallocated
    <3>1. l \in Nat
      BY <2>1, LimitsSound, Sizes
    <3>2. Room(Parsed, l) \in Nat /\ Room(Parsed, l) <= Room(Parsed, l)
      BY <2>1, <3>1, RoomSound
    <3>3. \A p \in Parsed : ~Overlap(Part(AlignUp(Cursor(Parsed, l)), AlignUp(Cursor(Parsed, l)) + Room(Parsed, l) - 1), p)
      BY <2>1, <3>2, RoomIsFree
    <3>4. QED
      BY <2>1, <3>3
  <2>5. QED
    BY <2>3, <2>4 DEF GapsRight
<1>4. QED
  BY <1>1, <1>2, <1>3, AlwaysIInv, PTL DEF GptSpec

=============================================================================

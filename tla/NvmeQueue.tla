----------------------------- MODULE NvmeQueue ------------------------------
(***************************************************************************)
(* One NVMe queue pair (src/PCIe/storage/nvme.cc): the driver's side is    *)
(* Nvme::Submit, the controller's side is modelled from the use the driver *)
(* makes of it.                                                            *)
(*                                                                         *)
(* Submit copies a command into the submission ring, rings the doorbell    *)
(* and polls the phase bit of the completion entry at cqHead.  It gives up *)
(* after five seconds, and the caller's next Submit then starts with the   *)
(* unanswered command still in the controller's hands.                     *)
(*                                                                         *)
(* Commands are numbered in the order they are submitted; the number       *)
(* stands for the whole command, whose cid the driver writes and never     *)
(* looks at again.  The controller executes the commands it has fetched in *)
(* any order, and answers each with a status.                              *)
(***************************************************************************)
EXTENDS Integers, Sequences, FiniteSets

CONSTANTS
  Entries,      \* QUEUE_ENTRIES
  MaxCommands,  \* bound on the commands submitted
  MaxTimeouts   \* bound on the commands given up

ASSUME EntriesAssumption == Entries \in Nat /\ Entries > 1
ASSUME BoundAssumption == MaxCommands \in Nat /\ MaxTimeouts \in Nat

Ring == 0 .. Entries - 1

(* The entry behind entry i. *)
After(i) == (i + 1) % Entries
Flip(p) == 1 - p

VARIABLES
  (* the driver: NvmeQueue, and the call of Submit in progress *)
  sqTail, cqHead, phase,
  waiting,    \* Submit is polling
  last,       \* the completion whose status was returned last, if any
  (* the rings and the doorbells, in memory both sides see *)
  sq, cq, sqDoorbell, cqDoorbell,
  (* the controller *)
  devHead, devTail, devPhase,
  executing,  \* commands fetched and not yet answered
  submitted,  \* commands submitted
  timeouts,   \* commands given up
  answered    \* history: the commands that have been answered

driver == <<sqTail, cqHead, phase, waiting, last>>
shared == <<sq, cq, sqDoorbell, cqDoorbell>>
controller == <<devHead, devTail, devPhase, executing>>
counters == <<submitted, timeouts, answered>>
vars == <<driver, shared, controller, counters>>

Status == {"ok", "failed"}
Completion == [cmd: 1 .. MaxCommands, status: Status]

---------------------------------------------------------------------------
(* CreateIoQueues, and the same assignments of Init for the admin queue. *)
Init ==
  /\ sqTail = 0 /\ cqHead = 0 /\ phase = 1
  /\ waiting = FALSE
  /\ last = <<>>
  /\ sq = [i \in Ring |-> 0]
  /\ cq = [i \in Ring |-> [phase |-> 0, done |-> [cmd |-> 0, status |-> "ok"]]]
  /\ sqDoorbell = 0 /\ cqDoorbell = 0
  /\ devHead = 0 /\ devTail = 0 /\ devPhase = 1
  /\ executing = {}
  /\ submitted = 0 /\ timeouts = 0
  /\ answered = {}

(* Submit up to its polling loop. *)
Submit ==
  /\ ~waiting
  /\ submitted < MaxCommands
  /\ submitted' = submitted + 1
  /\ sq' = [sq EXCEPT ![sqTail] = submitted + 1]
  /\ sqTail' = After(sqTail)
  /\ sqDoorbell' = After(sqTail)
  /\ waiting' = TRUE
  /\ UNCHANGED <<cqHead, phase, last, cq, cqDoorbell, controller, timeouts, answered>>

(* Faulty variant of PhaseMatches: any entry with its phase bit set. *)
PhaseSet == cq[cqHead].phase = 1

(* The completion entry Submit looks at belongs to this lap of the ring. *)
PhaseMatches == cq[cqHead].phase = phase

(* Faulty variant of NextPhase: the phase is never inverted. *)
SamePhase == phase

(* The phase expected after the entry at cqHead. *)
NextPhase == IF After(cqHead) = 0 THEN Flip(phase) ELSE phase

(* The loop ends with a completion: Submit returns its status. *)
Poll ==
  /\ waiting
  /\ PhaseMatches
  /\ cqHead' = After(cqHead)
  /\ phase' = NextPhase
  /\ cqDoorbell' = After(cqHead)
  /\ waiting' = FALSE
  /\ last' = <<cq[cqHead].done>>
  /\ UNCHANGED <<sqTail, sq, cq, sqDoorbell, controller, counters>>

(* The loop ends at the deadline: Submit returns 0xFFFF. *)
TimeOut ==
  /\ waiting
  /\ ~PhaseMatches
  /\ timeouts < MaxTimeouts
  /\ timeouts' = timeouts + 1
  /\ waiting' = FALSE
  /\ UNCHANGED <<sqTail, cqHead, phase, last, shared, controller, submitted, answered>>

---------------------------------------------------------------------------
(* The controller takes a command from the submission ring. *)
Fetch ==
  /\ devHead # sqDoorbell
  /\ executing' = executing \cup {sq[devHead]}
  /\ devHead' = After(devHead)
  /\ UNCHANGED <<driver, shared, devTail, devPhase, counters>>

(* It posts a completion when there is room for one. *)
Complete(c, s) ==
  /\ c \in executing
  /\ After(devTail) # cqDoorbell
  /\ cq' = [cq EXCEPT ![devTail] = [phase |-> devPhase, done |-> [cmd |-> c, status |-> s]]]
  /\ devTail' = After(devTail)
  /\ devPhase' = IF After(devTail) = 0 THEN Flip(devPhase) ELSE devPhase
  /\ executing' = executing \ {c}
  /\ answered' = answered \cup {c}
  /\ UNCHANGED <<driver, sq, sqDoorbell, cqDoorbell, devHead, submitted, timeouts>>

Answer == \E c \in executing, s \in Status : Complete(c, s)

Done == submitted = MaxCommands /\ ~waiting /\ UNCHANGED vars

Next == Submit \/ Poll \/ TimeOut \/ Fetch \/ Answer \/ Done

Spec == Init /\ [][Next]_vars

(* A controller that goes on working, and a driver that goes on polling.   *)
FairSpec == Spec /\ WF_vars(Fetch) /\ WF_vars(Answer) /\ WF_vars(Poll)

---------------------------------------------------------------------------
(* Properties *)

TypeOK ==
  /\ {sqTail, cqHead, sqDoorbell, cqDoorbell, devHead, devTail} \subseteq Ring
  /\ {phase, devPhase} \subseteq {0, 1}
  /\ waiting \in BOOLEAN
  /\ last \in {<<>>} \cup {<<c>> : c \in Completion}
  /\ sq \in [Ring -> 0 .. MaxCommands]
  /\ cq \in [Ring -> [phase : {0, 1}, done : [cmd : 0 .. MaxCommands, status : Status]]]
  /\ executing \subseteq 1 .. submitted
  /\ answered \subseteq 1 .. submitted
  /\ submitted \in 0 .. MaxCommands
  /\ timeouts \in 0 .. MaxTimeouts

(* As long as no command was given up, the status Submit returns is the    *)
(* status of the command it submitted, though it compares no cid.          *)
OwnCompletion == ~waiting /\ submitted > 0 /\ timeouts = 0 => last[1].cmd = submitted

(* The phase bit tells a new completion from one of the lap before, on     *)
(* every lap: it matches exactly when the controller is ahead.             *)
PhaseSound == PhaseMatches <=> cqHead # devTail

(* The completions between cqHead and the first entry of the lap before. *)
Fresh(k) ==
  LET i == (cqHead + k) % Entries
  IN  cq[i].phase = IF cqHead + k < Entries THEN phase ELSE Flip(phase)
Pending == CHOOSE n \in 0 .. Entries - 1 :
             /\ \A k \in 0 .. n - 1 : Fresh(k)
             /\ n = Entries - 1 \/ ~Fresh(n)

Chan == [k \in 1 .. Pending |-> cq[(cqHead + k - 1) % Entries].done]

(* Read by its phase bits, the ring of completions is a channel: Submit    *)
(* takes each completion once, in the order the controller posted them,    *)
(* with or without commands given up in between.                           *)
Channel == INSTANCE CompletionChannel WITH
  Completions <- Completion, chan <- Chan, taken <- last

ImplementsChannel == Channel!Spec

(* With a controller that works, every call of Submit is answered, also    *)
(* after commands were given up, as long as the rings are not full of them. *)
SubmitReturns == waiting ~> (~waiting \/ timeouts >= Entries - 1)

=============================================================================

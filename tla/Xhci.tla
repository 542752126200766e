-------------------------------- MODULE Xhci --------------------------------
(***************************************************************************)
(* Driver and controller of USB (src/USB/XHCI.cc): taking the controller   *)
(* from the firmware, resetting it and its ports, and bringing up a        *)
(* keyboard.  The order is that of src/kernel.cc:125-160, which stands in  *)
(* a comment: nothing else says how the functions are meant to be called.  *)
(*                                                                         *)
(* Requests are transfer request blocks (TRBs) in three rings: of commands, *)
(* of the control endpoint and of the keyboard.  Answers come in one event *)
(* ring.  There are no indexes both sides know: who owns an entry is told  *)
(* by its cycle bit, whose meaning changes at the end of the ring.         *)
(*                                                                         *)
(* The controller is modelled from the use the driver makes of it.         *)
(***************************************************************************)
EXTENDS Integers, Sequences, FiniteSets

CONSTANTS
  RingTrbs,        \* XHCI_CMD_RING_TRBS, the length of all rings but one
  EventTrbs,       \* XHCI_EVENT_RING_TRBS
  MaxPorts,        \* maxPorts
  Usb3             \* ports whose portProtocol is 3, as WalkExtCaps finds them

ASSUME XhciAssumption ==
  /\ RingTrbs \in Nat /\ RingTrbs > 1 /\ EventTrbs \in Nat /\ EventTrbs > 1
  /\ MaxPorts \in Nat /\ Usb3 \subseteq 1 .. MaxPorts

VARIABLES
  stage,     \* what is done before anything is asked of a device, then "steps"
  hc,        \* legacy, command and status register of the controller
  port,      \* PORTSC of each port: the bits that are set
  next,      \* the port PowerPorts or ResetAllPorts looks at
  at,        \* the step of the bring-up, or Ended
  posted,    \* it has been posted and is waited for
  ring,      \* the three rings, with what each side knows of them
  event,     \* the event ring
  halted,    \* endpoints that stopped after an error
  report,    \* the keyboard has written hidReport
  got,       \* the last success: of which step, and what it really answered
  givenUp    \* steps that were given up

early == <<stage, hc, port, next>>
vars == <<early, at, posted, ring, event, halted, report, got, givenUp>>
steps == <<posted, ring, halted, report, got>>

---------------------------------------------------------------------------
(* The rings *)

Link == RingTrbs - 1

(* A ring as Zero and the lines behind it leave it. *)
NewRing ==
  [trb |-> [i \in 0 .. Link |-> [of |-> "link", last |-> FALSE, cycle |-> 0]],
   enqueue |-> 0, cycle |-> 1,       \* cmdEnqueue, cmdCycle
   dequeue |-> 0, expects |-> 1]     \* the controller's

(* PostCommand, PushEp0, QueueHidRead.  Whether there is room is not asked. *)
Pushed(r, of, last) ==
  LET put == [r EXCEPT !.trb[r.enqueue] = [of |-> of, last |-> last, cycle |-> r.cycle]]
  IN  IF r.enqueue + 1 = Link
      THEN [put EXCEPT !.trb[Link].cycle = r.cycle, !.enqueue = 0, !.cycle = 1 - r.cycle]
      ELSE [put EXCEPT !.enqueue = @ + 1]

(* The controller goes over a link that is its own, and toggles. *)
Followed(r) ==
  IF r.dequeue = Link /\ r.trb[Link].cycle = r.expects
  THEN [r EXCEPT !.dequeue = 0, !.expects = 1 - @]
  ELSE r
Ready(r) == Followed(r).dequeue # Link /\ Followed(r).trb[Followed(r).dequeue].cycle = Followed(r).expects
First(r) == Followed(r).trb[Followed(r).dequeue]
Advanced(r) == [Followed(r) EXCEPT !.dequeue = @ + 1]

NewEvents ==
  [trb |-> [i \in 0 .. EventTrbs - 1 |-> [kind |-> "none", of |-> "none", ok |-> FALSE, cycle |-> 0]],
   enqueue |-> 0, writes |-> 1,      \* the controller's
   dequeue |-> 0, cycle |-> 1,       \* eventDequeue, eventCycle
   erdp |-> 0]                       \* ERDP

Wraps(i) == i + 1 = EventTrbs
Room(e) == (e.enqueue + 1) % EventTrbs # e.erdp
Sent(e, kind, of, ok) ==
  [e EXCEPT !.trb[e.enqueue] = [kind |-> kind, of |-> of, ok |-> ok, cycle |-> e.writes],
            !.enqueue = (@ + 1) % EventTrbs,
            !.writes = IF Wraps(e.enqueue) THEN 1 - @ ELSE @]

(* Faulty variant of Polled: the cycle is only inverted in the second entry. *)
PolledLate(e) ==
  LET behind == (e.dequeue + 1) % EventTrbs
  IN  [e EXCEPT !.dequeue = behind, !.erdp = behind, !.cycle = IF e.dequeue = 0 THEN 1 - @ ELSE @]

(* PollEvent, when there is an event: the next entry is told to the         *)
(* controller.                                                              *)
Visible(e) == e.trb[e.dequeue].cycle = e.cycle
Polled(e) ==
  LET behind == (e.dequeue + 1) % EventTrbs
  IN  [e EXCEPT !.dequeue = behind, !.erdp = behind,
                !.cycle = IF Wraps(e.dequeue) THEN 1 - @ ELSE @]

---------------------------------------------------------------------------
(* The order of the steps.  A control transfer is two or three TRBs, of    *)
(* which the last makes the event.                                         *)

Step(name, in, trbs) == [name |-> name, in |-> in, trbs |-> trbs]
Order ==
  <<Step("EnableSlot", "cmd", 1), Step("AddressDevive", "cmd", 1),
    Step("DeviceDescriptor8", "ep0", 3), Step("EvaluateContext", "cmd", 1),
    Step("DeviceDescriptor18", "ep0", 3), Step("ConfigDescriptor9", "ep0", 3),
    Step("EmptyDescriptor", "ep0", 2), Step("ConfigDescriptor", "ep0", 3),
    Step("SetConfiguration", "ep0", 2),
    Step("SetProtocol", "ep0", 2), Step("SetIdle", "ep0", 2),
    Step("ConfigureHidEndpoint", "cmd", 1), Step("HidRead", "hid", 1)>>
Ended == Len(Order) + 1
Now == Order[at]

---------------------------------------------------------------------------
(* Taking over the controller *)

Ports == 1 .. MaxPorts
Steps(from, to) == stage = from /\ stage' = to /\ UNCHANGED <<at, event, givenUp, steps>>

(* What each of the polling loops waits for. *)
Waited ==
  CASE stage = "owning" -> ~hc.bios
    [] stage = "halting" -> hc.hch
    [] stage = "resetting" -> ~hc.rst /\ ~hc.cnr
    [] stage = "starting" -> ~hc.hch
    [] stage = "port" -> "PRC" \in port[next]
    [] OTHER -> TRUE

(* There may be no legacy capability. *)
TakeOwnership ==
  /\ \/ Steps("own", "halt") /\ UNCHANGED hc
     \/ Steps("own", "owning") /\ hc' = [hc EXCEPT !.os = TRUE]
  /\ UNCHANGED <<port, next>>

HaltController ==
  /\ IF hc.hch THEN Steps("halt", "reset") /\ UNCHANGED hc
     ELSE Steps("halt", "halting") /\ hc' = [hc EXCEPT !.rs = FALSE]
  /\ UNCHANGED <<port, next>>

ResetController ==
  /\ Steps("reset", "resetting") /\ hc' = [hc EXCEPT !.rst = TRUE]
  /\ UNCHANGED <<port, next>>

StartController ==
  /\ Steps("start", "starting") /\ hc' = [hc EXCEPT !.rs = TRUE]
  /\ UNCHANGED <<port, next>>

Waits == {<<"owning", "halt">>, <<"halting", "reset">>, <<"resetting", "start">>, <<"starting", "power">>}
WaitEnds ==
  /\ Waited /\ \E w \in Waits : Steps(w[1], w[2])
  /\ UNCHANGED <<hc, port, next>>

(* Every deadline but that of a port ends the bring-up. *)
GivesUp(loop) == stage' = "steps" /\ at' = Ended

Deadline ==
  /\ ~Waited /\ stage # "port" /\ GivesUp(stage)
  /\ UNCHANGED <<hc, port, next, event, givenUp, steps>>

---------------------------------------------------------------------------
(* Ports *)

(* Faulty variant of Kept: it writes back the bit that says enabled. *)
KeptEnabled(sc) == sc \ {"CSC", "PRC"}

(* sc & ~XHCI_PORTSC_RW1C: writing such a bit clears it. *)
Kept(sc) == sc \ {"PED", "CSC", "PRC"}

(* A register in which 1 clears PED and the change bits, PP is what was     *)
(* written, and PR starts a reset, during which the port is not enabled.    *)
Written(sc, value) ==
  LET left == (sc \ ({"PP"} \cup (value \cap {"PED", "CSC", "PRC"}))) \cup (value \cap {"PP"})
  IN  IF "PR" \in value THEN (left \ {"PED"}) \cup {"PR"} ELSE left

(* PowerPorts: the next port. *)
PowerPorts ==
  /\ next <= MaxPorts /\ Steps("power", "power") /\ next' = next + 1
  /\ port' = IF "PP" \in port[next] THEN port ELSE [port EXCEPT ![next] = Written(@, Kept(@) \cup {"PP"})]
  /\ UNCHANGED hc

PowerDone ==
  /\ next > MaxPorts /\ Steps("power", "ports") /\ next' = 1
  /\ UNCHANGED <<hc, port>>

(* ResetAllPorts: the next port; ResetPort up to its loop. *)
ResetPort ==
  /\ next <= MaxPorts
  /\ IF "CCS" \in port[next] /\ next \notin Usb3
     THEN /\ Steps("ports", "port") /\ UNCHANGED next
          /\ port' = [port EXCEPT ![next] = Written(@, Kept(@) \cup {"PR"})]
     ELSE Steps("ports", "ports") /\ next' = next + 1 /\ UNCHANGED port
  /\ UNCHANGED hc

PortReset ==
  /\ Waited /\ Steps("port", "ports") /\ next' = next + 1
  /\ port' = [port EXCEPT ![next] = Written(@, Kept(@) \cup {"PRC", "CSC"})]
  /\ UNCHANGED hc

(* A reset that is given up. *)
PortTimeOut ==
  /\ ~Waited /\ Steps("port", "ports") /\ next' = next + 1
  /\ UNCHANGED <<hc, port>>

PortsDone ==
  /\ next > MaxPorts /\ Steps("ports", "steps")
  /\ UNCHANGED <<hc, port, next>>

---------------------------------------------------------------------------
(* The steps *)

(* Those that allocate first. *)
Allocates == {"AddressDevive", "DeviceDescriptor8", "ConfigDescriptor9", "ConfigureHidEndpoint"}

(* PushEp0 for each stage. *)
PushedAll(r, s) ==
  CASE s.trbs = 1 -> Pushed(r, s.name, TRUE)
    [] s.trbs = 2 -> Pushed(Pushed(r, s.name, FALSE), s.name, TRUE)
    [] s.trbs = 3 -> Pushed(Pushed(Pushed(r, s.name, FALSE), s.name, FALSE), s.name, TRUE)

Idle == stage = "steps" /\ at # Ended /\ ~posted
Enabled == {p \in Ports : {"CCS", "PED"} \subseteq port[p]}

(* A function asks the device for a step: up to its doorbell. *)
Asks(name) ==
  /\ Idle /\ Now.name = name
  /\ ring' = [ring EXCEPT ![Now.in] = PushedAll(@, Now)]
  /\ posted' = TRUE
  /\ UNCHANGED <<early, at, event, halted, report, got, givenUp>>

EnableSlot == Asks("EnableSlot")
AddressDevive == Enabled # {} /\ Asks("AddressDevive")
GetDeviceDescriptor == Asks("DeviceDescriptor8") \/ Asks("DeviceDescriptor18")
EvaluateContext == Asks("EvaluateContext")
(* A configuration of length 0 is asked for too, without a data stage. *)
GetConfigDescriptor == Asks("ConfigDescriptor9") \/ Asks("EmptyDescriptor") \/ Asks("ConfigDescriptor")
SetConfiguration == Asks("SetConfiguration")
SetBootProtocol == Asks("SetProtocol") \/ Asks("SetIdle")
ConfigureHidEndpoint == Asks("ConfigureHidEndpoint")
QueueHidRead == Asks("HidRead")

Asked ==
  \/ EnableSlot \/ AddressDevive \/ GetDeviceDescriptor \/ EvaluateContext \/ GetConfigDescriptor
  \/ SetConfiguration \/ SetBootProtocol \/ ConfigureHidEndpoint \/ QueueHidRead

(* There is no memory; or FirstEnabledPort finds none. *)
NotPosted ==
  /\ \/ Idle /\ Now.name \in Allocates /\ stage' = stage
     \/ Idle /\ Now.name = "AddressDevive" /\ Enabled = {} /\ stage' = stage
     \/ stage = "start" /\ stage' = "steps"
  /\ at' = Ended
  /\ UNCHANGED <<hc, port, next, event, givenUp, steps>>

(* SetBootProtocol does not ask what became of SET_IDLE. *)
Required(name) == name # "SetIdle"

(* The packet size may be right without EvaluateContext; the configuration *)
(* may have a length of 0, or no keyboard in it.                           *)
After(ok) ==
  CASE ~ok /\ Required(Now.name) -> {Ended}
    [] ok /\ Now.name \in {"DeviceDescriptor8", "ConfigDescriptor9"} -> {at + 1, at + 2}
    [] Now.name = "EmptyDescriptor" -> {Ended}
    [] ok /\ Now.name = "ConfigDescriptor" -> {at + 1, Ended}
    [] OTHER -> {at + 1}

Kind == IF Now.in = "cmd" THEN "command" ELSE "transfer"

(* Faulty variant of Answers: the type of the event is not looked at. *)
AnswersAny(e) == TRUE

Answers(e) == e.kind = Kind

(* The loops of WaitCommand, ControlIn, ControlOut and PollHidReport take  *)
(* the first event of their kind, whatever it answers.                     *)
Poll ==
  /\ posted /\ Visible(event)
  /\ event' = Polled(event)
  /\ LET e == event.trb[event.dequeue] IN
     IF Answers(e)
     THEN /\ at' \in After(e.ok) /\ posted' = FALSE
          /\ got' = IF e.ok THEN [step |-> Now.name, of |-> e.of] ELSE got
          (* the next report is asked for *)
          /\ ring' = IF e.ok /\ Now.name = "HidRead"
                     THEN [ring EXCEPT !["hid"] = Pushed(@, "HidRead", TRUE)] ELSE ring
     ELSE UNCHANGED <<at, posted, got, ring>>
  /\ UNCHANGED <<early, halted, report, givenUp>>

(* Faulty variant of Patient: it waits for as long as it takes. *)
PatientForEver(e) == TRUE

(* The deadline is looked at whenever no event is there. *)
Patient(e) == Visible(e)

TimeOut ==
  /\ posted /\ ~Patient(event)
  /\ at' \in After(FALSE) /\ posted' = FALSE
  /\ givenUp' = givenUp \cup {Now.name}
  /\ UNCHANGED <<early, ring, event, halted, report, got>>

---------------------------------------------------------------------------
(* The controller *)

(* A TRB is executed.  An endpoint stops at an error; a stage of a control *)
(* transfer before the last makes no event unless it fails.                *)
Execute(q) ==
  /\ Ready(ring[q]) /\ q \notin halted
  /\ ring' = [ring EXCEPT ![q] = Advanced(@)]
  /\ \E ok \in BOOLEAN :
       /\ IF ok /\ ~First(ring[q]).last THEN event' = event
          ELSE Room(event) /\ event' = Sent(event, IF q = "cmd" THEN "command" ELSE "transfer", First(ring[q]).of, ok)
       /\ halted' = IF ok \/ q = "cmd" THEN halted ELSE halted \cup {q}
       /\ report' = (report \/ (ok /\ q = "hid"))
  /\ UNCHANGED <<early, at, posted, got, givenUp>>

(* What a port tells goes through the event ring, once the controller runs. *)
Tells == IF hc.hch THEN event' = event ELSE Room(event) /\ event' = Sent(event, "port", "port", TRUE)

(* What a device sets in a port with power.  A port for USB 3 enables itself. *)
Plugged(p) == {"CCS", "CSC"} \cup (IF p \in Usb3 THEN {"PED"} ELSE {})

(* A device comes or goes. *)
PortChange(p) ==
  /\ "PP" \in port[p]
  /\ port' = [port EXCEPT ![p] =
       IF "CCS" \in @ THEN (@ \ {"CCS", "PED"}) \cup {"CSC"}
       ELSE @ \cup Plugged(p)]
  /\ Tells
  /\ UNCHANGED <<stage, hc, next, at, givenUp, steps>>

PortResets(p) ==
  /\ "PR" \in port[p]
  /\ port' = [port EXCEPT ![p] = (@ \ {"PR"}) \cup {"PRC"} \cup (IF "CCS" \in @ THEN {"PED"} ELSE {})]
  /\ Tells
  /\ UNCHANGED <<stage, hc, next, at, givenUp, steps>>

(* The firmware lets go; the controller halts, resets, becomes ready, runs. *)
Turns ==
  /\ \/ hc.bios /\ hc.os /\ hc' = [hc EXCEPT !.bios = FALSE]
     \/ ~hc.rs /\ ~hc.hch /\ hc' = [hc EXCEPT !.hch = TRUE]
     \/ hc.rst /\ hc' = [hc EXCEPT !.rst = FALSE, !.cnr = TRUE]
     \/ hc.cnr /\ hc' = [hc EXCEPT !.cnr = FALSE]
     \/ hc.rs /\ hc.hch /\ ~hc.rst /\ ~hc.cnr /\ hc' = [hc EXCEPT !.hch = FALSE]
  /\ UNCHANGED <<stage, port, next, at, event, givenUp, steps>>

Rings == {"cmd", "ep0", "hid"}

(* The rings as StartController and later steps make them. *)
Init ==
  /\ stage = "own" /\ next = 1
  /\ \E bios, runs \in BOOLEAN :
       hc = [bios |-> bios, os |-> FALSE, rs |-> runs, hch |-> ~runs, rst |-> FALSE, cnr |-> FALSE]
  /\ port \in {f \in [Ports -> SUBSET {"PP", "CCS", "CSC", "PED"}] :
               \A p \in Ports : f[p] \in {{}, {"PP"}, {"PP"} \cup Plugged(p)}}
  /\ at = 1 /\ posted = FALSE
  /\ ring = [q \in Rings |-> NewRing] /\ event = NewEvents
  /\ halted = {} /\ report = FALSE /\ givenUp = {}
  /\ got = [step |-> "none", of |-> "none"]

Driver ==
  \/ TakeOwnership \/ HaltController \/ ResetController \/ StartController \/ WaitEnds \/ Deadline
  \/ PowerPorts \/ PowerDone \/ ResetPort \/ PortReset \/ PortTimeOut \/ PortsDone
  \/ Asked \/ NotPosted \/ Poll \/ TimeOut
Quiet == at = Ended /\ UNCHANGED vars
Next == Driver \/ (\E q \in Rings : Execute(q)) \/ (\E p \in Ports : PortChange(p) \/ PortResets(p)) \/ Turns \/ Quiet

Spec == Init /\ [][Next]_vars

(* Nothing else runs on the processor; the controller may be dead. *)
FairSpec == Spec /\ WF_vars(Driver)

---------------------------------------------------------------------------
Indexes == 0 .. Link - 1
TypeOK ==
  /\ at \in 1 .. Ended /\ posted \in BOOLEAN /\ next \in 1 .. MaxPorts + 1
  /\ \A q \in Rings : ring[q].enqueue \in Indexes /\ ring[q].dequeue \in 0 .. Link
  /\ event.dequeue \in 0 .. EventTrbs - 1 /\ event.enqueue \in 0 .. EventTrbs - 1
  /\ halted \subseteq {"ep0", "hid"}

(* No function returns the success of a TRB that is not its own, and no    *)
(* report is read that the keyboard did not write, although no event is    *)
(* asked what it answers: a bring-up that gave something up ends.  The     *)
(* exception is SET_IDLE, whose late answer passes for a report.           *)
AnswersOwn ==
  /\ TypeOK
  /\ \/ "SetIdle" \in givenUp
     \/ got.of = got.step /\ (got.step = "HidRead" => report)

(* What a side sees of a ring: the entries in front of it that are its own. *)
Spot(r, k) == (r.dequeue + k) % Link
Owned(r, k) ==
  IF r.dequeue + k < Link THEN r.trb[r.dequeue + k].cycle = r.expects
  ELSE r.trb[Link].cycle = r.expects /\ r.trb[Spot(r, k)].cycle = 1 - r.expects
Pending(r) ==
  LET f == Followed(r)
      n == CHOOSE k \in 0 .. Link : (k = Link \/ ~Owned(f, k)) /\ \A j \in 0 .. k - 1 : Owned(f, j)
  IN  [k \in 1 .. n |-> <<f.trb[Spot(f, k - 1)].of, f.trb[Spot(f, k - 1)].last>>]

Unread(e) ==
  LET spot(k) == (e.dequeue + k) % EventTrbs
      owned(k) == e.trb[spot(k)].cycle = IF e.dequeue + k < EventTrbs THEN e.cycle ELSE 1 - e.cycle
      n == CHOOSE k \in 0 .. EventTrbs : (k = EventTrbs \/ ~owned(k)) /\ \A j \in 0 .. k - 1 : owned(j)
  IN  [k \in 1 .. n |-> <<e.trb[spot(k - 1)].kind, e.trb[spot(k - 1)].of, e.trb[spot(k - 1)].ok>>]

Queued == INSTANCE TrbQueues WITH
  Queues <- Rings \cup {"event"}, AtMost <- 3, waits <- posted,
  queue <- [q \in Rings \cup {"event"} |-> IF q = "event" THEN Unread(event) ELSE Pending(ring[q])]

(* Every ring is a queue: no entry is seen twice, lost, out of order or     *)
(* before it is written, however often the rings wrap.                      *)
RingsAreQueues == Queued!Spec

(* Changing a bit of a port's register does not disable the port: what was *)
(* read is not all written back.                                           *)
PortsStayEnabled ==
  [][\A p \in Ports : ("PED" \in port[p] /\ "PED" \notin port'[p]) =>
       ("PR" \in port'[p] \/ "CCS" \notin port'[p])]_vars

(* The bring-up ends, even if the controller is dead: every loop that      *)
(* waits has a deadline.  The exception is a stream of events without end: *)
(* WaitCommand, ControlIn, ControlOut and PollHidReport look at theirs     *)
(* only when there is no event, and take the events of other kinds first.  *)
Streams == \E p \in Ports : PortChange(p)
BringUpEnds == []<><<Streams>>_vars \/ <>(at = Ended)

=============================================================================

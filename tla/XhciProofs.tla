----------------------------- MODULE XhciProofs -----------------------------
(***************************************************************************)
(* Proofs about Xhci, for rings of any length that has room for what one   *)
(* step asks, any number of ports and any number of changes at them.       *)
(*                                                                         *)
(* RingShape and EventShape say what the cycle bits of a ring are, seen    *)
(* from both of its sides.  With them every ring is counted (Count,        *)
(* Unseen) and its entries are numbered from the front (Item, Told), and   *)
(* what the driver and the controller do to it is said in these numbers.   *)
(* CommandTurn, TransferTurn and HidTurn say where the request of the step *)
(* under way can be, or its answer.                                        *)
(***************************************************************************)
EXTENDS Xhci, SequenceTheorems, FiniteSetTheorems, TLAPS

USE XhciAssumption

---------------------------------------------------------------------------
(* The inductive invariant *)

Bits == {"PP", "CCS", "CSC", "PED", "PR", "PRC"}
Bit == {0, 1}

(* What a request can be one of, and what an event can be an answer to. *)
Called == {Order[k].name : k \in 1 .. 13} \cup {"none", "link", "port"}

Trb == [of : Called, last : BOOLEAN, cycle : Bit]
Ring == [trb : [0 .. Link -> Trb], enqueue : 0 .. Link - 1, cycle : Bit,
         dequeue : 0 .. Link, expects : Bit]

Place == 0 .. EventTrbs - 1
Event == [kind : {"none", "command", "transfer", "port"}, of : Called, ok : BOOLEAN, cycle : Bit]
Events == [trb : [Place -> Event], enqueue : Place, writes : Bit,
           dequeue : Place, cycle : Bit, erdp : Place]

Typed ==
  /\ at \in 1 .. Ended /\ posted \in BOOLEAN /\ next \in 1 .. MaxPorts + 1
  /\ port \in [Ports -> SUBSET Bits]
  /\ ring \in [Rings -> Ring] /\ event \in Events
  /\ halted \subseteq {"ep0", "hid"} /\ report \in BOOLEAN
  /\ stage # "steps" => at = 1 /\ ~posted
  /\ stage = "port" => next \in Ports
  /\ posted => at # Ended

(* The entries the driver has written on this lap carry its cycle bit, the *)
(* others and the link the opposite one; the controller is behind it on    *)
(* the same lap, or in front of it on the lap before.                      *)
RingShape(r) ==
  /\ \A i \in 0 .. Link : r.trb[i].cycle = IF i < r.enqueue THEN r.cycle ELSE 1 - r.cycle
  /\ \/ r.expects = r.cycle /\ r.dequeue <= r.enqueue
     \/ r.expects = 1 - r.cycle /\ r.enqueue <= r.dequeue

(* How many entries the controller has not taken yet, and which they are.  *)
Count(r) == IF r.expects = r.cycle THEN r.enqueue - r.dequeue ELSE r.enqueue + Link - r.dequeue
Item(r, k) == Followed(r).trb[Spot(Followed(r), k)]

(* The same of the event ring, which the controller writes. *)
EventShape(e) ==
  /\ e.erdp = e.dequeue
  /\ \A i \in Place : e.trb[i].cycle = IF i < e.enqueue THEN e.writes ELSE 1 - e.writes
  /\ \/ e.writes = e.cycle /\ e.dequeue <= e.enqueue
     \/ e.writes = 1 - e.cycle /\ e.enqueue < e.dequeue
Unseen(e) == IF e.writes = e.cycle THEN e.enqueue - e.dequeue ELSE e.enqueue + EventTrbs - e.dequeue
Told(e, k) == e.trb[(e.dequeue + k) % EventTrbs]

(* No event of a kind is waiting to be seen; or one, and no other. *)
None(e, kind) == \A k \in 0 .. Unseen(e) - 1 : Told(e, k).kind # kind
Only(e, kind, j) ==
  /\ j \in 0 .. Unseen(e) - 1
  /\ \A k \in 0 .. Unseen(e) - 1 : Told(e, k).kind = kind <=> k = j

KindOf(q) == IF q = "cmd" THEN "command" ELSE "transfer"
Under(q) == posted /\ Now.in = q

(* The request of the step under way is with the controller ... *)
Waiting(q) ==
  /\ q \notin halted
  /\ Count(ring[q]) \in 1 .. Now.trbs
  /\ \A k \in 0 .. Count(ring[q]) - 1 :
       /\ Item(ring[q], k).of = Now.name
       /\ Item(ring[q], k).last <=> k = Count(ring[q]) - 1
  /\ None(event, KindOf(q))

(* ... or has been answered, and nothing else has. *)
Answered(q) ==
  /\ Count(ring[q]) = 0 \/ q \in halted
  /\ \E j \in 0 .. Unseen(event) - 1 :
       /\ Only(event, KindOf(q), j)
       /\ Told(event, j).of = Now.name
       /\ Told(event, j).ok => q \notin halted /\ (q = "hid" => report)

CommandTurn ==
  at # Ended =>
    IF Under("cmd") THEN Waiting("cmd") \/ Answered("cmd")
    ELSE Count(ring["cmd"]) = 0 /\ None(event, "command")

(* The keyboard's ring is used by the last step only. *)
HidTurn ==
  at # Ended =>
    IF Under("hid") THEN Count(ring["hid"]) <= 1
    ELSE Count(ring["hid"]) = 0 /\ "hid" \notin halted

(* The numbers of SET_IDLE, the last control transfer, and of HidRead. *)
SetIdle == 11
HidRead == 13

(* Events of transfers, until SET_IDLE was given up.  It may fail and leave *)
(* the control endpoint stopped with a part of it, which nobody asks for   *)
(* any more.                                                               *)
TransferTurn ==
  at # Ended /\ "SetIdle" \notin givenUp =>
    IF Under("ep0") THEN Waiting("ep0") \/ Answered("ep0")
    ELSE /\ "ep0" \in halted => at > SetIdle
         /\ "ep0" \notin halted => Count(ring["ep0"]) = 0
         /\ IF Under("hid") THEN Waiting("hid") \/ Answered("hid")
            ELSE None(event, "transfer")

(* It is only given up when its turn has come. *)
IdleGivenUp == "SetIdle" \in givenUp => at > SetIdle

Few == \A q \in Rings : Count(ring[q]) <= 3

Own ==
  \/ "SetIdle" \in givenUp
  \/ got.of = got.step /\ (got.step = "HidRead" => report)

Shapes == (\A q \in Rings : RingShape(ring[q])) /\ EventShape(event)

IInv ==
  /\ Typed /\ Shapes
  /\ CommandTurn /\ HidTurn /\ TransferTurn /\ IdleGivenUp /\ Few
  /\ Own

---------------------------------------------------------------------------
(* The rings of requests *)

LEMMA Sizes ==
  /\ Link \in Nat \ {0} /\ EventTrbs \in Nat /\ EventTrbs > 1 /\ MaxPorts \in Nat
BY DEF Link

(* The fields of a ring. *)
LEMMA RingTyped ==
  ASSUME NEW r \in Ring
  PROVE  /\ r.trb \in [0 .. Link -> Trb] /\ r.enqueue \in 0 .. Link - 1 /\ r.dequeue \in 0 .. Link
         /\ r.cycle \in Bit /\ r.expects \in Bit
         /\ r.enqueue \in Nat /\ r.dequeue \in Nat /\ r.enqueue < Link /\ r.dequeue <= Link
         /\ Link \in Nat \ {0}
BY Sizes DEF Ring

(* Entries are found without a division. *)
LEMMA SpotSound ==
  ASSUME NEW r \in Ring, r.dequeue # Link, NEW k \in 0 .. Link
  PROVE  /\ Spot(r, k) \in 0 .. Link - 1
         /\ Spot(r, k) = IF r.dequeue + k < Link THEN r.dequeue + k ELSE r.dequeue + k - Link
<1> DEFINE d == r.dequeue
<1>1. d \in 0 .. Link - 1 /\ Link \in Nat \ {0}
  BY RingTyped
<1> HIDE DEF d
<1>2. (d + k) % Link = IF d + k < Link THEN d + k ELSE d + k - Link
  BY <1>1
<1>3. (d + k) % Link \in 0 .. Link - 1
  BY <1>1
<1>4. QED
  BY <1>2, <1>3 DEF Spot, d

(* A controller that has come to the link is on the lap behind, so the     *)
(* link is its own.                                                        *)
LEMMA FollowedSound ==
  ASSUME NEW r \in Ring, RingShape(r)
  PROVE  /\ Followed(r) \in Ring /\ RingShape(Followed(r))
         /\ Followed(r).dequeue # Link
         /\ Followed(r).trb = r.trb /\ Followed(r).enqueue = r.enqueue /\ Followed(r).cycle = r.cycle
         /\ Count(Followed(r)) = Count(r) /\ Count(r) \in 0 .. Link
         /\ Followed(Followed(r)) = Followed(r)
<1>1. /\ r.enqueue \in 0 .. Link - 1 /\ r.dequeue \in 0 .. Link
      /\ r.cycle \in Bit /\ r.expects \in Bit /\ Link \in Nat \ {0}
  BY RingTyped
<1>2. Count(r) \in 0 .. Link
  BY <1>1 DEF RingShape, Count, Bit
<1>3. CASE r.dequeue # Link
  <2>1. Followed(r) = r
    BY <1>3 DEF Followed
  <2>2. QED
    BY <1>2, <1>3, <2>1
<1>4. CASE r.dequeue = Link
  <2>1. r.expects = 1 - r.cycle /\ r.expects # r.cycle
    BY <1>1, <1>4 DEF RingShape, Bit
  <2>2. r.trb[Link].cycle = 1 - r.cycle
    BY <1>1 DEF RingShape
  <2> DEFINE f == [r EXCEPT !.dequeue = 0, !.expects = 1 - @]
  <2>3. Followed(r) = f
    BY <1>4, <2>1, <2>2 DEF Followed
  <2>4. /\ f.dequeue = 0 /\ f.expects = 1 - r.expects
        /\ f.trb = r.trb /\ f.enqueue = r.enqueue /\ f.cycle = r.cycle
    BY DEF Ring
  <2>5. f \in Ring
    <3>1. 1 - r.expects \in Bit /\ 0 \in 0 .. Link
      BY <1>1 DEF Bit
    <3>2. QED
      BY <3>1 DEF Ring
  <2>6. f.expects = f.cycle
    BY <1>1, <2>1, <2>4 DEF Bit
  <2> HIDE DEF f
  <2>7. RingShape(f)
    BY <1>1, <2>4, <2>6 DEF RingShape
  <2>8. Count(f) = Count(r)
    BY <1>1, <1>4, <2>1, <2>4, <2>6 DEF Count
  <2>9. Followed(f) = f
    BY <1>1, <2>4 DEF Followed
  <2>10. QED
    BY <1>1, <1>2, <2>3, <2>4, <2>5, <2>7, <2>8, <2>9
<1>5. QED
  BY <1>3, <1>4

(* The controller takes an entry when there is one. *)
LEMMA ReadySound ==
  ASSUME NEW r \in Ring, RingShape(r)
  PROVE  Ready(r) <=> Count(r) > 0
<1> DEFINE f == Followed(r)
<1>1. /\ f \in Ring /\ RingShape(f) /\ f.dequeue # Link /\ Count(f) = Count(r)
  BY FollowedSound
<1>2. Ready(r) <=> f.trb[f.dequeue].cycle = f.expects
  BY <1>1 DEF Ready
<1> HIDE DEF f
<1>3. /\ f.enqueue \in 0 .. Link - 1 /\ f.dequeue \in 0 .. Link - 1
      /\ f.cycle \in Bit /\ f.expects \in Bit /\ Link \in Nat \ {0}
  BY <1>1, RingTyped
<1>4. f.trb[f.dequeue].cycle = IF f.dequeue < f.enqueue THEN f.cycle ELSE 1 - f.cycle
  BY <1>1, <1>3 DEF RingShape
<1>5. QED
  BY <1>1, <1>2, <1>3, <1>4 DEF RingShape, Count, Bit

(* What is put in is behind everything else, as long as the driver does    *)
(* not come up to a controller that is still at the link.                  *)
LEMMA PushSound ==
  ASSUME NEW r \in Ring, RingShape(r), Count(r) < Link - 1, NEW of \in Called, NEW last \in BOOLEAN
  PROVE  LET p == Pushed(r, of, last)
         IN  /\ p \in Ring /\ RingShape(p) /\ Count(p) = Count(r) + 1
             /\ \A k \in 0 .. Count(r) - 1 : /\ Item(p, k).of = Item(r, k).of
                                             /\ Item(p, k).last = Item(r, k).last
             /\ Item(p, Count(r)).of = of /\ Item(p, Count(r)).last = last
<1> DEFINE p == Pushed(r, of, last)
           t == [of |-> of, last |-> last, cycle |-> r.cycle]
           wraps == r.enqueue + 1 = Link
<1>1. /\ r.enqueue \in 0 .. Link - 1 /\ r.dequeue \in 0 .. Link
      /\ r.cycle \in Bit /\ r.expects \in Bit /\ Link \in Nat \ {0}
      /\ r.trb \in [0 .. Link -> Trb]
  BY RingTyped
<1>2. /\ p.enqueue = IF wraps THEN 0 ELSE r.enqueue + 1
      /\ p.cycle = IF wraps THEN 1 - r.cycle ELSE r.cycle
      /\ p.dequeue = r.dequeue /\ p.expects = r.expects
      /\ p.trb = IF wraps THEN [[r.trb EXCEPT ![r.enqueue] = t] EXCEPT ![Link].cycle = r.cycle]
                          ELSE [r.trb EXCEPT ![r.enqueue] = t]
  BY DEF Pushed, Ring
<1>3. t \in Trb /\ t.of = of /\ t.last = last /\ t.cycle = r.cycle
  BY <1>1 DEF Trb
<1>4. p.trb \in [0 .. Link -> Trb]
  <2> DEFINE u == [r.trb EXCEPT ![r.enqueue] = t]
  <2>1. u \in [0 .. Link -> Trb]
    BY <1>1, <1>3
  <2> HIDE DEF u, t, p
  <2>2. u[Link] \in Trb
    BY <1>1, <2>1
  <2>3. [u EXCEPT ![Link].cycle = r.cycle] \in [0 .. Link -> Trb]
    BY <1>1, <2>1, <2>2 DEF Trb
  <2>4. QED
    BY <1>2, <2>1, <2>3 DEF u
<1>5. /\ p.trb[r.enqueue] = t
      /\ \A i \in 0 .. Link - 1 : i # r.enqueue => p.trb[i] = r.trb[i]
      /\ p.trb[Link].cycle = IF wraps THEN r.cycle ELSE r.trb[Link].cycle
  <2> DEFINE u == [r.trb EXCEPT ![r.enqueue] = t]
  <2>1. /\ u \in [0 .. Link -> Trb] /\ u[r.enqueue] = t
        /\ \A i \in 0 .. Link : i # r.enqueue => u[i] = r.trb[i]
    BY <1>1, <1>3
  <2> HIDE DEF u, t, p
  <2>2. r.enqueue # Link /\ r.enqueue \in 0 .. Link
    BY <1>1
  <2>3. CASE wraps
    <3>1. p.trb = [u EXCEPT ![Link].cycle = r.cycle]
      BY <1>2, <2>3 DEF u
    <3>2. /\ \A i \in 0 .. Link : i # Link => p.trb[i] = u[i]
          /\ p.trb[Link].cycle = r.cycle
      <4>1. u[Link] \in Trb
        BY <1>1, <2>1
      <4>2. QED
        BY <1>1, <2>1, <3>1, <4>1 DEF Trb
    <3>3. QED
      BY <1>1, <2>1, <2>2, <2>3, <3>2
  <2>4. CASE ~wraps
    <3>1. p.trb = u
      BY <1>2, <2>4 DEF u
    <3>2. QED
      BY <1>1, <2>1, <2>2, <2>4, <3>1
  <2>5. QED
    BY <2>3, <2>4
<1> HIDE DEF p, t
<1>6. p \in Ring
  <2>1. p = [trb |-> p.trb, enqueue |-> p.enqueue, cycle |-> p.cycle, dequeue |-> p.dequeue, expects |-> p.expects]
    BY DEF p, Pushed, Ring
  <2>2. p.enqueue \in 0 .. Link - 1 /\ p.cycle \in Bit
    BY <1>1, <1>2 DEF Bit
  <2>3. QED
    BY <1>1, <1>2, <1>4, <2>1, <2>2 DEF Ring
<1>7. RingShape(p) /\ Count(p) = Count(r) + 1
  <2>0. /\ p.enqueue = IF wraps THEN 0 ELSE r.enqueue + 1
        /\ p.cycle = IF wraps THEN 1 - r.cycle ELSE r.cycle
        /\ p.dequeue = r.dequeue /\ p.expects = r.expects
    BY <1>2
  <2>1. \A i \in 0 .. Link : p.trb[i].cycle = IF i < p.enqueue THEN p.cycle ELSE 1 - p.cycle
    <3> SUFFICES ASSUME NEW i \in 0 .. Link
                 PROVE  p.trb[i].cycle = IF i < p.enqueue THEN p.cycle ELSE 1 - p.cycle
      OBVIOUS
    <3>1. \A j \in 0 .. Link : r.trb[j].cycle = IF j < r.enqueue THEN r.cycle ELSE 1 - r.cycle
      BY DEF RingShape
    <3>2. p.trb[i].cycle = IF i = r.enqueue THEN r.cycle
                           ELSE IF i = Link /\ wraps THEN r.cycle ELSE r.trb[i].cycle
      BY <1>1, <1>3, <1>5
    <3>3. QED
      BY <1>1, <1>2, <3>1, <3>2 DEF Bit
  <2>2. \/ p.expects = p.cycle /\ p.dequeue <= p.enqueue /\ p.enqueue - p.dequeue = Count(r) + 1
        \/ p.expects = 1 - p.cycle /\ p.enqueue <= p.dequeue
             /\ p.enqueue + Link - p.dequeue = Count(r) + 1
    <3>1. CASE r.expects = r.cycle
      <4>1. r.dequeue <= r.enqueue /\ Count(r) = r.enqueue - r.dequeue
        BY <1>1, <3>1 DEF RingShape, Count, Bit
      <4>2. QED
        BY <1>1, <2>0, <3>1, <4>1 DEF Bit
    <3>2. CASE r.expects # r.cycle
      <4>1. r.enqueue <= r.dequeue /\ Count(r) = r.enqueue + Link - r.dequeue /\ r.expects = 1 - r.cycle
        BY <1>1, <3>2 DEF RingShape, Count, Bit
      <4>2. ~wraps
        BY <1>1, <4>1
      <4>3. QED
        BY <1>1, <2>0, <4>1, <4>2
    <3>3. QED
      BY <3>1, <3>2
  <2>3. 1 - p.cycle # p.cycle
    BY <1>6, RingTyped DEF Bit
  <2>4. QED
    BY <2>1, <2>2, <2>3 DEF RingShape, Count
<1>8. ASSUME NEW k \in 0 .. Count(r)
      PROVE  /\ Spot(Followed(p), k) = Spot(Followed(r), k)
             /\ Spot(Followed(r), k) \in 0 .. Link - 1
             /\ Spot(Followed(r), k) = r.enqueue <=> k = Count(r)
  <2> DEFINE f == Followed(r)
             g == Followed(p)
  <2>1. /\ f \in Ring /\ RingShape(f) /\ f.dequeue # Link /\ Count(f) = Count(r)
        /\ f.enqueue = r.enqueue /\ Count(r) \in 0 .. Link
    BY FollowedSound
  <2>2. g \in Ring /\ g.dequeue # Link
    BY <1>6, <1>7, FollowedSound
  <2>3. g.dequeue = f.dequeue
    <3>1. f.dequeue = IF r.dequeue = Link THEN 0 ELSE r.dequeue
      BY <1>1, <2>1 DEF Followed, Ring
    <3>2. g.dequeue = IF p.dequeue = Link THEN 0 ELSE p.dequeue
      BY <1>6, <2>2 DEF Followed, Ring
    <3>3. QED
      BY <1>2, <3>1, <3>2
  <2> HIDE DEF f, g
  <2>4. k \in 0 .. Link
    BY <1>1, <2>1
  <2>5. /\ Spot(f, k) \in 0 .. Link - 1
        /\ Spot(f, k) = IF f.dequeue + k < Link THEN f.dequeue + k ELSE f.dequeue + k - Link
        /\ Spot(g, k) = IF g.dequeue + k < Link THEN g.dequeue + k ELSE g.dequeue + k - Link
    BY <2>1, <2>2, <2>4, SpotSound
  <2>6. Spot(f, k) = r.enqueue <=> k = Count(r)
    <3>1. /\ f.enqueue \in 0 .. Link - 1 /\ f.dequeue \in 0 .. Link - 1
          /\ f.cycle \in Bit /\ f.expects \in Bit /\ Link \in Nat \ {0}
      BY <2>1, RingTyped
    <3>2. \/ f.expects = f.cycle /\ f.dequeue <= f.enqueue /\ Count(f) = f.enqueue - f.dequeue
          \/ f.expects # f.cycle /\ f.enqueue <= f.dequeue /\ Count(f) = f.enqueue + Link - f.dequeue
      BY <2>1, <3>1 DEF RingShape, Count, Bit
    <3>3. QED
      BY <2>1, <2>5, <3>1, <3>2
  <2>7. QED
    BY <2>3, <2>5, <2>6 DEF f, g
<1>9. Followed(p).trb = p.trb /\ Followed(r).trb = r.trb /\ Count(r) \in 0 .. Link
  BY <1>6, <1>7, FollowedSound
<1>10. ASSUME NEW k \in 0 .. Count(r) - 1
       PROVE  Item(p, k).of = Item(r, k).of /\ Item(p, k).last = Item(r, k).last
  <2>1. k \in 0 .. Count(r) /\ k # Count(r)
    BY <1>9
  <2>2. /\ Spot(Followed(p), k) = Spot(Followed(r), k) /\ Spot(Followed(r), k) \in 0 .. Link - 1
        /\ Spot(Followed(r), k) # r.enqueue
    BY <1>8, <2>1
  <2>3. p.trb[Spot(Followed(r), k)] = r.trb[Spot(Followed(r), k)]
    BY <1>5, <2>2
  <2>4. QED
    BY <1>9, <2>2, <2>3 DEF Item
<1>11. Item(p, Count(r)) = t
  <2>1. Count(r) \in 0 .. Count(r)
    BY <1>9
  <2>2. Spot(Followed(p), Count(r)) = r.enqueue
    BY <1>8, <2>1
  <2>3. QED
    BY <1>5, <1>9, <2>2 DEF Item
<1>12. QED
  BY <1>3, <1>6, <1>7, <1>10, <1>11 DEF p

(* What is taken out is the first.  *)
LEMMA AdvanceSound ==
  ASSUME NEW r \in Ring, RingShape(r), Ready(r)
  PROVE  LET a == Advanced(r)
         IN  /\ a \in Ring /\ RingShape(a) /\ Count(a) = Count(r) - 1 /\ Count(r) > 0
             /\ \A k \in 0 .. Count(a) - 1 : Item(a, k) = Item(r, k + 1)
             /\ First(r) = Item(r, 0) /\ First(r) \in Trb
<1> DEFINE f == Followed(r)
           a == Advanced(r)
<1>1. /\ f \in Ring /\ RingShape(f) /\ f.dequeue # Link /\ Count(f) = Count(r)
      /\ f.trb = r.trb /\ Count(r) \in 0 .. Link /\ Followed(f) = f
  BY FollowedSound
<1>2. Count(r) > 0
  BY ReadySound
<1>3. a = [f EXCEPT !.dequeue = @ + 1]
  BY DEF Advanced
<1>4. First(r) = f.trb[f.dequeue]
  BY DEF First
<1> HIDE DEF f, a
<1>5. /\ f.enqueue \in 0 .. Link - 1 /\ f.dequeue \in 0 .. Link - 1
      /\ f.cycle \in Bit /\ f.expects \in Bit /\ Link \in Nat \ {0}
      /\ f.trb \in [0 .. Link -> Trb]
  BY <1>1, RingTyped
<1>6. /\ a.dequeue = f.dequeue + 1 /\ a.trb = f.trb /\ a.enqueue = f.enqueue
      /\ a.cycle = f.cycle /\ a.expects = f.expects
  BY <1>1, <1>3 DEF Ring
<1>7. a \in Ring
  <2>1. f.dequeue + 1 \in 0 .. Link
    BY <1>5
  <2>2. QED
    BY <1>1, <1>3, <2>1 DEF Ring
<1>8. RingShape(a) /\ Count(a) = Count(r) - 1
  <2>1. \A i \in 0 .. Link : a.trb[i].cycle = IF i < a.enqueue THEN a.cycle ELSE 1 - a.cycle
    BY <1>1, <1>6 DEF RingShape
  <2>2. \/ a.expects = a.cycle /\ a.dequeue <= a.enqueue /\ a.enqueue - a.dequeue = Count(r) - 1
        \/ a.expects = 1 - a.cycle /\ a.enqueue <= a.dequeue
             /\ a.enqueue + Link - a.dequeue = Count(r) - 1
    BY <1>1, <1>2, <1>5, <1>6 DEF RingShape, Count, Bit
  <2>3. 1 - a.cycle # a.cycle
    BY <1>5, <1>6 DEF Bit
  <2>4. QED
    BY <2>1, <2>2, <2>3 DEF RingShape, Count
<1>9. ASSUME NEW k \in 0 .. Count(a) - 1 PROVE Item(a, k) = Item(r, k + 1)
  <2> DEFINE g == Followed(a)
  <2>1. g \in Ring /\ g.dequeue # Link /\ g.trb = a.trb
    BY <1>7, <1>8, FollowedSound
  <2>2. g.dequeue = IF f.dequeue + 1 = Link THEN 0 ELSE f.dequeue + 1
    BY <1>6, <1>7, <2>1 DEF Followed, Ring
  <2> HIDE DEF g
  <2>3. k \in 0 .. Link /\ k + 1 \in 0 .. Link
    BY <1>1, <1>5, <1>8
  <2>4. /\ Spot(g, k) = IF g.dequeue + k < Link THEN g.dequeue + k ELSE g.dequeue + k - Link
        /\ Spot(f, k + 1) = IF f.dequeue + (k + 1) < Link THEN f.dequeue + (k + 1) ELSE f.dequeue + (k + 1) - Link
    BY <1>1, <2>1, <2>3, SpotSound
  <2>5. Spot(g, k) = Spot(f, k + 1)
    BY <1>5, <2>2, <2>3, <2>4
  <2>6. QED
    BY <1>6, <2>1, <2>5 DEF Item, f, g
<1>10. First(r) = Item(r, 0) /\ First(r) \in Trb
  <2>1. 0 \in 0 .. Link
    BY <1>5
  <2>2. Spot(f, 0) = f.dequeue
    BY <1>1, <1>5, <2>1, SpotSound
  <2>3. QED
    BY <1>4, <1>5, <2>2 DEF Item, f
<1>11. QED
  BY <1>2, <1>7, <1>8, <1>9, <1>10 DEF a

---------------------------------------------------------------------------
(* The event ring *)

(* The fields of the event ring, and how many events are in it. *)
LEMMA EventsTyped ==
  ASSUME NEW e \in Events, EventShape(e)
  PROVE  /\ e.trb \in [Place -> Event] /\ e.enqueue \in Place /\ e.dequeue \in Place /\ e.erdp \in Place
         /\ e.writes \in Bit /\ e.cycle \in Bit
         /\ EventTrbs \in Nat /\ EventTrbs > 1
         /\ Unseen(e) \in 0 .. EventTrbs - 1
<1>1. /\ e.trb \in [Place -> Event] /\ e.enqueue \in Place /\ e.dequeue \in Place /\ e.erdp \in Place
      /\ e.writes \in Bit /\ e.cycle \in Bit
  BY DEF Events
<1>2. Unseen(e) \in 0 .. EventTrbs - 1
  BY <1>1, Sizes DEF EventShape, Unseen, Place, Bit
<1>3. QED
  BY <1>1, <1>2, Sizes

(* Events are found without a division. *)
LEMMA PlaceSound ==
  ASSUME NEW d \in Place, NEW k \in 0 .. EventTrbs
  PROVE  /\ (d + k) % EventTrbs \in Place
         /\ (d + k) % EventTrbs = IF d + k < EventTrbs THEN d + k ELSE d + k - EventTrbs
<1>1. EventTrbs \in Nat /\ EventTrbs > 1 /\ d \in 0 .. EventTrbs - 1
  BY Sizes DEF Place
<1>2. QED
  BY <1>1 DEF Place

(* The driver sees an event when there is one: the first. *)
LEMMA VisibleSound ==
  ASSUME NEW e \in Events, EventShape(e)
  PROVE  /\ Visible(e) <=> Unseen(e) > 0
         /\ e.trb[e.dequeue] = Told(e, 0) /\ Told(e, 0) \in Event
<1>1. /\ e.trb \in [Place -> Event] /\ e.enqueue \in Place /\ e.dequeue \in Place
      /\ e.writes \in Bit /\ e.cycle \in Bit /\ EventTrbs \in Nat /\ EventTrbs > 1
  BY EventsTyped
<1>2. e.trb[e.dequeue].cycle = IF e.dequeue < e.enqueue THEN e.writes ELSE 1 - e.writes
  BY <1>1 DEF EventShape
<1>3. Visible(e) <=> Unseen(e) > 0
  BY <1>1, <1>2 DEF EventShape, Visible, Unseen, Place, Bit
<1>4. 0 \in 0 .. EventTrbs
  BY <1>1
<1>5. (e.dequeue + 0) % EventTrbs = e.dequeue
  BY <1>1, <1>4, PlaceSound DEF Place
<1>6. QED
  BY <1>1, <1>3, <1>5 DEF Told

(* An event is sent behind the others. *)
LEMMA SentSound ==
  ASSUME NEW e \in Events, EventShape(e), Room(e),
         NEW kind \in {"none", "command", "transfer", "port"}, NEW of \in Called, NEW ok \in BOOLEAN
  PROVE  LET s == Sent(e, kind, of, ok)
         IN  /\ s \in Events /\ EventShape(s) /\ Unseen(s) = Unseen(e) + 1
             /\ \A k \in 0 .. Unseen(e) - 1 : Told(s, k) = Told(e, k)
             /\ Told(s, Unseen(e)).kind = kind /\ Told(s, Unseen(e)).of = of /\ Told(s, Unseen(e)).ok = ok
<1> DEFINE s == Sent(e, kind, of, ok)
           t == [kind |-> kind, of |-> of, ok |-> ok, cycle |-> e.writes]
<1>1. /\ e.trb \in [Place -> Event] /\ e.enqueue \in Place /\ e.dequeue \in Place
      /\ e.writes \in Bit /\ e.cycle \in Bit /\ EventTrbs \in Nat /\ EventTrbs > 1
      /\ Unseen(e) \in 0 .. EventTrbs - 1 /\ e.erdp = e.dequeue
  BY EventsTyped DEF EventShape
<1>2. t \in Event /\ t.kind = kind /\ t.of = of /\ t.ok = ok /\ t.cycle = e.writes
  BY <1>1 DEF Event
<1>3. s = [e EXCEPT !.trb[e.enqueue] = t, !.enqueue = (@ + 1) % EventTrbs,
                    !.writes = IF Wraps(e.enqueue) THEN 1 - @ ELSE @]
  BY DEF Sent
<1> HIDE DEF t, s
<1>4. /\ s.trb = [e.trb EXCEPT ![e.enqueue] = t]
      /\ s.enqueue = (e.enqueue + 1) % EventTrbs
      /\ s.writes = IF Wraps(e.enqueue) THEN 1 - e.writes ELSE e.writes
      /\ s.dequeue = e.dequeue /\ s.cycle = e.cycle /\ s.erdp = e.erdp
  BY <1>3 DEF Events
<1>5. /\ s.trb \in [Place -> Event] /\ s.trb[e.enqueue] = t
      /\ \A i \in Place : i # e.enqueue => s.trb[i] = e.trb[i]
  BY <1>1, <1>2, <1>4
<1>6. /\ s.enqueue \in Place
      /\ s.enqueue = IF e.enqueue + 1 = EventTrbs THEN 0 ELSE e.enqueue + 1
      /\ s.enqueue # e.dequeue
  <2>1. 1 \in 0 .. EventTrbs
    BY <1>1
  <2>2. /\ (e.enqueue + 1) % EventTrbs \in Place
        /\ (e.enqueue + 1) % EventTrbs =
             IF e.enqueue + 1 < EventTrbs THEN e.enqueue + 1 ELSE e.enqueue + 1 - EventTrbs
    BY <1>1, <2>1, PlaceSound
  <2>3. (e.enqueue + 1) % EventTrbs # e.dequeue
    BY <1>1 DEF Room
  <2>4. QED
    BY <1>1, <1>4, <2>2, <2>3 DEF Place
<1>7. s.writes = IF e.enqueue + 1 = EventTrbs THEN 1 - e.writes ELSE e.writes
  BY <1>4 DEF Wraps
<1>8. s \in Events
  <2>1. s = [trb |-> s.trb, enqueue |-> s.enqueue, writes |-> s.writes,
             dequeue |-> s.dequeue, cycle |-> s.cycle, erdp |-> s.erdp]
    BY <1>3 DEF Events
  <2>2. s.writes \in Bit
    BY <1>1, <1>7 DEF Bit
  <2>3. e.erdp \in Place
    BY <1>1
  <2>4. QED
    BY <1>1, <1>4, <1>5, <1>6, <2>1, <2>2, <2>3 DEF Events
<1>9. EventShape(s) /\ Unseen(s) = Unseen(e) + 1
  <2>0. s.dequeue = e.dequeue /\ s.cycle = e.cycle /\ s.erdp = e.erdp
    BY <1>4
  <2>1. \A i \in Place : s.trb[i].cycle = IF i < s.enqueue THEN s.writes ELSE 1 - s.writes
    <3> SUFFICES ASSUME NEW i \in Place
                 PROVE  s.trb[i].cycle = IF i < s.enqueue THEN s.writes ELSE 1 - s.writes
      OBVIOUS
    <3>1. e.trb[i].cycle = IF i < e.enqueue THEN e.writes ELSE 1 - e.writes
      BY DEF EventShape
    <3>2. s.trb[i].cycle = IF i = e.enqueue THEN e.writes ELSE e.trb[i].cycle
      BY <1>2, <1>5
    <3>3. QED
      BY <1>1, <1>6, <1>7, <3>1, <3>2 DEF Bit, Place
  <2>2. \/ s.writes = s.cycle /\ s.dequeue <= s.enqueue /\ s.enqueue - s.dequeue = Unseen(e) + 1
        \/ s.writes = 1 - s.cycle /\ s.enqueue < s.dequeue
             /\ s.enqueue + EventTrbs - s.dequeue = Unseen(e) + 1
    <3>1. CASE e.writes = e.cycle
      <4>1. e.dequeue <= e.enqueue /\ Unseen(e) = e.enqueue - e.dequeue
        BY <1>1, <3>1 DEF EventShape, Unseen, Bit
      <4>2. QED
        <5>1. e.enqueue \in 0 .. EventTrbs - 1 /\ e.dequeue \in 0 .. EventTrbs - 1
          BY <1>1 DEF Place
        <5>2. CASE e.enqueue + 1 = EventTrbs
          <6>1. s.enqueue = 0 /\ s.writes = 1 - s.cycle /\ s.dequeue # 0
            BY <1>6, <1>7, <2>0, <3>1, <5>2
          <6>2. s.enqueue < s.dequeue /\ s.enqueue + EventTrbs - s.dequeue = Unseen(e) + 1
            BY <2>0, <4>1, <5>1, <5>2, <6>1
          <6>3. QED
            BY <6>1, <6>2
        <5>3. CASE e.enqueue + 1 # EventTrbs
          <6>1. s.enqueue = e.enqueue + 1 /\ s.writes = s.cycle
            BY <1>6, <1>7, <2>0, <3>1, <5>3
          <6>2. QED
            BY <2>0, <4>1, <5>1, <6>1
        <5>4. QED
          BY <5>2, <5>3
    <3>2. CASE e.writes # e.cycle
      <4>1. e.enqueue < e.dequeue /\ Unseen(e) = e.enqueue + EventTrbs - e.dequeue /\ e.writes = 1 - e.cycle
        BY <1>1, <3>2 DEF EventShape, Unseen, Bit
      <4>2. e.enqueue + 1 # EventTrbs
        BY <1>1, <4>1 DEF Place
      <4>3. QED
        BY <1>1, <1>6, <1>7, <2>0, <4>1, <4>2 DEF Place
    <3>3. QED
      BY <3>1, <3>2
  <2>3. 1 - s.cycle # s.cycle
    BY <1>1, <2>0 DEF Bit
  <2>4. QED
    BY <1>1, <2>0, <2>1, <2>2, <2>3 DEF EventShape, Unseen
<1>10. ASSUME NEW k \in 0 .. Unseen(e)
       PROVE  /\ (s.dequeue + k) % EventTrbs = (e.dequeue + k) % EventTrbs
              /\ (e.dequeue + k) % EventTrbs \in Place
              /\ (e.dequeue + k) % EventTrbs = e.enqueue <=> k = Unseen(e)
  <2>1. k \in 0 .. EventTrbs
    BY <1>1
  <2>2. /\ (e.dequeue + k) % EventTrbs \in Place
        /\ (e.dequeue + k) % EventTrbs = IF e.dequeue + k < EventTrbs THEN e.dequeue + k ELSE e.dequeue + k - EventTrbs
    BY <1>1, <2>1, PlaceSound
  <2> DEFINE i == (e.dequeue + k) % EventTrbs
  <2>3. i = IF e.dequeue + k < EventTrbs THEN e.dequeue + k ELSE e.dequeue + k - EventTrbs
    BY <2>2
  <2> HIDE DEF i
  <2>4. i = e.enqueue <=> k = Unseen(e)
    BY <1>1, <2>3 DEF EventShape, Unseen, Place, Bit
  <2>5. QED
    BY <1>4, <2>2, <2>4 DEF i
<1>11. ASSUME NEW k \in 0 .. Unseen(e) - 1 PROVE Told(s, k) = Told(e, k)
  <2>1. k \in 0 .. Unseen(e) /\ k # Unseen(e)
    BY <1>1
  <2>2. /\ (s.dequeue + k) % EventTrbs = (e.dequeue + k) % EventTrbs
        /\ (e.dequeue + k) % EventTrbs \in Place
        /\ (e.dequeue + k) % EventTrbs # e.enqueue
    BY <1>10, <2>1
  <2>3. s.trb[(e.dequeue + k) % EventTrbs] = e.trb[(e.dequeue + k) % EventTrbs]
    BY <1>5, <2>2
  <2>4. QED
    BY <2>2, <2>3 DEF Told
<1>12. Told(s, Unseen(e)) = t
  <2>1. Unseen(e) \in 0 .. Unseen(e)
    BY <1>1
  <2>2. (s.dequeue + Unseen(e)) % EventTrbs = e.enqueue
    BY <1>10, <2>1
  <2>3. QED
    BY <1>5, <2>2 DEF Told
<1>13. QED
  BY <1>2, <1>8, <1>9, <1>11, <1>12 DEF s

(* The driver takes the first event, and tells the controller. *)
LEMMA PolledSound ==
  ASSUME NEW e \in Events, EventShape(e), Visible(e)
  PROVE  LET p == Polled(e)
         IN  /\ p \in Events /\ EventShape(p) /\ Unseen(p) = Unseen(e) - 1 /\ Unseen(e) > 0
             /\ \A k \in 0 .. Unseen(p) - 1 : Told(p, k) = Told(e, k + 1)
<1> DEFINE p == Polled(e)
           behind == (e.dequeue + 1) % EventTrbs
<1>1. /\ e.trb \in [Place -> Event] /\ e.enqueue \in Place /\ e.dequeue \in Place
      /\ e.writes \in Bit /\ e.cycle \in Bit /\ EventTrbs \in Nat /\ EventTrbs > 1
      /\ Unseen(e) \in 0 .. EventTrbs - 1
  BY EventsTyped
<1>2. Unseen(e) > 0
  BY VisibleSound
<1>3. p = [e EXCEPT !.dequeue = behind, !.erdp = behind,
                    !.cycle = IF Wraps(e.dequeue) THEN 1 - @ ELSE @]
  BY DEF Polled
<1>4. behind \in Place /\ behind = IF e.dequeue + 1 = EventTrbs THEN 0 ELSE e.dequeue + 1
  <2>1. 1 \in 0 .. EventTrbs
    BY <1>1
  <2>2. /\ (e.dequeue + 1) % EventTrbs \in Place
        /\ (e.dequeue + 1) % EventTrbs =
             IF e.dequeue + 1 < EventTrbs THEN e.dequeue + 1 ELSE e.dequeue + 1 - EventTrbs
    BY <1>1, <2>1, PlaceSound
  <2>3. QED
    BY <1>1, <2>2 DEF Place
<1> HIDE DEF p, behind
<1>5. /\ p.trb = e.trb /\ p.enqueue = e.enqueue /\ p.writes = e.writes
      /\ p.dequeue = behind /\ p.erdp = behind
      /\ p.cycle = IF e.dequeue + 1 = EventTrbs THEN 1 - e.cycle ELSE e.cycle
  BY <1>3 DEF Events, Wraps
<1>6. p \in Events
  <2>1. p = [trb |-> p.trb, enqueue |-> p.enqueue, writes |-> p.writes,
             dequeue |-> p.dequeue, cycle |-> p.cycle, erdp |-> p.erdp]
    BY <1>3 DEF Events
  <2>2. p.cycle \in Bit
    BY <1>1, <1>5 DEF Bit
  <2>3. QED
    BY <1>1, <1>4, <1>5, <2>1, <2>2 DEF Events
<1>7. EventShape(p) /\ Unseen(p) = Unseen(e) - 1
  <2>1. \A i \in Place : p.trb[i].cycle = IF i < p.enqueue THEN p.writes ELSE 1 - p.writes
    BY <1>5 DEF EventShape
  <2>2. \/ p.writes = p.cycle /\ p.dequeue <= p.enqueue /\ p.enqueue - p.dequeue = Unseen(e) - 1
        \/ p.writes = 1 - p.cycle /\ p.enqueue < p.dequeue
             /\ p.enqueue + EventTrbs - p.dequeue = Unseen(e) - 1
    <3>1. CASE e.writes = e.cycle
      <4>1. e.dequeue <= e.enqueue /\ Unseen(e) = e.enqueue - e.dequeue
        BY <1>1, <3>1 DEF EventShape, Unseen, Bit
      <4>2. e.dequeue + 1 # EventTrbs
        BY <1>1, <1>2, <4>1 DEF Place
      <4>3. QED
        BY <1>1, <1>2, <1>4, <1>5, <3>1, <4>1, <4>2 DEF Place
    <3>2. CASE e.writes # e.cycle
      <4>1. e.enqueue < e.dequeue /\ Unseen(e) = e.enqueue + EventTrbs - e.dequeue /\ e.writes = 1 - e.cycle
        BY <1>1, <3>2 DEF EventShape, Unseen, Bit
      <4>2. CASE e.dequeue + 1 = EventTrbs
        <5>1. p.dequeue = 0 /\ p.cycle = 1 - e.cycle /\ p.writes = p.cycle
          BY <1>4, <1>5, <4>1, <4>2
        <5>2. QED
          BY <1>1, <1>5, <4>1, <4>2, <5>1 DEF Place
      <4>3. CASE e.dequeue + 1 # EventTrbs
        <5>1. p.dequeue = e.dequeue + 1 /\ p.cycle = e.cycle /\ p.writes = 1 - p.cycle
          BY <1>4, <1>5, <4>1, <4>3
        <5>2. QED
          BY <1>1, <1>5, <4>1, <5>1 DEF Place
      <4>4. QED
        BY <4>2, <4>3
    <3>3. QED
      BY <3>1, <3>2
  <2>3. 1 - p.cycle # p.cycle
    BY <1>1, <1>5 DEF Bit
  <2>4. QED
    BY <1>5, <2>1, <2>2, <2>3 DEF EventShape, Unseen
<1>8. ASSUME NEW k \in 0 .. Unseen(p) - 1 PROVE Told(p, k) = Told(e, k + 1)
  <2>1. k \in 0 .. EventTrbs /\ k + 1 \in 0 .. EventTrbs
    BY <1>1, <1>7
  <2>2. (behind + k) % EventTrbs = IF behind + k < EventTrbs THEN behind + k ELSE behind + k - EventTrbs
    BY <1>4, <2>1, PlaceSound
  <2>3. (e.dequeue + (k + 1)) % EventTrbs =
          IF e.dequeue + (k + 1) < EventTrbs THEN e.dequeue + (k + 1) ELSE e.dequeue + (k + 1) - EventTrbs
    BY <1>1, <2>1, PlaceSound
  <2> DEFINE i == (behind + k) % EventTrbs
             j == (e.dequeue + (k + 1)) % EventTrbs
  <2>4. /\ i = IF behind + k < EventTrbs THEN behind + k ELSE behind + k - EventTrbs
        /\ j = IF e.dequeue + (k + 1) < EventTrbs THEN e.dequeue + (k + 1) ELSE e.dequeue + (k + 1) - EventTrbs
    BY <2>2, <2>3
  <2> HIDE DEF i, j
  <2>5. i = j
    <3>1. k \in 0 .. EventTrbs - 1 /\ e.dequeue \in 0 .. EventTrbs - 1
      BY <1>1, <1>7 DEF Place
    <3>2. CASE e.dequeue + 1 = EventTrbs
      BY <1>1, <1>4, <2>4, <3>1, <3>2
    <3>3. CASE e.dequeue + 1 # EventTrbs
      BY <1>1, <1>4, <2>4, <3>1, <3>3
    <3>4. QED
      BY <3>2, <3>3
  <2>6. QED
    BY <1>5, <2>5 DEF Told, i, j
<1>9. QED
  BY <1>2, <1>6, <1>7, <1>8 DEF p

(* What waits to be seen when another event is sent, or the first is taken. *)
LEMMA SentKeeps ==
  ASSUME NEW e \in Events, EventShape(e), Room(e),
         NEW kind \in {"none", "command", "transfer", "port"}, NEW of \in Called, NEW ok \in BOOLEAN,
         NEW other, other # kind
  PROVE  LET s == Sent(e, kind, of, ok)
         IN  /\ None(e, other) => None(s, other)
             /\ \A j : Only(e, other, j) => Only(s, other, j) /\ Told(s, j) = Told(e, j)
             /\ None(e, kind) => Only(s, kind, Unseen(e))
<1> DEFINE s == Sent(e, kind, of, ok)
           u == Unseen(e)
<1>1. /\ Unseen(s) = u + 1 /\ u \in Nat
      /\ \A k \in 0 .. u - 1 : Told(s, k) = Told(e, k)
      /\ Told(s, u).kind = kind
  BY SentSound, EventsTyped
<1> HIDE DEF s, u
<1>2. \A k \in 0 .. Unseen(s) - 1 : k = u \/ k \in 0 .. u - 1
  BY <1>1
<1>3. 0 .. Unseen(s) - 1 = 0 .. u
  BY <1>1
<1>4. None(e, other) => None(s, other)
  BY <1>1, <1>2 DEF None, u
<1>5. ASSUME NEW j, Only(e, other, j) PROVE Only(s, other, j) /\ Told(s, j) = Told(e, j)
  <2>1. j \in 0 .. u - 1 /\ \A k \in 0 .. u - 1 : Told(e, k).kind = other <=> k = j
    BY <1>5 DEF Only, u
  <2>2. j \in 0 .. Unseen(s) - 1 /\ j # u
    BY <1>1, <2>1
  <2>3. QED
    BY <1>1, <1>2, <2>1, <2>2 DEF Only
<1>6. None(e, kind) => Only(s, kind, u)
  <2> SUFFICES ASSUME None(e, kind) PROVE Only(s, kind, u)
    OBVIOUS
  <2>1. \A k \in 0 .. u - 1 : Told(e, k).kind # kind
    BY DEF None, u
  <2>2. u \in 0 .. Unseen(s) - 1 /\ ~(u \in 0 .. u - 1)
    BY <1>1
  <2>3. QED
    BY <1>1, <1>2, <2>1, <2>2 DEF Only
<1>7. QED
  BY <1>4, <1>5, <1>6 DEF s, u

LEMMA PolledKeeps ==
  ASSUME NEW e \in Events, EventShape(e), Visible(e), NEW kind
  PROVE  LET p == Polled(e)
         IN  /\ None(e, kind) => None(p, kind) /\ e.trb[e.dequeue].kind # kind
             /\ \A j : Only(e, kind, j) =>
                  IF e.trb[e.dequeue].kind = kind
                  THEN None(p, kind) /\ Told(e, j) = e.trb[e.dequeue]
                  ELSE j - 1 \in 0 .. Unseen(p) - 1 /\ Only(p, kind, j - 1) /\ Told(p, j - 1) = Told(e, j)
<1> DEFINE p == Polled(e)
           u == Unseen(e)
<1>1. /\ Unseen(p) = u - 1 /\ u \in Nat /\ u > 0
      /\ \A k \in 0 .. Unseen(p) - 1 : Told(p, k) = Told(e, k + 1)
  BY PolledSound, EventsTyped
<1>2. e.trb[e.dequeue] = Told(e, 0)
  BY VisibleSound
<1> HIDE DEF p, u
<1>3. \A k \in 0 .. Unseen(p) - 1 : k + 1 \in 0 .. u - 1 /\ k + 1 # 0
  BY <1>1
<1>4. 0 \in 0 .. u - 1
  BY <1>1
<1>5. None(e, kind) => None(p, kind) /\ e.trb[e.dequeue].kind # kind
  <2> SUFFICES ASSUME None(e, kind) PROVE None(p, kind) /\ e.trb[e.dequeue].kind # kind
    OBVIOUS
  <2>1. \A k \in 0 .. u - 1 : Told(e, k).kind # kind
    BY DEF None, u
  <2>2. QED
    BY <1>1, <1>2, <1>3, <1>4, <2>1 DEF None
<1>6. ASSUME NEW j, Only(e, kind, j), e.trb[e.dequeue].kind = kind
      PROVE  None(p, kind) /\ Told(e, j) = e.trb[e.dequeue]
  <2>1. j \in 0 .. u - 1 /\ \A k \in 0 .. u - 1 : Told(e, k).kind = kind <=> k = j
    BY <1>6 DEF Only, u
  <2>2. j = 0
    BY <1>2, <1>4, <1>6, <2>1
  <2>3. QED
    BY <1>1, <1>2, <1>3, <2>1, <2>2 DEF None
<1>7. ASSUME NEW j, Only(e, kind, j), e.trb[e.dequeue].kind # kind
      PROVE  j - 1 \in 0 .. Unseen(p) - 1 /\ Only(p, kind, j - 1) /\ Told(p, j - 1) = Told(e, j)
  <2>1. j \in 0 .. u - 1 /\ \A k \in 0 .. u - 1 : Told(e, k).kind = kind <=> k = j
    BY <1>7 DEF Only, u
  <2>2. j # 0
    BY <1>2, <1>4, <1>7, <2>1
  <2>3. j - 1 \in 0 .. Unseen(p) - 1 /\ (j - 1) + 1 = j
    BY <1>1, <2>1, <2>2
  <2>4. Told(p, j - 1) = Told(e, j)
    BY <1>1, <2>3
  <2>5. ASSUME NEW k \in 0 .. Unseen(p) - 1 PROVE Told(p, k).kind = kind <=> k = j - 1
    <3>1. Told(p, k) = Told(e, k + 1) /\ k + 1 \in 0 .. u - 1
      BY <1>1, <1>3
    <3>2. k + 1 = j <=> k = j - 1
      BY <1>1, <2>1
    <3>3. QED
      BY <2>1, <3>1, <3>2
  <2>6. QED
    BY <2>3, <2>4, <2>5 DEF Only
<1>8. QED
  BY <1>5, <1>6, <1>7 DEF p

---------------------------------------------------------------------------
(* The steps of the bring-up *)

LEMMA OrderSound ==
  /\ Len(Order) = 13 /\ Ended = 14
  /\ \A k \in 1 .. 13 :
       /\ Order[k].in \in Rings /\ Order[k].trbs \in 1 .. 3 /\ Order[k].name \in Called
       /\ Order[k].in \in {"cmd", "hid"} => Order[k].trbs = 1
       /\ Order[k].in = "hid" <=> k = HidRead
       /\ Order[k].in = "ep0" => k <= SetIdle
       /\ k = SetIdle => Order[k].in = "ep0"
       /\ Order[k].name = "SetIdle" <=> k = SetIdle
       /\ Order[k].name = "HidRead" <=> k = HidRead
       /\ Order[k].name = "DeviceDescriptor8" => k = 3
       /\ Order[k].name = "ConfigDescriptor9" => k = 6
       /\ Order[k].name = "ConfigDescriptor" => k = 8
<1>1. Len(Order) = 13 /\ Ended = 14
  BY DEF Order, Ended
<1>2. \A k \in 1 .. 13 : k = 1 \/ k = 2 \/ k = 3 \/ k = 4 \/ k = 5 \/ k = 6 \/ k = 7 \/ k = 8 \/ k = 9
                           \/ k = 10 \/ k = 11 \/ k = 12 \/ k = 13
  OBVIOUS
<1>3. QED
  <2>1. \A k \in 1 .. 13 : /\ Order[k].in \in Rings /\ Order[k].trbs \in 1 .. 3
                           /\ Order[k].in \in {"cmd", "hid"} => Order[k].trbs = 1
    BY <1>2 DEF Order, Step, Rings
  <2>2. \A k \in 1 .. 13 : Order[k].name \in Called
    BY DEF Called
  <2>3. \A k \in 1 .. 13 : /\ Order[k].in = "hid" <=> k = HidRead
                           /\ Order[k].in = "ep0" => k <= SetIdle
                           /\ k = SetIdle => Order[k].in = "ep0"
    BY <1>2 DEF Order, Step, SetIdle, HidRead
  <2>4. \A k \in 1 .. 13 : /\ Order[k].name = "SetIdle" <=> k = SetIdle
                           /\ Order[k].name = "HidRead" <=> k = HidRead
    BY <1>2 DEF Order, Step, SetIdle, HidRead
  <2>5. \A k \in 1 .. 13 : /\ Order[k].name = "DeviceDescriptor8" => k = 3
                           /\ Order[k].name = "ConfigDescriptor9" => k = 6
                           /\ Order[k].name = "ConfigDescriptor" => k = 8
    BY <1>2 DEF Order, Step
  <2>6. QED
    BY <1>1, <2>1, <2>2, <2>3, <2>4, <2>5

(* A step is done or gives the bring-up up; only SET_IDLE may fail.        *)
LEMMA AfterSound ==
  ASSUME Typed, at # Ended, NEW ok \in BOOLEAN, NEW x \in After(ok)
  PROVE  /\ x \in at + 1 .. Ended
         /\ ~ok /\ at # SetIdle => x = Ended
         /\ at \in 1 .. 13 /\ Ended = 14
<1>1. at \in 1 .. 13 /\ Ended = 14
  BY OrderSound DEF Typed
<1>2. /\ Now.name = "SetIdle" <=> at = SetIdle
      /\ Now.name = "DeviceDescriptor8" => at = 3
      /\ Now.name = "ConfigDescriptor9" => at = 6
      /\ Now.name = "ConfigDescriptor" => at = 8
  BY <1>1, OrderSound DEF Now
<1>3. x \in {Ended, at + 1, at + 2} /\ (x = at + 2 => at = 3 \/ at = 6 \/ x = Ended)
  <2>1. CASE ~ok /\ Required(Now.name)
    BY <2>1 DEF After
  <2>2. CASE ~(~ok /\ Required(Now.name)) /\ ok /\ Now.name \in {"DeviceDescriptor8", "ConfigDescriptor9"}
    BY <1>2, <2>2 DEF After
  <2>3. CASE ~(~ok /\ Required(Now.name)) /\ ok /\ Now.name = "ConfigDescriptor"
    BY <1>1, <1>2, <2>3 DEF After
  <2>4. CASE ~(~ok /\ Required(Now.name)) /\ Now.name = "EmptyDescriptor"
    BY <2>4 DEF After
  <2>5. CASE /\ ~(~ok /\ Required(Now.name)) /\ Now.name # "EmptyDescriptor"
             /\ ~(ok /\ Now.name \in {"DeviceDescriptor8", "ConfigDescriptor9", "ConfigDescriptor"})
    <3>1. x \in {at + 1}
      BY <2>5, Zenon DEF After
    <3>2. QED
      BY <1>1, <3>1
  <2>6. QED
    BY <2>1, <2>2, <2>3, <2>4, <2>5
<1>4. ~ok /\ at # SetIdle => x = Ended
  BY <1>2 DEF After, Required
<1>5. QED
  BY <1>1, <1>3, <1>4

(* What a step asks is two or three entries, or one: the last one, and no  *)
(* other, makes the event.                                                 *)
LEMMA PushedAllSound ==
  ASSUME NEW r \in Ring, RingShape(r), Count(r) = 0, RingTrbs > 4, NEW i \in 1 .. 13
  PROVE  LET p == PushedAll(r, Order[i])
         IN  /\ p \in Ring /\ RingShape(p) /\ Count(p) = Order[i].trbs
             /\ \A k \in 0 .. Order[i].trbs - 1 :
                  /\ Item(p, k).of = Order[i].name
                  /\ Item(p, k).last <=> k = Order[i].trbs - 1
<1> DEFINE n == Order[i].name
           a == Pushed(r, n, TRUE)
           b == Pushed(r, n, FALSE)
           c == Pushed(b, n, TRUE)
           d == Pushed(b, n, FALSE)
           e == Pushed(d, n, TRUE)
           t == Order[i].trbs
<1>1. n \in Called /\ t \in 1 .. 3
  BY OrderSound DEF Called
<1>2. Link - 1 > 2 /\ Link \in Nat
  BY DEF Link
<1> HIDE DEF n, t
<1>3. /\ a \in Ring /\ RingShape(a) /\ Count(a) = 1
      /\ Item(a, 0).of = n /\ Item(a, 0).last = TRUE
  <2>1. Count(r) < Link - 1
    BY <1>2
  <2>2. /\ a \in Ring /\ RingShape(a) /\ Count(a) = Count(r) + 1
        /\ Item(a, Count(r)).of = n /\ Item(a, Count(r)).last = TRUE
    BY <1>1, <2>1, PushSound, Zenon
  <2> HIDE DEF a
  <2>3. QED
    BY <2>2
<1>4. /\ b \in Ring /\ RingShape(b) /\ Count(b) = 1
      /\ Item(b, 0).of = n /\ Item(b, 0).last = FALSE
  <2>1. Count(r) < Link - 1
    BY <1>2
  <2>2. /\ b \in Ring /\ RingShape(b) /\ Count(b) = Count(r) + 1
        /\ Item(b, Count(r)).of = n /\ Item(b, Count(r)).last = FALSE
    BY <1>1, <2>1, PushSound, Zenon
  <2> HIDE DEF b
  <2>3. QED
    BY <2>2
<1> HIDE DEF a, b
<1>5. /\ c \in Ring /\ RingShape(c) /\ Count(c) = 2
      /\ Item(c, 0).of = n /\ Item(c, 0).last = FALSE
      /\ Item(c, 1).of = n /\ Item(c, 1).last = TRUE
  <2>1. Count(b) < Link - 1 /\ 0 \in 0 .. Count(b) - 1
    BY <1>2, <1>4
  <2>2. /\ c \in Ring /\ RingShape(c) /\ Count(c) = Count(b) + 1
        /\ Item(c, Count(b)).of = n /\ Item(c, Count(b)).last = TRUE
    BY <1>1, <1>4, <2>1, PushSound, ZenonT(60)
  <2>3. \A k \in 0 .. Count(b) - 1 : Item(c, k).of = Item(b, k).of /\ Item(c, k).last = Item(b, k).last
    BY <1>1, <1>4, <2>1, PushSound, ZenonT(60)
  <2> HIDE DEF c
  <2>4. QED
    BY <1>4, <2>1, <2>2, <2>3
<1>6. /\ d \in Ring /\ RingShape(d) /\ Count(d) = 2
      /\ Item(d, 0).of = n /\ Item(d, 0).last = FALSE
      /\ Item(d, 1).of = n /\ Item(d, 1).last = FALSE
  <2>1. Count(b) < Link - 1 /\ 0 \in 0 .. Count(b) - 1
    BY <1>2, <1>4
  <2>2. /\ d \in Ring /\ RingShape(d) /\ Count(d) = Count(b) + 1
        /\ Item(d, Count(b)).of = n /\ Item(d, Count(b)).last = FALSE
    BY <1>1, <1>4, <2>1, PushSound, ZenonT(60)
  <2>3. \A k \in 0 .. Count(b) - 1 : Item(d, k).of = Item(b, k).of /\ Item(d, k).last = Item(b, k).last
    BY <1>1, <1>4, <2>1, PushSound, ZenonT(60)
  <2> HIDE DEF d
  <2>4. QED
    BY <1>4, <2>1, <2>2, <2>3
<1> HIDE DEF c, d
<1>7. /\ e \in Ring /\ RingShape(e) /\ Count(e) = 3
      /\ Item(e, 0).of = n /\ Item(e, 0).last = FALSE
      /\ Item(e, 1).of = n /\ Item(e, 1).last = FALSE
      /\ Item(e, 2).of = n /\ Item(e, 2).last = TRUE
  <2>1. Count(d) < Link - 1 /\ 0 \in 0 .. Count(d) - 1 /\ 1 \in 0 .. Count(d) - 1
    BY <1>2, <1>6
  <2>2. /\ e \in Ring /\ RingShape(e) /\ Count(e) = Count(d) + 1
        /\ Item(e, Count(d)).of = n /\ Item(e, Count(d)).last = TRUE
    BY <1>1, <1>6, <2>1, PushSound, Zenon
  <2>3. \A k \in 0 .. Count(d) - 1 : Item(e, k).of = Item(d, k).of /\ Item(e, k).last = Item(d, k).last
    BY <1>1, <1>6, <2>1, PushSound, Zenon
  <2> HIDE DEF e
  <2>4. QED
    BY <1>6, <2>1, <2>2, <2>3
<1> HIDE DEF e
<1> DEFINE p == PushedAll(r, Order[i])
<1>8. p = IF t = 1 THEN a ELSE IF t = 2 THEN c ELSE e
  <2>1. CASE t = 1
    BY <2>1 DEF p, PushedAll, a, n, t
  <2>2. CASE t = 2
    BY <2>2 DEF p, PushedAll, b, c, n, t
  <2>3. CASE t = 3
    BY <2>3 DEF p, PushedAll, b, d, e, n, t
  <2>4. QED
    BY <1>1, <2>1, <2>2, <2>3
<1> HIDE DEF p
<1>9. /\ p \in Ring /\ RingShape(p) /\ Count(p) = t
      /\ \A k \in 0 .. t - 1 : Item(p, k).of = n /\ (Item(p, k).last <=> k = t - 1)
  <2>1. CASE t = 1
    <3>1. \A k \in 0 .. 0 : k = 0
      OBVIOUS
    <3>2. QED
      BY <1>3, <1>8, <2>1, <3>1
  <2>2. CASE t = 2
    <3>1. \A k \in 0 .. 1 : k = 0 \/ k = 1
      OBVIOUS
    <3>2. QED
      BY <1>5, <1>8, <2>2, <3>1
  <2>3. CASE t = 3
    <3>1. \A k \in 0 .. 2 : k = 0 \/ k = 1 \/ k = 2
      OBVIOUS
    <3>2. QED
      BY <1>7, <1>8, <2>3, <3>1
  <2>4. QED
    BY <1>1, <2>1, <2>2, <2>3
<1>10. QED
  BY <1>9 DEF p, n, t

(* An event of another kind does not disturb a ring that is left alone.    *)
LEMMA Undisturbed ==
  ASSUME Typed, Shapes, NEW q \in Rings,
         NEW kind \in {"none", "command", "transfer", "port"}, kind # KindOf(q),
         NEW of \in Called, NEW ok \in BOOLEAN,
         event' = event \/ (Room(event) /\ event' = Sent(event, kind, of, ok)),
         ring'[q] = ring[q], q \in halted' <=> q \in halted, report => report',
         UNCHANGED <<at, posted>>
  PROVE  /\ Waiting(q) => Waiting(q)'
         /\ Answered(q) => Answered(q)'
         /\ None(event, KindOf(q)) => None(event', KindOf(q))
<1> DEFINE e == event
           s == event'
           c == KindOf(q)
<1>1. e \in Events /\ EventShape(e)
  BY DEF Typed, Shapes
<1>2. /\ None(e, c) => None(s, c)
      /\ \A j : Only(e, c, j) => Only(s, c, j) /\ Told(s, j) = Told(e, j)
  <2>1. CASE s = e
    BY <2>1
  <2>2. CASE Room(e) /\ s = Sent(e, kind, of, ok)
    BY <1>1, <2>2, SentKeeps
  <2>3. QED
    BY <2>1, <2>2
<1>3. Now' = Now
  BY DEF Now
<1>4. Waiting(q) => Waiting(q)'
  BY <1>2, <1>3 DEF Waiting
<1>5. ASSUME Answered(q) PROVE Answered(q)'
  <2>1. PICK j \in 0 .. Unseen(e) - 1 :
          /\ Only(e, c, j) /\ Told(e, j).of = Now.name
          /\ Told(e, j).ok => q \notin halted /\ (q = "hid" => report)
    BY <1>5 DEF Answered
  <2>2. Only(s, c, j) /\ Told(s, j) = Told(e, j) /\ j \in 0 .. Unseen(s) - 1
    BY <1>2, <2>1 DEF Only
  <2>3. Count(ring[q]) = 0 \/ q \in halted
    BY <1>5 DEF Answered
  <2> HIDE DEF e, s, c
  <2>4. /\ Count(ring'[q]) = 0 \/ q \in halted'
        /\ Only(s, c, j) /\ Told(s, j).of = Now'.name
        /\ Told(s, j).ok => q \notin halted' /\ (q = "hid" => report')
    BY <1>3, <2>1, <2>2, <2>3
  <2>5. QED
    BY <2>2, <2>4 DEF Answered, s, c
<1>6. QED
  BY <1>2, <1>4, <1>5

(* The driver takes an event of another kind: likewise. *)
LEMMA UndisturbedByPoll ==
  ASSUME Typed, Shapes, NEW q \in Rings, Visible(event), event' = Polled(event),
         event.trb[event.dequeue].kind # KindOf(q),
         UNCHANGED <<ring, halted, report, at, posted>>
  PROVE  /\ Waiting(q) => Waiting(q)'
         /\ Answered(q) => Answered(q)'
<1> DEFINE e == event
           s == event'
           c == KindOf(q)
<1>1. e \in Events /\ EventShape(e)
  BY DEF Typed, Shapes
<1>2. /\ None(e, c) => None(s, c)
      /\ \A j : Only(e, c, j) => /\ j - 1 \in 0 .. Unseen(s) - 1 /\ Only(s, c, j - 1)
                                 /\ Told(s, j - 1) = Told(e, j)
  BY <1>1, PolledKeeps
<1>3. Now' = Now
  BY DEF Now
<1>4. Waiting(q) => Waiting(q)'
  BY <1>2, <1>3 DEF Waiting
<1>5. ASSUME Answered(q) PROVE Answered(q)'
  <2>1. PICK j \in 0 .. Unseen(e) - 1 :
          /\ Only(e, c, j) /\ Told(e, j).of = Now.name
          /\ Told(e, j).ok => q \notin halted /\ (q = "hid" => report)
    BY <1>5 DEF Answered
  <2> DEFINE i == j - 1
  <2>2. Only(s, c, i) /\ Told(s, i) = Told(e, j) /\ i \in 0 .. Unseen(s) - 1
    BY <1>2, <2>1
  <2>3. Count(ring[q]) = 0 \/ q \in halted
    BY <1>5 DEF Answered
  <2> HIDE DEF e, s, c, i
  <2>4. /\ Count(ring'[q]) = 0 \/ q \in halted'
        /\ Only(s, c, i) /\ Told(s, i).of = Now'.name
        /\ Told(s, i).ok => q \notin halted' /\ (q = "hid" => report')
    BY <1>3, <2>1, <2>2, <2>3
  <2>5. QED
    BY <2>2, <2>4 DEF Answered, s, c
<1>6. QED
  BY <1>4, <1>5

---------------------------------------------------------------------------
(* Before the steps, and beside them *)

(* The actions that ask nothing of a device. *)
Early ==
  \/ TakeOwnership \/ HaltController \/ ResetController \/ StartController \/ WaitEnds
  \/ PowerPorts \/ PowerDone \/ ResetPort \/ PortReset \/ PortTimeOut \/ PortsDone \/ Turns \/ Quiet

asked == <<at, posted, ring, event, halted, report, got, givenUp>>

LEMMA InitSound ==
  ASSUME Init
  PROVE  IInv
<1> DEFINE d == [of |-> "link", last |-> FALSE, cycle |-> 0]
           v == [kind |-> "none", of |-> "none", ok |-> FALSE, cycle |-> 0]
<1>1. /\ Link \in Nat \ {0} /\ EventTrbs \in Nat /\ EventTrbs > 1 /\ Ended = 14
  BY Sizes, OrderSound
<1>2. d \in Trb /\ v \in Event
  BY DEF Trb, Event, Called, Bit
<1>3. NewRing \in Ring /\ RingShape(NewRing) /\ Count(NewRing) = 0
  <2>1. NewRing \in Ring
    BY <1>1, <1>2 DEF NewRing, Ring, Bit
  <2>2. \A i \in 0 .. Link : NewRing.trb[i].cycle = 0
    BY DEF NewRing
  <2>3. /\ NewRing.enqueue = 0 /\ NewRing.cycle = 1 /\ NewRing.dequeue = 0 /\ NewRing.expects = 1
    BY DEF NewRing
  <2>4. QED
    BY <1>1, <2>1, <2>2, <2>3 DEF RingShape, Count
<1>4. NewEvents \in Events /\ EventShape(NewEvents) /\ Unseen(NewEvents) = 0
  <2>1. NewEvents \in Events
    BY <1>1, <1>2 DEF NewEvents, Events, Place, Bit
  <2>2. \A i \in Place : NewEvents.trb[i].cycle = 0
    BY DEF NewEvents, Place
  <2>3. /\ NewEvents.enqueue = 0 /\ NewEvents.writes = 1 /\ NewEvents.dequeue = 0
        /\ NewEvents.cycle = 1 /\ NewEvents.erdp = 0
    BY DEF NewEvents
  <2>4. QED
    BY <1>1, <2>1, <2>2, <2>3 DEF EventShape, Unseen, Place
<1>5. \A kind : None(NewEvents, kind)
  BY <1>4 DEF None
<1>6. \A q \in Rings : ring[q] = NewRing
  BY DEF Init
<1>7. Typed
  <2>1. ring \in [Rings -> Ring]
    BY <1>3 DEF Init
  <2>2. port \in [Ports -> SUBSET Bits]
    <3>1. port \in [Ports -> SUBSET {"PP", "CCS", "CSC", "PED"}]
      BY DEF Init
    <3>2. QED
      BY <3>1 DEF Bits
  <2>3. event \in Events
    BY <1>4 DEF Init
  <2>4. /\ at = 1 /\ posted = FALSE /\ next = 1 /\ stage = "own" /\ halted = {} /\ report = FALSE
    BY DEF Init
  <2>5. 1 \in 1 .. Ended /\ 1 \in 1 .. MaxPorts + 1 /\ 1 # Ended
    BY <1>1, Sizes
  <2>6. QED
    BY <2>1, <2>2, <2>3, <2>4, <2>5 DEF Typed
<1>8. Shapes /\ Few
  BY <1>3, <1>4, <1>6 DEF Shapes, Few, Init
<1>9. CommandTurn /\ HidTurn /\ TransferTurn
  <2>1. ~posted /\ halted = {} /\ event = NewEvents
    BY DEF Init
  <2>2. "cmd" \in Rings /\ "ep0" \in Rings /\ "hid" \in Rings
    BY DEF Rings
  <2>3. QED
    BY <1>3, <1>5, <1>6, <2>1, <2>2 DEF CommandTurn, HidTurn, TransferTurn, Under
<1>10. IdleGivenUp /\ Own
  BY DEF IdleGivenUp, Own, Init
<1>11. QED
  BY <1>7, <1>8, <1>9, <1>10 DEF IInv

LEMMA EarlyTyped ==
  ASSUME Typed, Early
  PROVE  Typed' /\ UNCHANGED asked
<1> USE DEF asked, steps
<1>1. CASE TakeOwnership
  BY <1>1 DEF TakeOwnership, Steps, Typed
<1>2. CASE HaltController
  BY <1>2 DEF HaltController, Steps, Typed
<1>3. CASE ResetController
  BY <1>3 DEF ResetController, Steps, Typed
<1>4. CASE StartController
  BY <1>4 DEF StartController, Steps, Typed
<1>5. CASE WaitEnds
  BY <1>5 DEF WaitEnds, Waits, Steps, Typed
<1>6. CASE ResetPort
  <2>1. next \in Ports /\ port[next] \subseteq Bits
    BY <1>6, Sizes DEF ResetPort, Typed, Ports
  <2>2. Written(port[next], Kept(port[next]) \cup {"PR"}) \subseteq Bits
    BY <2>1 DEF Written, Bits
  <2>3. port' \in [Ports -> SUBSET Bits]
    BY <1>6, <2>2 DEF ResetPort, Typed
  <2>4. next' \in 1 .. MaxPorts + 1 /\ (stage' = "port" => next' \in Ports)
    BY <1>6, <2>1, Sizes DEF ResetPort, Steps, Typed, Ports
  <2>5. stage # "steps" /\ stage' # "steps" /\ UNCHANGED asked
    BY <1>6 DEF ResetPort, Steps
  <2>6. QED
    BY <2>3, <2>4, <2>5 DEF Typed
<1>7. CASE PortReset
  <2>1. next \in Ports /\ port[next] \subseteq Bits
    BY <1>7 DEF PortReset, Steps, Typed
  <2>2. Written(port[next], Kept(port[next]) \cup {"PRC", "CSC"}) \subseteq Bits
    BY <2>1 DEF Written, Bits
  <2>3. port' \in [Ports -> SUBSET Bits]
    BY <1>7, <2>2 DEF PortReset, Typed
  <2>4. next' \in 1 .. MaxPorts + 1
    BY <1>7, <2>1, Sizes DEF PortReset, Ports
  <2>5. stage # "steps" /\ stage' = "ports" /\ UNCHANGED asked
    BY <1>7 DEF PortReset, Steps
  <2>6. QED
    BY <2>3, <2>4, <2>5 DEF Typed
<1>8. CASE PortTimeOut
  <2>1. next \in Ports
    BY <1>8 DEF PortTimeOut, Steps, Typed
  <2>2. next' \in 1 .. MaxPorts + 1
    BY <1>8, <2>1, Sizes DEF PortTimeOut, Ports
  <2>3. QED
    BY <1>8, <2>2 DEF PortTimeOut, Steps, Typed
<1>9. CASE PortsDone
  BY <1>9 DEF PortsDone, Steps, Typed
<1>10. CASE Turns
  BY <1>10 DEF Turns, Typed
<1>11. CASE Quiet
  BY <1>11 DEF Quiet, vars, early, Typed
<1>12. CASE PowerPorts
  <2>1. next \in Ports /\ port[next] \subseteq Bits
    BY <1>12, Sizes DEF PowerPorts, Typed, Ports
  <2>2. Written(port[next], Kept(port[next]) \cup {"PP"}) \subseteq Bits
    BY <2>1 DEF Written, Bits
  <2>3. port' \in [Ports -> SUBSET Bits]
    BY <1>12, <2>2 DEF PowerPorts, Typed
  <2>4. next' \in 1 .. MaxPorts + 1
    BY <1>12, <2>1, Sizes DEF PowerPorts, Ports
  <2>5. stage # "steps" /\ stage' = "power" /\ UNCHANGED asked
    BY <1>12 DEF PowerPorts, Steps
  <2>6. QED
    BY <2>3, <2>4, <2>5 DEF Typed
<1>13. CASE PowerDone
  <2>1. next' \in 1 .. MaxPorts + 1
    BY <1>13, Sizes DEF PowerDone
  <2>2. QED
    BY <1>13, <2>1 DEF PowerDone, Steps, Typed
<1>14. QED
  BY <1>1, <1>2, <1>3, <1>4, <1>5, <1>6, <1>7, <1>8, <1>9, <1>10, <1>11, <1>12, <1>13 DEF Early

LEMMA AskedUnchanged ==
  ASSUME IInv, Typed', UNCHANGED asked
  PROVE  IInv'
<1>1. Now' = Now
  BY DEF Now, asked
<1>2. /\ ring' = ring /\ event' = event /\ at' = at /\ posted' = posted /\ halted' = halted
      /\ report' = report /\ got' = got /\ givenUp' = givenUp
  BY DEF asked
<1>3. \A q : (Waiting(q) <=> Waiting(q)') /\ (Answered(q) <=> Answered(q)') /\ (Under(q) <=> Under(q)')
  BY <1>1, <1>2 DEF Waiting, Answered, Under
<1>4. Shapes' /\ Few' /\ Own' /\ IdleGivenUp'
  BY <1>2 DEF IInv, Shapes, Few, Own, IdleGivenUp
<1>5. CommandTurn' /\ HidTurn' /\ TransferTurn'
  BY <1>2, <1>3 DEF IInv, CommandTurn, HidTurn, TransferTurn
<1>6. QED
  BY <1>4, <1>5 DEF IInv

(* A bring-up that ends owes nothing more. *)
LEMMA EndSound ==
  ASSUME at' = Ended, Typed', Shapes', Few', Own'
  PROVE  IInv'
<1>1. Ended = 14
  BY OrderSound
<1>2. Ended' = Ended
  BY DEF Ended
<1>3. CommandTurn' /\ HidTurn' /\ TransferTurn' /\ IdleGivenUp'
  BY <1>1, <1>2 DEF CommandTurn, HidTurn, TransferTurn, IdleGivenUp, SetIdle
<1>4. QED
  BY <1>3 DEF IInv

LEMMA GivesUpSound ==
  ASSUME IInv, Deadline \/ NotPosted
  PROVE  IInv'
<1>1. /\ at' = Ended /\ ~posted
      /\ UNCHANGED <<port, next, event, givenUp, steps>>
      /\ stage' = "steps"
  <2>1. CASE Deadline
    <3>1. stage # "steps"
      BY <2>1 DEF Deadline, Waited
    <3>2. QED
      BY <2>1, <3>1 DEF Deadline, GivesUp, IInv, Typed
  <2>2. CASE NotPosted
    BY <2>2 DEF NotPosted, Idle, IInv, Typed
  <2>3. QED
    BY <2>1, <2>2
<1>2. Ended = 14 /\ Ended' = Ended
  BY OrderSound DEF Ended
<1>3. Typed'
  BY <1>1, <1>2 DEF IInv, Typed, steps
<1>4. Shapes' /\ Few' /\ Own'
  BY <1>1 DEF IInv, Shapes, Few, Own, steps
<1>5. QED
  BY <1>1, <1>3, <1>4, EndSound

---------------------------------------------------------------------------
(* The controller *)

(* An event that is told is behind the others; the ring of events keeps     *)
(* its shape.                                                              *)
LEMMA TellSound ==
  ASSUME Typed, Shapes,
         NEW kind \in {"none", "command", "transfer", "port"}, NEW of \in Called, NEW ok \in BOOLEAN,
         event' = event \/ (Room(event) /\ event' = Sent(event, kind, of, ok))
  PROVE  /\ event' \in Events /\ EventShape(event')
         /\ \A c : c # kind /\ None(event, c) => None(event', c)
<1>1. event \in Events /\ EventShape(event)
  BY DEF Typed, Shapes
<1>2. CASE event' = event
  BY <1>1, <1>2
<1>3. CASE Room(event) /\ event' = Sent(event, kind, of, ok)
  <2>1. event' \in Events /\ EventShape(event')
    BY <1>1, <1>3, SentSound
  <2>2. \A c : c # kind /\ None(event, c) => None(event', c)
    BY <1>1, <1>3, SentKeeps
  <2>3. QED
    BY <2>1, <2>2
<1>4. QED
  BY <1>2, <1>3

LEMMA PortTellsSound ==
  ASSUME IInv, NEW p \in Ports, PortChange(p) \/ PortResets(p)
  PROVE  IInv'
<1>1. /\ UNCHANGED <<stage, next, at, givenUp, steps>>
      /\ event' = event \/ (Room(event) /\ event' = Sent(event, "port", "port", TRUE))
  BY DEF PortChange, PortResets, Tells
<1>2. "port" \in Called /\ Typed /\ Shapes
  BY DEF Called, IInv
<1>3. port' \in [Ports -> SUBSET Bits]
  <2>1. port \in [Ports -> SUBSET Bits] /\ port[p] \subseteq Bits
    BY <1>2 DEF Typed
  <2>2. CASE PortChange(p)
    BY <2>1, <2>2 DEF PortChange, Plugged, Bits
  <2>3. CASE PortResets(p)
    BY <2>1, <2>3 DEF PortResets, Bits
  <2>4. QED
    BY <2>2, <2>3
<1>4. /\ event' \in Events /\ EventShape(event')
      /\ \A c : c # "port" /\ None(event, c) => None(event', c)
  BY <1>1, <1>2, TellSound
<1>5. Typed'
  BY <1>1, <1>2, <1>3, <1>4 DEF Typed, steps
<1>6. Shapes' /\ Few' /\ Own' /\ IdleGivenUp'
  BY <1>1, <1>4 DEF IInv, Shapes, Few, Own, IdleGivenUp, steps
<1>7. \A q \in Rings : (Waiting(q) => Waiting(q)') /\ (Answered(q) => Answered(q)')
  BY <1>1, <1>2, Undisturbed DEF KindOf, steps
<1>8. \A q : Under(q)' <=> Under(q)
  BY <1>1 DEF Under, Now, steps
<1>9. CommandTurn' /\ HidTurn' /\ TransferTurn'
  <2>1. "cmd" \in Rings /\ "ep0" \in Rings /\ "hid" \in Rings
    BY DEF Rings
  <2>2. /\ None(event, "command") => None(event', "command")
        /\ None(event, "transfer") => None(event', "transfer")
    BY <1>4
  <2>3. CommandTurn'
    BY <1>1, <1>7, <1>8, <2>1, <2>2 DEF IInv, CommandTurn, steps
  <2>4. HidTurn'
    BY <1>1, <1>8 DEF IInv, HidTurn, steps
  <2>5. TransferTurn'
    BY <1>1, <1>7, <1>8, <2>1, <2>2 DEF IInv, TransferTurn, steps
  <2>6. QED
    BY <2>3, <2>4, <2>5
<1>10. QED
  BY <1>5, <1>6, <1>9 DEF IInv

(* Whatever the controller executes, rings and events keep their shape.    *)
LEMMA ExecuteShapes ==
  ASSUME IInv, NEW q \in Rings, Execute(q)
  PROVE  /\ Typed' /\ Shapes' /\ Few'
         /\ Count(ring'[q]) = Count(ring[q]) - 1 /\ Count(ring[q]) > 0
         /\ \A k \in 0 .. Count(ring'[q]) - 1 : Item(ring'[q], k) = Item(ring[q], k + 1)
         /\ First(ring[q]) = Item(ring[q], 0) /\ First(ring[q]) \in Trb
         /\ \A x \in Rings : x # q => ring'[x] = ring[x]
         /\ \A c : c # KindOf(q) /\ None(event, c) => None(event', c)
<1>1. Typed /\ Shapes /\ Few
  BY DEF IInv
<1>2. /\ Ready(ring[q]) /\ q \notin halted /\ ring' = [ring EXCEPT ![q] = Advanced(@)]
      /\ UNCHANGED <<early, at, posted, got, givenUp>>
  BY DEF Execute
<1>3. ring[q] \in Ring /\ RingShape(ring[q]) /\ ring \in [Rings -> Ring]
  BY <1>1 DEF Typed, Shapes
<1>4. ring'[q] = Advanced(ring[q]) /\ \A x \in Rings : x # q => ring'[x] = ring[x]
  BY <1>2, <1>3
<1>5. /\ ring'[q] \in Ring /\ RingShape(ring'[q])
      /\ Count(ring'[q]) = Count(ring[q]) - 1 /\ Count(ring[q]) > 0
      /\ \A k \in 0 .. Count(ring'[q]) - 1 : Item(ring'[q], k) = Item(ring[q], k + 1)
      /\ First(ring[q]) = Item(ring[q], 0) /\ First(ring[q]) \in Trb
  BY <1>2, <1>3, <1>4, AdvanceSound
<1>6. First(ring[q]).of \in Called
  BY <1>5 DEF Trb
<1>7. PICK ok \in BOOLEAN :
        /\ event' = event \/ (Room(event) /\ event' = Sent(event, KindOf(q), First(ring[q]).of, ok))
        /\ halted' = IF ok \/ q = "cmd" THEN halted ELSE halted \cup {q}
        /\ report' = (report \/ (ok /\ q = "hid"))
  BY DEF Execute, KindOf
<1>8. KindOf(q) \in {"none", "command", "transfer", "port"}
  BY DEF KindOf
<1>9. /\ event' \in Events /\ EventShape(event')
      /\ \A c : c # KindOf(q) /\ None(event, c) => None(event', c)
  BY <1>1, <1>6, <1>7, <1>8, TellSound
<1>10. Typed'
  <2>1. ring' \in [Rings -> Ring]
    BY <1>2, <1>3, <1>4, <1>5
  <2>2. halted' \subseteq {"ep0", "hid"}
    BY <1>1, <1>7 DEF Typed, Rings
  <2>3. report' \in BOOLEAN
    BY <1>7
  <2>4. QED
    BY <1>1, <1>2, <1>9, <2>1, <2>2, <2>3 DEF Typed, early
<1>11. Shapes'
  BY <1>1, <1>4, <1>5, <1>9 DEF Shapes
<1>12. Few'
  <2>1. \A x \in Rings : x # q => Count(ring'[x]) <= 3
    BY <1>1, <1>4 DEF Few
  <2>2. Count(ring[q]) <= 3 /\ Count(ring[q]) \in Int
    BY <1>1, <1>3, FollowedSound, Sizes DEF Few
  <2>3. QED
    BY <1>5, <2>1, <2>2 DEF Few
<1>13. QED
  BY <1>4, <1>5, <1>9, <1>10, <1>11, <1>12

(* What is waited for stays with the controller, or is answered.           *)
LEMMA ExecuteWaiting ==
  ASSUME IInv, at # Ended, NEW q \in Rings, Under(q), Execute(q), Waiting(q)
  PROVE  Waiting(q)' \/ Answered(q)'
<1> DEFINE n == Count(ring[q])
           t == First(ring[q])
<1>1. /\ Count(ring'[q]) = n - 1
      /\ \A k \in 0 .. Count(ring'[q]) - 1 : Item(ring'[q], k) = Item(ring[q], k + 1)
      /\ t = Item(ring[q], 0) /\ t \in Trb
  BY ExecuteShapes
<1>2. event \in Events /\ EventShape(event)
  BY DEF IInv, Typed, Shapes
<1>3. /\ q \notin halted /\ n \in 1 .. Now.trbs /\ None(event, KindOf(q))
      /\ \A k \in 0 .. n - 1 : Item(ring[q], k).of = Now.name /\ (Item(ring[q], k).last <=> k = n - 1)
  BY DEF Waiting
<1>4. n \in Nat /\ n > 0 /\ n <= 3 /\ 0 \in 0 .. n - 1
  <2>1. n \in 0 .. Link
    BY FollowedSound DEF IInv, Typed, Shapes
  <2>2. n <= 3
    BY DEF IInv, Few
  <2>3. n >= 1
    BY <1>3, <2>1 DEF n
  <2>4. QED
    BY <2>1, <2>2, <2>3, Sizes
<1>5. t.of = Now.name /\ (t.last <=> n = 1) /\ t.of \in Called
  BY <1>1, <1>3, <1>4 DEF Trb
<1>6. PICK ok \in BOOLEAN :
        /\ IF ok /\ ~t.last THEN event' = event
           ELSE Room(event) /\ event' = Sent(event, KindOf(q), t.of, ok)
        /\ halted' = IF ok \/ q = "cmd" THEN halted ELSE halted \cup {q}
        /\ report' = (report \/ (ok /\ q = "hid"))
  BY DEF Execute, KindOf
<1>7. Now' = Now /\ at' = at
  BY DEF Execute, Now
<1>8. CASE ok /\ ~t.last
  <2> HIDE DEF t
  <2>1. n # 1 /\ n - 1 \in 1 .. Now.trbs
    <3>1. n # 1
      BY <1>5, <1>8
    <3>2. n - 1 >= 1 /\ n - 1 \in Int
      BY <1>4, <3>1
    <3>3. Now.trbs \in Int /\ n <= Now.trbs
      BY <1>3, <1>4, OrderSound DEF IInv, Typed, Now
    <3>4. QED
      BY <1>4, <3>2, <3>3
  <2>2. event' = event /\ q \notin halted'
    BY <1>3, <1>6, <1>8
  <2>3. \A k \in 0 .. n - 2 : k + 1 \in 0 .. n - 1 /\ (k + 1 = n - 1 <=> k = n - 2)
    BY <1>4
  <2>4. \A k \in 0 .. Count(ring'[q]) - 1 : /\ Item(ring'[q], k).of = Now.name
                                            /\ Item(ring'[q], k).last <=> k = Count(ring'[q]) - 1
    <3>1. Count(ring'[q]) - 1 = n - 2
      BY <1>1, <1>4
    <3> HIDE DEF n
    <3>2. QED
      BY <1>1, <1>3, <2>3, <3>1
  <2>5. Waiting(q)'
    BY <1>1, <1>3, <1>7, <2>1, <2>2, <2>4 DEF Waiting
  <2>6. QED
    BY <2>5
<1>9. CASE ~(ok /\ ~t.last)
  <2> DEFINE u == Unseen(event)
  <2>1. Room(event) /\ event' = Sent(event, KindOf(q), t.of, ok)
    BY <1>6, <1>9
  <2>2. KindOf(q) \in {"none", "command", "transfer", "port"}
    BY DEF KindOf
  <2>3. Only(event', KindOf(q), u) /\ Told(event', u).of = Now.name /\ Told(event', u).ok = ok
    <3>1. Only(event', KindOf(q), u)
      <4>1. "none" # KindOf(q)
        BY DEF KindOf
      <4>2. QED
        BY <1>2, <1>3, <1>5, <2>1, <2>2, <4>1, SentKeeps
    <3>2. QED
      BY <1>2, <1>5, <2>1, <2>2, <3>1, SentSound
  <2>4. u \in 0 .. Unseen(event') - 1
    BY <2>3 DEF Only
  <2>5. Count(ring'[q]) = 0 \/ q \in halted'
    <3>1. CASE ok
      <4>1. n = 1
        BY <1>5, <1>9, <3>1
      <4>2. QED
        BY <1>1, <4>1
    <3>2. CASE ~ok /\ q = "cmd"
      <4>1. Now.trbs = 1
        BY <3>2, OrderSound DEF IInv, Typed, Under, Now
      <4>2. QED
        BY <1>1, <1>3, <1>4, <4>1
    <3>3. CASE ~ok /\ q # "cmd"
      BY <1>6, <3>3
    <3>4. QED
      BY <3>1, <3>2, <3>3
  <2>6. ok => q \notin halted' /\ (q = "hid" => report')
    BY <1>3, <1>6
  <2>7. Answered(q)'
    <3> HIDE DEF u
    <3>1. Told(event', u).of = Now'.name
      BY <1>7, <2>3
    <3>2. QED
      BY <2>3, <2>4, <2>5, <2>6, <3>1 DEF Answered
  <2>8. QED
    BY <2>7
<1>10. QED
  BY <1>8, <1>9

LEMMA ExecuteSound ==
  ASSUME IInv, NEW q \in Rings, Execute(q)
  PROVE  IInv'
<1>1. /\ Typed' /\ Shapes' /\ Few'
      /\ Count(ring'[q]) = Count(ring[q]) - 1 /\ Count(ring[q]) > 0
      /\ \A x \in Rings : x # q => ring'[x] = ring[x]
      /\ \A c : c # KindOf(q) /\ None(event, c) => None(event', c)
      /\ First(ring[q]) \in Trb
  BY ExecuteShapes
<1>2. UNCHANGED <<at, posted, got, givenUp>> /\ q \notin halted
  BY DEF Execute
<1>3. PICK ok \in BOOLEAN :
        /\ event' = event \/ (Room(event) /\ event' = Sent(event, KindOf(q), First(ring[q]).of, ok))
        /\ halted' = IF ok \/ q = "cmd" THEN halted ELSE halted \cup {q}
        /\ report' = (report \/ (ok /\ q = "hid"))
  BY DEF Execute, KindOf
<1>4. Own' /\ IdleGivenUp'
  <2>1. report => report'
    BY <1>3
  <2>2. QED
    BY <1>2, <2>1 DEF IInv, Own, IdleGivenUp
<1>5. /\ "cmd" \in Rings /\ "ep0" \in Rings /\ "hid" \in Rings
      /\ Rings = {"cmd", "ep0", "hid"}
      /\ KindOf("cmd") = "command" /\ KindOf("ep0") = "transfer" /\ KindOf("hid") = "transfer"
  BY DEF Rings, KindOf
<1>6. \A x \in Rings : x # q => (x \in halted' <=> x \in halted)
  BY <1>3
<1>7. ASSUME NEW x \in Rings, KindOf(x) # KindOf(q)
      PROVE  (Waiting(x) => Waiting(x)') /\ (Answered(x) => Answered(x)')
  <2>1. x # q
    BY <1>7
  <2>2. ring'[x] = ring[x] /\ (x \in halted' <=> x \in halted)
    BY <1>1, <1>6, <2>1
  <2>3. /\ KindOf(q) \in {"none", "command", "transfer", "port"}
        /\ First(ring[q]).of \in Called
    BY <1>1 DEF KindOf, Trb
  <2>4. Typed /\ Shapes /\ (report => report') /\ UNCHANGED <<at, posted>>
    BY <1>2, <1>3 DEF IInv
  <2>5. QED
    BY <1>3, <1>7, <2>2, <2>3, <2>4, Undisturbed
<1>8. \A x : Under(x)' <=> Under(x)
  BY <1>2 DEF Under, Now
<1>9. CASE at = Ended
  <2>1. at' = Ended
    BY <1>2, <1>9
  <2>2. QED
    BY <1>1, <1>4, <2>1, EndSound
<1>10. CASE at # Ended
  <2>1. ASSUME Under(q) PROVE Answered(q) => ~(Count(ring[q]) > 0)
    BY <1>2 DEF Answered
  <2>2. ASSUME Under(q), Waiting(q) PROVE Waiting(q)' \/ Answered(q)'
    BY <1>10, <2>2, ExecuteWaiting
  <2>3. CASE q = "cmd"
    <3>1. Under("cmd") /\ Waiting("cmd")
      BY <1>1, <1>10, <2>1, <2>3 DEF IInv, CommandTurn
    <3>2. CommandTurn'
      BY <1>8, <2>2, <2>3, <3>1 DEF CommandTurn
    <3>3. HidTurn'
      BY <1>1, <1>2, <1>5, <1>6, <1>8, <2>3 DEF IInv, HidTurn
    <3>4. TransferTurn'
      <4>1. None(event, "transfer") => None(event', "transfer")
        BY <1>1, <1>5, <2>3
      <4>2. ring'["ep0"] = ring["ep0"] /\ ("ep0" \in halted' <=> "ep0" \in halted)
        BY <1>1, <1>5, <1>6, <2>3
      <4>3. \A x \in {"ep0", "hid"} : (Waiting(x) => Waiting(x)') /\ (Answered(x) => Answered(x)')
        BY <1>5, <1>7, <2>3
      <4>4. QED
        BY <1>2, <1>8, <4>1, <4>2, <4>3 DEF IInv, TransferTurn
    <3>5. QED
      BY <1>1, <1>4, <3>2, <3>3, <3>4 DEF IInv
  <2>4. CASE q # "cmd"
    <3>1. KindOf(q) = "transfer"
      BY <2>4 DEF KindOf
    <3>2. CommandTurn'
      <4>1. ring'["cmd"] = ring["cmd"] /\ (None(event, "command") => None(event', "command"))
        BY <1>1, <1>5, <2>4, <3>1
      <4>2. (Waiting("cmd") => Waiting("cmd")') /\ (Answered("cmd") => Answered("cmd")')
        BY <1>5, <1>7, <3>1
      <4>3. QED
        BY <1>2, <1>8, <4>1, <4>2 DEF IInv, CommandTurn
    <3>3. CASE q = "hid"
      <4>1. Under("hid")
        BY <1>1, <1>10, <3>3 DEF IInv, HidTurn
      <4>2. HidTurn'
        <5>1. Count(ring["hid"]) <= 1 /\ Count(ring["hid"]) \in Int
          BY <1>5, <1>10, <4>1, FollowedSound, Sizes DEF IInv, HidTurn, Typed, Shapes
        <5>2. Count(ring'["hid"]) <= 1
          BY <1>1, <3>3, <5>1
        <5>3. QED
          BY <1>8, <4>1, <5>2 DEF HidTurn
      <4>3. TransferTurn'
        <5>1. ~Under("ep0")
          BY <4>1 DEF Under
        <5>2. ring'["ep0"] = ring["ep0"] /\ ("ep0" \in halted' <=> "ep0" \in halted)
          BY <1>1, <1>5, <1>6, <3>3
        <5>3. "SetIdle" \notin givenUp => Waiting("hid")
          BY <1>1, <1>10, <2>1, <3>3, <4>1, <5>1 DEF IInv, TransferTurn
        <5>4. "SetIdle" \notin givenUp => Waiting("hid")' \/ Answered("hid")'
          BY <2>2, <3>3, <4>1, <5>3
        <5>5. QED
          BY <1>2, <1>8, <1>10, <4>1, <5>1, <5>2, <5>4 DEF IInv, TransferTurn
      <4>4. QED
        BY <1>1, <1>4, <3>2, <4>2, <4>3 DEF IInv
    <3>4. CASE q = "ep0"
      <4>1. HidTurn'
        BY <1>1, <1>2, <1>5, <1>6, <1>8, <3>4 DEF IInv, HidTurn
      <4>2. TransferTurn'
        <5>1. "SetIdle" \notin givenUp => Under("ep0") /\ Waiting("ep0")
          <6>1. "ep0" \notin halted /\ Count(ring["ep0"]) > 0
            BY <1>1, <1>2, <3>4
          <6>2. QED
            BY <1>10, <2>1, <3>4, <6>1 DEF IInv, TransferTurn
        <5>2. "SetIdle" \notin givenUp => Waiting("ep0")' \/ Answered("ep0")'
          BY <2>2, <3>4, <5>1
        <5>3. QED
          BY <1>2, <1>8, <5>1, <5>2 DEF TransferTurn
      <4>3. QED
        BY <1>1, <1>4, <3>2, <4>1, <4>2 DEF IInv
    <3>5. QED
      BY <1>5, <2>4, <3>3, <3>4
  <2>5. QED
    BY <2>3, <2>4
<1>11. QED
  BY <1>9, <1>10

---------------------------------------------------------------------------
(* The driver *)

LEMMA TimeOutSound ==
  ASSUME IInv, TimeOut
  PROVE  IInv'
<1>1. /\ posted /\ at # Ended /\ Typed
      /\ at' \in After(FALSE) /\ posted' = FALSE /\ givenUp' = givenUp \cup {Now.name}
      /\ UNCHANGED <<early, ring, event, halted, report, got>>
  BY DEF TimeOut, IInv, Typed
<1>2. /\ at' \in at + 1 .. Ended /\ (at # SetIdle => at' = Ended)
      /\ at \in 1 .. 13 /\ Ended = 14
  BY <1>1, AfterSound
<1>3. Ended' = Ended
  BY DEF Ended
<1>4. Typed'
  <2>1. at' \in 1 .. Ended
    BY <1>2
  <2>2. stage' # "steps" => FALSE
    BY <1>1 DEF Typed, early
  <2>3. QED
    BY <1>1, <1>3, <2>1, <2>2 DEF Typed, early
<1>5. Shapes' /\ Few'
  BY <1>1 DEF IInv, Shapes, Few
<1>6. Own'
  BY <1>1 DEF IInv, Own
<1>7. CASE at # SetIdle
  BY <1>2, <1>4, <1>5, <1>6, <1>7, EndSound
<1>8. CASE at = SetIdle
  <2>1. Now.in = "ep0" /\ Now.name = "SetIdle" /\ SetIdle = 11
    BY <1>2, <1>8, OrderSound DEF Now, SetIdle
  <2>2. "SetIdle" \in givenUp'
    BY <1>1, <2>1
  <2>3. TransferTurn' /\ IdleGivenUp'
    BY <1>2, <1>8, <2>1, <2>2 DEF TransferTurn, IdleGivenUp
  <2>4. ~Under("cmd") /\ ~Under("hid")
    BY <2>1 DEF Under
  <2>5. ~Under("cmd")' /\ ~Under("hid")'
    BY <1>1 DEF Under
  <2>6. CommandTurn' /\ HidTurn'
    BY <1>1, <2>4, <2>5 DEF IInv, CommandTurn, HidTurn
  <2>7. QED
    BY <1>4, <1>5, <1>6, <2>3, <2>6 DEF IInv
<1>9. QED
  BY <1>7, <1>8

(* When a step is asked, its ring is empty and nothing of its kind is told. *)
LEMMA AsksSound ==
  ASSUME IInv, RingTrbs > 4, NEW name, Asks(name)
  PROVE  /\ IInv'
         /\ ring[Now.in] \in Ring /\ RingShape(ring[Now.in]) /\ Count(ring[Now.in]) = 0
<1>0. PICK q : q = Now.in
  OBVIOUS
<1>1. /\ stage = "steps" /\ at # Ended /\ ~posted /\ posted' = TRUE
      /\ ring' = [ring EXCEPT ![q] = PushedAll(@, Now)]
      /\ UNCHANGED <<early, at, event, halted, report, got, givenUp>>
  BY <1>0 DEF Asks, Idle
<1>2. /\ at \in 1 .. 13 /\ Ended = 14 /\ q \in Rings /\ Now.trbs \in 1 .. 3
      /\ (q = "hid" <=> at = HidRead) /\ (q = "ep0" => at <= SetIdle)
      /\ q \in {"cmd", "hid"} => Now.trbs = 1
  BY <1>0, <1>1, OrderSound DEF IInv, Typed, Now
<1>3. \A x : ~Under(x)
  BY <1>1 DEF Under
<1>4. \A x : Under(x)' <=> q = x
  BY <1>0, <1>1 DEF Under, Now
<1>5. q = "ep0" => "SetIdle" \notin givenUp /\ "ep0" \notin halted
  BY <1>1, <1>2, <1>3 DEF IInv, IdleGivenUp, TransferTurn, SetIdle
<1>6. Count(ring[q]) = 0 /\ q \notin halted
  <2>1. CASE q = "cmd"
    BY <1>1, <1>3, <2>1 DEF IInv, CommandTurn, Typed
  <2>2. CASE q = "hid"
    BY <1>1, <1>3, <2>2 DEF IInv, HidTurn
  <2>3. CASE q = "ep0"
    BY <1>1, <1>3, <1>5, <2>3 DEF IInv, TransferTurn
  <2>4. QED
    BY <1>2, <2>1, <2>2, <2>3 DEF Rings
<1>7. ring[q] \in Ring /\ RingShape(ring[q]) /\ ring \in [Rings -> Ring]
  BY <1>2 DEF IInv, Typed, Shapes
<1>8. ring'[q] = PushedAll(ring[q], Order[at]) /\ \A x \in Rings : x # q => ring'[x] = ring[x]
  BY <1>1, <1>2, <1>7 DEF Now
<1>9. /\ ring'[q] \in Ring /\ RingShape(ring'[q]) /\ Count(ring'[q]) = Now.trbs
      /\ \A k \in 0 .. Now.trbs - 1 : /\ Item(ring'[q], k).of = Now.name
                                      /\ Item(ring'[q], k).last <=> k = Now.trbs - 1
  BY <1>2, <1>6, <1>7, <1>8, PushedAllSound DEF Now
<1>10. Typed'
  <2>1. ring' \in [Rings -> Ring]
    BY <1>1, <1>2, <1>7, <1>8, <1>9
  <2>2. QED
    BY <1>1, <2>1 DEF IInv, Typed, early
<1>11. Shapes' /\ Few'
  <2>1. Shapes'
    BY <1>1, <1>8, <1>9 DEF IInv, Shapes
  <2>2. Count(ring'[q]) <= 3
    BY <1>2, <1>9
  <2>3. Few'
    BY <1>8, <2>2 DEF IInv, Few
  <2>4. QED
    BY <2>1, <2>3
<1>12. Own' /\ IdleGivenUp'
  BY <1>1 DEF IInv, Own, IdleGivenUp
<1>13. ASSUME None(event, KindOf(q)) PROVE Waiting(q)'
  <2>1. Now' = Now /\ q \notin halted' /\ event' = event
    BY <1>1, <1>6 DEF Now
  <2>2. Now.trbs \in 1 .. Now.trbs
    BY <1>2
  <2>3. QED
    BY <1>9, <1>13, <2>1, <2>2 DEF Waiting
<1>14. "cmd" \in Rings /\ "ep0" \in Rings /\ "hid" \in Rings
  BY DEF Rings
<1>15. CommandTurn'
  <2>1. CASE q = "cmd"
    BY <1>1, <1>3, <1>4, <1>13, <2>1 DEF IInv, CommandTurn, KindOf
  <2>2. CASE q # "cmd"
    BY <1>1, <1>3, <1>4, <1>8, <1>14, <2>2 DEF IInv, CommandTurn
  <2>3. QED
    BY <2>1, <2>2
<1>16. HidTurn'
  <2>1. CASE q = "hid"
    BY <1>2, <1>4, <1>9, <2>1 DEF HidTurn
  <2>2. CASE q # "hid"
    BY <1>1, <1>3, <1>4, <1>8, <1>14, <2>2 DEF IInv, HidTurn
  <2>3. QED
    BY <2>1, <2>2
<1>17. TransferTurn'
  <2>1. "SetIdle" \notin givenUp => None(event, "transfer")
    BY <1>1, <1>3 DEF IInv, TransferTurn
  <2>2. CASE q = "ep0"
    BY <1>1, <1>4, <1>13, <2>1, <2>2 DEF TransferTurn, KindOf
  <2>3. CASE q # "ep0"
    <3>1. ring'["ep0"] = ring["ep0"] /\ ~Under("ep0")'
      BY <1>4, <1>8, <1>14, <2>3
    <3>2. CASE q = "hid"
      <4>1. "SetIdle" \notin givenUp => Waiting("hid")'
        BY <1>13, <2>1, <3>2 DEF KindOf
      <4>2. QED
        BY <1>1, <1>3, <1>4, <3>1, <3>2, <4>1 DEF IInv, TransferTurn
    <3>3. CASE q # "hid"
      BY <1>1, <1>3, <1>4, <2>1, <3>1, <3>3 DEF IInv, TransferTurn
    <3>4. QED
      BY <3>2, <3>3
  <2>4. QED
    BY <2>2, <2>3
<1>18. QED
  BY <1>0, <1>6, <1>7, <1>10, <1>11, <1>12, <1>15, <1>16, <1>17 DEF IInv

(* An event of the kind that is waited for is the answer to what was asked. *)
LEMMA PolledAnswer ==
  ASSUME IInv, NEW q \in Rings, Under(q), Visible(event), event.trb[event.dequeue].kind = KindOf(q),
         q = "cmd" \/ "SetIdle" \notin givenUp
  PROVE  /\ event.trb[event.dequeue].of = Now.name
         /\ event.trb[event.dequeue].ok => q \notin halted /\ (q = "hid" => report)
         /\ Count(ring[q]) = 0 \/ q \in halted
         /\ None(Polled(event), KindOf(q))
<1> DEFINE e == event.trb[event.dequeue]
<1>1. event \in Events /\ EventShape(event) /\ at # Ended
  BY DEF IInv, Typed, Shapes, Under
<1>2. ~None(event, KindOf(q))
  BY <1>1, PolledKeeps
<1>3. Waiting(q) \/ Answered(q)
  <2>1. CASE q = "cmd"
    BY <1>1, <2>1 DEF IInv, CommandTurn
  <2>2. CASE q = "ep0"
    BY <1>1, <2>2 DEF IInv, TransferTurn
  <2>3. CASE q = "hid"
    <3>1. ~Under("ep0")
      BY <2>3 DEF Under
    <3>2. QED
      BY <1>1, <2>3, <3>1 DEF IInv, TransferTurn
  <2>4. QED
    BY <2>1, <2>2, <2>3 DEF Rings
<1>4. Answered(q)
  BY <1>2, <1>3 DEF Waiting
<1>5. PICK j \in 0 .. Unseen(event) - 1 :
        /\ Only(event, KindOf(q), j) /\ Told(event, j).of = Now.name
        /\ Told(event, j).ok => q \notin halted /\ (q = "hid" => report)
  BY <1>4 DEF Answered
<1>6. None(Polled(event), KindOf(q)) /\ Told(event, j) = e
  BY <1>1, <1>5, PolledKeeps
<1>7. QED
  BY <1>4, <1>5, <1>6 DEF Answered

LEMMA PollSound ==
  ASSUME IInv, RingTrbs > 4, Poll
  PROVE  IInv'
<1> DEFINE e == event.trb[event.dequeue]
<1>0. PICK q : q = Now.in
  OBVIOUS
<1>1. /\ posted /\ Visible(event) /\ event' = Polled(event) /\ stage = "steps" /\ at # Ended
      /\ UNCHANGED <<early, halted, report, givenUp>>
  BY DEF Poll, IInv, Typed
<1>2. /\ at \in 1 .. 13 /\ Ended = 14 /\ q \in Rings
      /\ (q = "hid" <=> at = HidRead) /\ (q = "ep0" => at <= SetIdle)
      /\ Now.name = "HidRead" <=> at = HidRead
      /\ SetIdle = 11 /\ HidRead = 13 /\ Ended' = Ended
  BY <1>0, <1>1, OrderSound DEF IInv, Typed, Now, SetIdle, HidRead, Ended
<1>3. \A x : Under(x) <=> q = x
  BY <1>0, <1>1 DEF Under
<1>4. Kind = KindOf(q)
  BY <1>0 DEF Kind, KindOf
<1>5. event \in Events /\ EventShape(event) /\ Typed /\ Shapes
  BY DEF IInv, Typed, Shapes
<1>6. /\ event' \in Events /\ EventShape(event')
      /\ \A c : None(event, c) => None(event', c)
  <2>1. \A c : None(event, c) => None(event', c)
    BY <1>1, <1>5, PolledKeeps
  <2>2. QED
    BY <1>1, <1>5, <2>1, PolledSound
<1>7. e.ok \in BOOLEAN
  BY <1>5, VisibleSound DEF Event
<1>8. /\ "cmd" \in Rings /\ "ep0" \in Rings /\ "hid" \in Rings /\ Rings = {"cmd", "ep0", "hid"}
      /\ KindOf("cmd") = "command" /\ KindOf("ep0") = "transfer" /\ KindOf("hid") = "transfer"
  BY DEF Rings, KindOf
<1>9. CASE ~Answers(e)
  <2>1. UNCHANGED <<at, posted, got, ring>> /\ e.kind # KindOf(q)
    BY <1>4, <1>9 DEF Poll, Answers
  <2>2. (Waiting(q) => Waiting(q)') /\ (Answered(q) => Answered(q)')
    BY <1>1, <1>2, <1>5, <2>1, UndisturbedByPoll
  <2>3. \A x : Under(x)' <=> Under(x)
    BY <2>1 DEF Under, Now
  <2>4. Typed'
    BY <1>1, <1>6, <2>1 DEF IInv, Typed, early
  <2>5. Shapes' /\ Few' /\ Own' /\ IdleGivenUp'
    BY <1>1, <1>6, <2>1 DEF IInv, Shapes, Few, Own, IdleGivenUp
  <2>6. CommandTurn'
    <3>1. CASE q = "cmd"
      BY <1>1, <1>3, <2>1, <2>2, <2>3, <3>1 DEF IInv, CommandTurn
    <3>2. CASE q # "cmd"
      BY <1>1, <1>3, <1>6, <2>1, <2>3, <3>2 DEF IInv, CommandTurn
    <3>3. QED
      BY <3>1, <3>2
  <2>7. HidTurn'
    BY <1>1, <2>1, <2>3 DEF IInv, HidTurn
  <2>8. TransferTurn'
    <3>1. CASE q = "ep0"
      BY <1>1, <1>3, <2>1, <2>2, <2>3, <3>1 DEF IInv, TransferTurn
    <3>2. CASE q = "hid"
      BY <1>1, <1>3, <2>1, <2>2, <2>3, <3>2 DEF IInv, TransferTurn
    <3>3. CASE q = "cmd"
      BY <1>1, <1>3, <1>6, <2>1, <2>3, <3>3 DEF IInv, TransferTurn
    <3>4. QED
      BY <1>2, <1>8, <3>1, <3>2, <3>3
  <2>9. QED
    BY <2>4, <2>5, <2>6, <2>7, <2>8 DEF IInv
<1>10. CASE Answers(e)
  <2>1. /\ at' \in After(e.ok) /\ posted' = FALSE
        /\ got' = IF e.ok THEN [step |-> Now.name, of |-> e.of] ELSE got
        /\ ring' = IF e.ok /\ Now.name = "HidRead"
                   THEN [ring EXCEPT !["hid"] = Pushed(@, "HidRead", TRUE)] ELSE ring
        /\ e.kind = KindOf(q)
    BY <1>4, <1>10 DEF Poll, Answers
  <2>2. at' \in at + 1 .. Ended /\ (~e.ok /\ at # SetIdle => at' = Ended)
    BY <1>1, <1>5, <1>7, <2>1, AfterSound
  <2> HIDE DEF e
  <2>3. q = "cmd" \/ "SetIdle" \notin givenUp =>
          /\ e.of = Now.name
          /\ e.ok => q \notin halted /\ (q = "hid" => report)
          /\ Count(ring[q]) = 0 \/ q \in halted
          /\ None(event', KindOf(q))
    BY <1>1, <1>2, <1>3, <2>1, PolledAnswer DEF e
  <2>4. CASE q = "hid"
    <3>1. at' = Ended
      BY <1>2, <2>2, <2>4
    <3>2. Count(ring["hid"]) <= 1 /\ ring["hid"] \in Ring /\ RingShape(ring["hid"])
      BY <1>1, <1>3, <1>5, <1>8, <2>4 DEF IInv, HidTurn, Typed, Shapes
    <3>3. Count(ring["hid"]) \in 0 .. 1
      BY <3>2, FollowedSound, Sizes
    <3>4. /\ ring' \in [Rings -> Ring] /\ \A x \in Rings : RingShape(ring'[x])
          /\ \A x \in Rings : Count(ring'[x]) <= 3
      <4>1. CASE ring' = ring
        BY <1>5, <4>1 DEF IInv, Typed, Shapes, Few
      <4>2. CASE ring' = [ring EXCEPT !["hid"] = Pushed(@, "HidRead", TRUE)]
        <5> DEFINE p == Pushed(ring["hid"], "HidRead", TRUE)
        <5>1. Count(ring["hid"]) < Link - 1
          BY <3>3 DEF Link
        <5>2. "HidRead" \in Called /\ TRUE \in BOOLEAN
          BY <1>2, <2>4, OrderSound DEF Now
        <5>3. p \in Ring /\ RingShape(p) /\ Count(p) = Count(ring["hid"]) + 1
          BY <3>2, <5>1, <5>2, PushSound, ZenonT(60)
        <5> HIDE DEF p
        <5>4. ring \in [Rings -> Ring] /\ ring' = [ring EXCEPT !["hid"] = p]
          BY <1>5, <4>2 DEF Typed, p
        <5>5. ring'["hid"] = p /\ \A x \in Rings : x # "hid" => ring'[x] = ring[x]
          BY <1>8, <5>4
        <5>6. Count(p) <= 3
          BY <3>3, <5>3
        <5>7. \A x \in Rings : RingShape(ring'[x]) /\ Count(ring'[x]) <= 3
          BY <1>5, <5>3, <5>5, <5>6 DEF IInv, Shapes, Few
        <5>8. ring' \in [Rings -> Ring]
          BY <5>3, <5>4
        <5>9. QED
          BY <5>7, <5>8
      <4>3. QED
        BY <2>1, <4>1, <4>2
    <3>5. Typed'
      <4>1. at' \in 1 .. Ended
        BY <1>2, <2>2
      <4>2. ring' \in [Rings -> Ring] /\ posted' = FALSE
        BY <2>1, <3>4
      <4>3. QED
        BY <1>1, <1>2, <1>6, <4>1, <4>2 DEF IInv, Typed, early
    <3>6. Shapes' /\ Few'
      BY <1>6, <3>4 DEF Shapes, Few
    <3>7. Own'
      BY <1>1, <2>1, <2>3, <2>4 DEF IInv, Own
    <3>8. QED
      BY <3>1, <3>5, <3>6, <3>7, EndSound
  <2>5. CASE q # "hid"
    <3>1. ring' = ring /\ at # HidRead /\ Now.name # "HidRead"
      BY <1>2, <2>1, <2>5
    <3>2. q = "ep0" => "SetIdle" \notin givenUp
      BY <1>2 DEF IInv, IdleGivenUp
    <3>3. /\ e.of = Now.name
          /\ e.ok => q \notin halted
          /\ Count(ring[q]) = 0 \/ q \in halted
          /\ None(event', KindOf(q))
      BY <1>2, <1>8, <2>3, <2>5, <3>2
    <3>4. Typed'
      <4>1. at' \in 1 .. Ended
        BY <1>2, <2>2
      <4>2. QED
        BY <1>1, <1>2, <1>6, <2>1, <3>1, <4>1 DEF IInv, Typed, early
    <3>5. Shapes' /\ Few'
      BY <1>6, <3>1 DEF IInv, Shapes, Few
    <3>6. Own'
      BY <1>1, <2>1, <3>1, <3>3 DEF IInv, Own
    <3>7. IdleGivenUp'
      BY <1>1, <1>2, <2>2 DEF IInv, IdleGivenUp
    <3>8. \A x : ~Under(x)'
      BY <2>1 DEF Under
    <3>9. HidTurn'
      BY <1>1, <1>3, <2>5, <3>1, <3>8 DEF IInv, HidTurn
    <3>10. CASE q = "cmd"
      <4>1. CommandTurn'
        BY <1>5, <1>8, <3>1, <3>3, <3>8, <3>10 DEF Typed, CommandTurn
      <4>2. TransferTurn'
        <5>1. at > SetIdle => at' > SetIdle
          BY <1>2, <2>2
        <5>2. ~Under("ep0") /\ ~Under("hid")
          BY <1>3, <3>10
        <5>3. "SetIdle" \notin givenUp =>
                /\ "ep0" \in halted => at > SetIdle
                /\ "ep0" \notin halted => Count(ring["ep0"]) = 0
                /\ None(event, "transfer")
          BY <1>1, <5>2 DEF IInv, TransferTurn
        <5>4. QED
          BY <1>1, <1>6, <3>1, <3>8, <5>1, <5>3 DEF TransferTurn
      <4>3. QED
        BY <3>4, <3>5, <3>6, <3>7, <3>9, <4>1, <4>2 DEF IInv
    <3>11. CASE q = "ep0"
      <4>1. CommandTurn'
        BY <1>1, <1>3, <1>6, <3>1, <3>8, <3>11 DEF IInv, CommandTurn
      <4>2. TransferTurn'
        <5>1. "ep0" \in halted /\ at' # Ended => at' > SetIdle
          BY <1>2, <2>2, <3>3, <3>11
        <5>2. "ep0" \notin halted => Count(ring["ep0"]) = 0
          BY <3>3, <3>11
        <5>3. None(event', "transfer")
          BY <1>8, <3>3, <3>11
        <5>4. QED
          BY <1>1, <1>2, <3>1, <3>8, <5>1, <5>2, <5>3 DEF TransferTurn
      <4>3. QED
        BY <3>4, <3>5, <3>6, <3>7, <3>9, <4>1, <4>2 DEF IInv
    <3>12. QED
      BY <1>2, <1>8, <2>5, <3>10, <3>11
  <2>6. QED
    BY <2>4, <2>5
<1>11. QED
  BY <1>9, <1>10

---------------------------------------------------------------------------
(* The theorems *)

LEMMA StepSound ==
  ASSUME IInv, RingTrbs > 4, [Next]_vars
  PROVE  IInv'
<1>1. CASE Early
  <2>1. Typed' /\ UNCHANGED asked
    BY <1>1, EarlyTyped DEF IInv
  <2>2. QED
    BY <2>1, AskedUnchanged
<1>2. CASE Deadline \/ NotPosted
  BY <1>2, GivesUpSound
<1>3. CASE Asked
  <2>1. \E name : Asks(name)
    BY <1>3 DEF Asked, EnableSlot, AddressDevive, GetDeviceDescriptor, EvaluateContext, GetConfigDescriptor,
                SetConfiguration, SetBootProtocol, ConfigureHidEndpoint, QueueHidRead
  <2>2. QED
    BY <2>1, AsksSound
<1>4. CASE Poll
  BY <1>4, PollSound
<1>5. CASE TimeOut
  BY <1>5, TimeOutSound
<1>6. CASE \E q \in Rings : Execute(q)
  BY <1>6, ExecuteSound
<1>7. CASE \E p \in Ports : PortChange(p) \/ PortResets(p)
  BY <1>7, PortTellsSound
<1>8. CASE UNCHANGED vars
  <2>1. Typed' /\ UNCHANGED asked
    BY <1>8 DEF IInv, Typed, asked, vars, early
  <2>2. QED
    BY <2>1, AskedUnchanged
<1>9. QED
  BY <1>1, <1>2, <1>3, <1>4, <1>5, <1>6, <1>7, <1>8 DEF Next, Driver, Early

THEOREM InvariantSound ==
  ASSUME RingTrbs > 4
  PROVE  Spec => []IInv
<1>1. Init => IInv
  BY InitSound
<1>2. IInv /\ [Next]_vars => IInv'
  BY StepSound
<1>3. QED
  BY <1>1, <1>2, PTL DEF Spec

(* No function returns the success of a TRB that is not its own, although   *)
(* none looks which TRB an event answers (WaitCommand, ControlIn,          *)
(* ControlOut, PollHidReport), and no report is read that was not written. *)
(* The rings must be longer than four entries: the link, the three a       *)
(* control transfer puts in, and one the driver must not come up to.       *)
THEOREM AnswersOwnSound ==
  ASSUME RingTrbs > 4
  PROVE  Spec => []AnswersOwn
<1>1. IInv => AnswersOwn
  <2> SUFFICES ASSUME IInv PROVE AnswersOwn
    OBVIOUS
  <2>1. \A q \in Rings : ring[q].enqueue \in Indexes /\ ring[q].dequeue \in 0 .. Link
    <3> SUFFICES ASSUME NEW q \in Rings PROVE ring[q].enqueue \in Indexes /\ ring[q].dequeue \in 0 .. Link
      OBVIOUS
    <3>1. ring[q] \in Ring
      BY DEF IInv, Typed
    <3>2. QED
      BY <3>1, RingTyped DEF Indexes
  <2>2. event.dequeue \in 0 .. EventTrbs - 1 /\ event.enqueue \in 0 .. EventTrbs - 1
    BY EventsTyped DEF IInv, Typed, Shapes, Place
  <2>3. TypeOK
    BY <2>1, <2>2 DEF IInv, Typed, TypeOK
  <2>4. QED
    BY <2>3 DEF IInv, Own, AnswersOwn
<1>2. QED
  BY <1>1, InvariantSound, PTL

(* The registers of the ports, and the port that is looked at, whatever the *)
(* rings hold.                                                             *)
PortsTyped ==
  /\ port \in [Ports -> SUBSET Bits] /\ next \in 1 .. MaxPorts + 1
  /\ stage = "port" => next \in Ports

(* What a port function writes: it disables the port only to reset it.     *)
LEMMA PortStep ==
  ASSUME PortsTyped, [Next]_vars
  PROVE  /\ PortsTyped'
         /\ \A p \in Ports : ("PED" \in port[p] /\ "PED" \notin port'[p]) =>
              ("PR" \in port'[p] \/ "CCS" \notin port'[p])
<1> DEFINE Stays == \A p \in Ports : ("PED" \in port[p] /\ "PED" \notin port'[p]) =>
                      ("PR" \in port'[p] \/ "CCS" \notin port'[p])
<1>1. CASE ResetPort
  <2>1. next \in Ports /\ port[next] \subseteq Bits
    BY <1>1, Sizes DEF ResetPort, PortsTyped, Ports
  <2> DEFINE w == Written(port[next], Kept(port[next]) \cup {"PR"})
  <2>2. w \subseteq Bits /\ "PR" \in w
    BY <2>1 DEF Written, Bits
  <2> HIDE DEF w
  <2>3. port' = port \/ port' = [port EXCEPT ![next] = w]
    BY <1>1 DEF ResetPort, w
  <2>4. port' \in [Ports -> SUBSET Bits] /\ Stays
    BY <2>1, <2>2, <2>3 DEF PortsTyped
  <2>5. next' \in 1 .. MaxPorts + 1 /\ (stage' = "port" => next' \in Ports)
    BY <1>1, <2>1, Sizes DEF ResetPort, Steps, PortsTyped, Ports
  <2>6. QED
    BY <2>4, <2>5 DEF PortsTyped
<1>2. CASE PortReset
  <2>1. next \in Ports /\ port[next] \subseteq Bits
    BY <1>2 DEF PortReset, Steps, PortsTyped
  <2> DEFINE w == Written(port[next], Kept(port[next]) \cup {"PRC", "CSC"})
  <2>2. w \subseteq Bits /\ ("PED" \in port[next] => "PED" \in w \/ "PR" \in w)
    BY <2>1 DEF Written, Kept, Bits
  <2> HIDE DEF w
  <2>3. port' = [port EXCEPT ![next] = w]
    BY <1>2 DEF PortReset, w
  <2>4. port' \in [Ports -> SUBSET Bits] /\ Stays
    BY <2>1, <2>2, <2>3 DEF PortsTyped
  <2>5. next' \in 1 .. MaxPorts + 1 /\ stage' = "ports"
    BY <1>2, <2>1, Sizes DEF PortReset, Steps, Ports
  <2>6. QED
    BY <2>4, <2>5 DEF PortsTyped
<1>3. CASE PortTimeOut
  <2>1. next' \in 1 .. MaxPorts + 1 /\ stage' = "ports" /\ port' = port
    BY <1>3, Sizes DEF PortTimeOut, Steps, PortsTyped, Ports
  <2>2. QED
    BY <2>1 DEF PortsTyped
<1>4. ASSUME NEW x \in Ports, PortChange(x) \/ PortResets(x)
      PROVE  PortsTyped' /\ Stays
  <2>1. port[x] \subseteq Bits /\ port \in [Ports -> SUBSET Bits]
    BY DEF PortsTyped
  <2>2. PICK w \in SUBSET Bits : /\ port' = [port EXCEPT ![x] = w]
                                 /\ "PED" \in port[x] => "PED" \in w \/ "CCS" \notin w
    <3>1. CASE PortChange(x)
      <4> DEFINE v == IF "CCS" \in port[x] THEN (port[x] \ {"CCS", "PED"}) \cup {"CSC"}
                      ELSE port[x] \cup Plugged(x)
      <4>1. v \in SUBSET Bits /\ ("PED" \in port[x] => "PED" \in v \/ "CCS" \notin v)
        BY <2>1 DEF Bits, Plugged
      <4>2. port' = [port EXCEPT ![x] = v]
        BY <3>1, <2>1 DEF PortChange
      <4>3. QED
        BY <4>1, <4>2
    <3>2. CASE PortResets(x)
      <4> DEFINE v == (port[x] \ {"PR"}) \cup {"PRC"} \cup (IF "CCS" \in port[x] THEN {"PED"} ELSE {})
      <4>1. v \in SUBSET Bits /\ ("PED" \in port[x] => "PED" \in v)
        BY <2>1 DEF Bits
      <4>2. port' = [port EXCEPT ![x] = v]
        BY <3>2, <2>1 DEF PortResets
      <4>3. QED
        BY <4>1, <4>2
    <3>3. QED
      BY <1>4, <3>1, <3>2
  <2>3. port' \in [Ports -> SUBSET Bits] /\ Stays
    BY <2>1, <2>2
  <2>4. UNCHANGED <<stage, next>>
    BY <1>4 DEF PortChange, PortResets
  <2>5. QED
    BY <2>3, <2>4 DEF PortsTyped
<1>5. ASSUME UNCHANGED <<port, next>>, stage' = "port" => stage = "port"
      PROVE  PortsTyped' /\ Stays
  BY <1>5 DEF PortsTyped
<1>6. CASE TakeOwnership \/ HaltController \/ ResetController \/ StartController \/ WaitEnds
  BY <1>5, <1>6 DEF TakeOwnership, HaltController, ResetController, StartController, WaitEnds, Waits, Steps
<1>7. CASE PortsDone \/ Turns \/ Quiet \/ Deadline \/ NotPosted
  BY <1>5, <1>7 DEF PortsDone, Turns, Quiet, Deadline, NotPosted, GivesUp, Steps, vars, early
<1>8. CASE Asked \/ Poll \/ TimeOut
  <2>1. UNCHANGED early
    BY <1>8 DEF Asked, EnableSlot, AddressDevive, GetDeviceDescriptor, EvaluateContext, GetConfigDescriptor,
                SetConfiguration, SetBootProtocol, ConfigureHidEndpoint, QueueHidRead, Asks, Poll, TimeOut
  <2>2. QED
    BY <1>5, <2>1 DEF early
<1>9. CASE (\E q \in Rings : Execute(q)) \/ UNCHANGED vars
  BY <1>5, <1>9 DEF Execute, vars, early
<1>10. CASE PowerPorts
  <2>1. next \in Ports /\ port[next] \subseteq Bits
    BY <1>10, Sizes DEF PowerPorts, PortsTyped, Ports
  <2> DEFINE w == Written(port[next], Kept(port[next]) \cup {"PP"})
  <2>2. w \subseteq Bits /\ ("PED" \in port[next] => "PED" \in w \/ "PR" \in w)
    BY <2>1 DEF Written, Kept, Bits
  <2> HIDE DEF w
  <2>3. port' = port \/ port' = [port EXCEPT ![next] = w]
    BY <1>10 DEF PowerPorts, w
  <2>4. port' \in [Ports -> SUBSET Bits] /\ Stays
    BY <2>1, <2>2, <2>3 DEF PortsTyped
  <2>5. next' \in 1 .. MaxPorts + 1 /\ stage' = "power"
    BY <1>10, <2>1, Sizes DEF PowerPorts, Steps, Ports
  <2>6. QED
    BY <2>4, <2>5 DEF PortsTyped
<1>11. CASE PowerDone
  <2>1. next' \in 1 .. MaxPorts + 1 /\ stage' = "ports" /\ port' = port
    BY <1>11, Sizes DEF PowerDone, Steps
  <2>2. QED
    BY <2>1 DEF PortsTyped
<1>12. QED
  BY <1>1, <1>2, <1>3, <1>4, <1>6, <1>7, <1>8, <1>9, <1>10, <1>11 DEF Next, Driver

(* Changing a bit of a port's register does not disable the port, however  *)
(* long the rings are: the bits that 1 clears are masked (ResetPort).      *)
THEOREM PortsStayEnabledSound == Spec => PortsStayEnabled
<1>1. Init => PortsTyped
  <2> SUFFICES ASSUME Init PROVE PortsTyped
    OBVIOUS
  <2>1. port \in [Ports -> SUBSET {"PP", "CCS", "CSC", "PED"}] /\ next = 1 /\ stage = "own"
    BY DEF Init
  <2>2. QED
    BY <2>1, Sizes DEF PortsTyped, Bits
<1>2. PortsTyped /\ [Next]_vars => PortsTyped'
  BY PortStep
<1>3. PortsTyped /\ [Next]_vars =>
        [\A p \in Ports : ("PED" \in port[p] /\ "PED" \notin port'[p]) =>
           ("PR" \in port'[p] \/ "CCS" \notin port'[p])]_vars
  BY PortStep
<1>4. QED
  BY <1>1, <1>2, <1>3, PTL DEF Spec, PortsStayEnabled

---------------------------------------------------------------------------
(* Every ring is a queue *)

LEMMA PutAtEnd ==
  ASSUME NEW S, NEW s \in Seq(S), NEW t \in Seq(S), Len(t) >= Len(s), \A i \in 1 .. Len(s) : t[i] = s[i]
  PROVE  SubSeq(t, 1, Len(s)) = s
<1> DEFINE u == SubSeq(t, 1, Len(s))
<1>1. Len(s) \in Nat /\ Len(t) \in Nat
  BY LenProperties
<1>2. \A i \in 1 .. Len(s) : t[i] \in S
  BY <1>1, ElementOfSeq
<1>3. /\ u \in Seq(S) /\ Len(u) = IF 1 <= Len(s) THEN Len(s) - 1 + 1 ELSE 0
      /\ \A i \in 1 .. Len(s) - 1 + 1 : u[i] = t[1 + i - 1]
  BY <1>1, <1>2, SubSeqProperties
<1> HIDE DEF u
<1>4. Len(u) = Len(s) /\ \A i \in 1 .. Len(u) : u[i] = s[i]
  BY <1>1, <1>3
<1>5. u = s
  BY <1>3, <1>4, SeqEqual
<1>6. QED
  BY <1>5 DEF u

LEMMA TakenFromFront ==
  ASSUME NEW S, NEW s \in Seq(S), NEW t \in Seq(S), Len(t) = Len(s) - 1,
         \A i \in 1 .. Len(t) : t[i] = s[i + 1]
  PROVE  s # <<>> /\ t = Tail(s)
<1>1. Len(s) \in Nat /\ Len(t) \in Nat
  BY LenProperties
<1>2. s # <<>>
  BY <1>1, EmptySeq
<1>3. Tail(s) \in Seq(S) /\ Len(Tail(s)) = Len(s) - 1 /\ \A i \in 1 .. Len(Tail(s)) : Tail(s)[i] = s[i + 1]
  BY <1>2, HeadTailProperties
<1>4. t = Tail(s)
  <2>1. Len(t) = Len(Tail(s)) /\ \A i \in 1 .. Len(t) : t[i] = Tail(s)[i]
    BY <1>3
  <2>2. QED
    BY <1>3, <2>1, SeqEqual
<1>5. QED
  BY <1>2, <1>4

(* What the controller sees in front of it is what is counted.             *)
LEMMA PendingSound ==
  ASSUME NEW r \in Ring, RingShape(r)
  PROVE  /\ Pending(r) \in Seq(Called \X BOOLEAN) /\ Len(Pending(r)) = Count(r)
         /\ \A k \in 1 .. Count(r) : Pending(r)[k] = <<Item(r, k - 1).of, Item(r, k - 1).last>>
<1> DEFINE f == Followed(r)
           c == Count(r)
           Last(k) == (k = Link \/ ~Owned(f, k)) /\ \A j \in 0 .. k - 1 : Owned(f, j)
<1>1. /\ f \in Ring /\ RingShape(f) /\ f.dequeue # Link /\ Count(f) = c /\ c \in 0 .. Link
  BY FollowedSound
<1>2. /\ f.enqueue \in 0 .. Link - 1 /\ f.dequeue \in 0 .. Link - 1
      /\ f.cycle \in Bit /\ f.expects \in Bit /\ Link \in Nat \ {0}
  BY <1>1, RingTyped
<1> HIDE DEF f, c
<1>3. ASSUME NEW k \in 0 .. Link - 1 PROVE Owned(f, k) <=> k < c
  <2> DEFINE d == f.dequeue
  <2>1. Spot(f, k) = IF d + k < Link THEN d + k ELSE d + k - Link
    BY <1>1, <1>2, SpotSound
  <2>2. \A i \in 0 .. Link : f.trb[i].cycle = IF i < f.enqueue THEN f.cycle ELSE 1 - f.cycle
    BY <1>1 DEF RingShape
  <2>3. /\ f.trb[Link].cycle = 1 - f.cycle
        /\ d + k < Link => f.trb[d + k].cycle = IF d + k < f.enqueue THEN f.cycle ELSE 1 - f.cycle
        /\ d + k >= Link => f.trb[d + k - Link].cycle = IF d + k - Link < f.enqueue THEN f.cycle ELSE 1 - f.cycle
    <3>1. d + k < Link => d + k \in 0 .. Link
      BY <1>2
    <3>2. d + k >= Link => d + k - Link \in 0 .. Link
      BY <1>2
    <3>3. Link \in 0 .. Link /\ ~(Link < f.enqueue)
      BY <1>2
    <3>4. QED
      BY <2>2, <3>1, <3>2, <3>3
  <2>4. CASE f.expects = f.cycle
    <3>1. d <= f.enqueue /\ c = f.enqueue - d
      BY <1>1, <1>2, <2>4 DEF RingShape, Count, Bit
    <3>2. CASE d + k < Link
      BY <1>2, <2>3, <2>4, <3>1, <3>2 DEF Owned, Bit
    <3>3. CASE d + k >= Link
      <4>1. ~Owned(f, k)
        BY <1>2, <2>3, <2>4, <3>3 DEF Owned, Bit
      <4>2. ~(k < c)
        BY <1>2, <3>1, <3>3
      <4>3. QED
        BY <4>1, <4>2
    <3>4. QED
      BY <1>2, <3>2, <3>3
  <2>5. CASE f.expects # f.cycle
    <3>1. f.enqueue <= d /\ c = f.enqueue + Link - d /\ f.expects = 1 - f.cycle
      BY <1>1, <1>2, <2>5 DEF RingShape, Count, Bit
    <3>2. CASE d + k < Link
      BY <1>2, <2>3, <3>1, <3>2 DEF Owned, Bit
    <3>3. CASE d + k >= Link
      BY <1>2, <2>1, <2>3, <3>1, <3>3 DEF Owned, Bit
    <3>4. QED
      BY <1>2, <3>2, <3>3
  <2>6. QED
    BY <2>4, <2>5
<1>4. ASSUME NEW k \in 0 .. Link PROVE Last(k) <=> k = c
  <2>1. CASE k < c
    <3>1. k # Link /\ k \in 0 .. Link - 1
      BY <1>1, <1>2, <2>1
    <3>2. QED
      BY <1>3, <2>1, <3>1
  <2>2. CASE k > c
    <3>1. c \in 0 .. k - 1 /\ c \in 0 .. Link - 1 /\ ~(c < c)
      BY <1>1, <1>2, <2>2
    <3>2. QED
      BY <1>3, <2>2, <3>1
  <2>3. CASE k = c
    <3>1. k # Link => k \in 0 .. Link - 1 /\ ~(k < c)
      BY <1>1, <1>2, <2>3
    <3>2. \A j \in 0 .. k - 1 : j \in 0 .. Link - 1 /\ j < c
      BY <1>1, <1>2, <2>3
    <3>3. QED
      BY <1>3, <2>3, <3>1, <3>2
  <2>4. QED
    BY <1>1, <1>2, <2>1, <2>2, <2>3
<1>5. (CHOOSE k \in 0 .. Link : Last(k)) = c
  BY <1>1, <1>4
<1>6. Pending(r) = [k \in 1 .. c |-> <<Item(r, k - 1).of, Item(r, k - 1).last>>]
  BY <1>5 DEF Pending, f, Item
<1>7. ASSUME NEW k \in 1 .. c PROVE <<Item(r, k - 1).of, Item(r, k - 1).last>> \in Called \X BOOLEAN
  <2>1. k - 1 \in 0 .. Link
    BY <1>1, <1>2
  <2>2. Spot(f, k - 1) \in 0 .. Link
    BY <1>1, <1>2, <2>1, SpotSound
  <2>3. Item(r, k - 1) \in Trb
    BY <1>1, <2>2, RingTyped DEF Item, f
  <2>4. QED
    BY <2>3 DEF Trb
<1>8. c \in Nat
  BY <1>1, <1>2
<1>9. Pending(r) \in Seq(Called \X BOOLEAN) /\ Len(Pending(r)) = c
  BY <1>6, <1>7, <1>8
<1>10. QED
  BY <1>6, <1>9 DEF c

LEMMA UnreadSound ==
  ASSUME NEW e \in Events, EventShape(e)
  PROVE  /\ Unread(e) \in Seq({"none", "command", "transfer", "port"} \X Called \X BOOLEAN)
         /\ Len(Unread(e)) = Unseen(e)
         /\ \A k \in 1 .. Unseen(e) : Unread(e)[k] = <<Told(e, k - 1).kind, Told(e, k - 1).of, Told(e, k - 1).ok>>
<1> DEFINE u == Unseen(e)
           d == e.dequeue
           spot(k) == (e.dequeue + k) % EventTrbs
           owned(k) == e.trb[spot(k)].cycle = IF e.dequeue + k < EventTrbs THEN e.cycle ELSE 1 - e.cycle
           Last(k) == (k = EventTrbs \/ ~owned(k)) /\ \A j \in 0 .. k - 1 : owned(j)
           S == {"none", "command", "transfer", "port"} \X Called \X BOOLEAN
<1>1. /\ e.trb \in [Place -> Event] /\ e.enqueue \in Place /\ e.dequeue \in Place
      /\ e.writes \in Bit /\ e.cycle \in Bit
      /\ EventTrbs \in Nat /\ EventTrbs > 1 /\ u \in 0 .. EventTrbs - 1
  BY EventsTyped
<1> HIDE DEF u
<1>2. ASSUME NEW k \in 0 .. EventTrbs - 1 PROVE owned(k) <=> k < u
  <2>1. spot(k) \in Place /\ spot(k) = IF d + k < EventTrbs THEN d + k ELSE d + k - EventTrbs
    <3>1. k \in 0 .. EventTrbs
      BY <1>1
    <3> HIDE DEF d
    <3>2. /\ (e.dequeue + k) % EventTrbs \in Place
          /\ (e.dequeue + k) % EventTrbs =
               IF e.dequeue + k < EventTrbs THEN e.dequeue + k ELSE e.dequeue + k - EventTrbs
      BY <1>1, <3>1, PlaceSound, Zenon
    <3>3. QED
      BY <3>2 DEF d
  <2>2. e.trb[spot(k)].cycle = IF spot(k) < e.enqueue THEN e.writes ELSE 1 - e.writes
    BY <2>1 DEF EventShape
  <2> DEFINE i == spot(k)
             v == e.trb[spot(k)].cycle
  <2>3. owned(k) <=> v = IF d + k < EventTrbs THEN e.cycle ELSE 1 - e.cycle
    OBVIOUS
  <2>4. i = IF d + k < EventTrbs THEN d + k ELSE d + k - EventTrbs
    BY <2>1
  <2>5. v = IF i < e.enqueue THEN e.writes ELSE 1 - e.writes
    BY <2>2
  <2> HIDE DEF i, v, owned
  <2>6. CASE e.writes = e.cycle
    <3>1. d <= e.enqueue /\ u = e.enqueue - d
      BY <1>1, <2>6 DEF EventShape, Unseen, Bit, Place, u
    <3>2. QED
      BY <1>1, <2>3, <2>4, <2>5, <2>6, <3>1 DEF Bit, Place
  <2>7. CASE e.writes # e.cycle
    <3>1. e.enqueue < d /\ u = e.enqueue + EventTrbs - d /\ e.writes = 1 - e.cycle
      BY <1>1, <2>7 DEF EventShape, Unseen, Bit, Place, u
    <3>2. QED
      BY <1>1, <2>3, <2>4, <2>5, <3>1 DEF Bit, Place
  <2>8. QED
    BY <2>6, <2>7
<1> HIDE DEF owned
<1>3. ASSUME NEW k \in 0 .. EventTrbs PROVE Last(k) <=> k = u
  <2>1. CASE k < u
    <3>1. k # EventTrbs /\ k \in 0 .. EventTrbs - 1
      BY <1>1, <2>1
    <3>2. QED
      BY <1>2, <2>1, <3>1
  <2>2. CASE k > u
    <3>1. u \in 0 .. k - 1 /\ u \in 0 .. EventTrbs - 1 /\ ~(u < u)
      BY <1>1, <2>2
    <3>2. QED
      BY <1>2, <2>2, <3>1
  <2>3. CASE k = u
    <3>1. k \in 0 .. EventTrbs - 1 /\ ~(k < u)
      BY <1>1, <2>3
    <3>2. \A j \in 0 .. k - 1 : j \in 0 .. EventTrbs - 1 /\ j < u
      BY <1>1, <2>3
    <3>3. QED
      BY <1>2, <2>3, <3>1, <3>2
  <2>4. QED
    BY <1>1, <2>1, <2>2, <2>3
<1>4. (CHOOSE k \in 0 .. EventTrbs : Last(k)) = u
  BY <1>1, <1>3
<1>5. Unread(e) = [k \in 1 .. u |-> <<Told(e, k - 1).kind, Told(e, k - 1).of, Told(e, k - 1).ok>>]
  BY <1>4 DEF Unread, Told, owned
<1>6. ASSUME NEW k \in 1 .. u PROVE <<Told(e, k - 1).kind, Told(e, k - 1).of, Told(e, k - 1).ok>> \in S
  <2>1. k - 1 \in 0 .. EventTrbs
    BY <1>1
  <2>2. Told(e, k - 1) \in Event
    BY <1>1, <2>1, PlaceSound DEF Told
  <2>3. QED
    BY <2>2 DEF Event
<1>7. u \in Nat
  BY <1>1
<1> HIDE DEF S
<1>8. Unread(e) \in Seq(S) /\ Len(Unread(e)) = u
  BY <1>5, <1>6, <1>7
<1>9. QED
  BY <1>5, <1>8 DEF u, S

(* What one side does to a queue. *)
Longer(s, t) == \E n \in 1 .. 3 : Len(t) = Len(s) + n /\ SubSeq(t, 1, Len(s)) = s
Shorter(s, t) == s # <<>> /\ t = Tail(s)

LEMMA PushIsPut ==
  ASSUME NEW r \in Ring, RingShape(r), Count(r) < Link - 1, NEW of \in Called, NEW last \in BOOLEAN
  PROVE  Longer(Pending(r), Pending(Pushed(r, of, last)))
<1> DEFINE p == Pushed(r, of, last)
           S == Called \X BOOLEAN
<1>1. /\ p \in Ring /\ RingShape(p) /\ Count(p) = Count(r) + 1
      /\ \A k \in 0 .. Count(r) - 1 : Item(p, k).of = Item(r, k).of /\ Item(p, k).last = Item(r, k).last
  <2>1. p \in Ring /\ RingShape(p) /\ Count(p) = Count(r) + 1
    BY PushSound, ZenonT(60)
  <2>2. ASSUME NEW k \in 0 .. Count(r) - 1
        PROVE  Item(p, k).of = Item(r, k).of /\ Item(p, k).last = Item(r, k).last
    BY PushSound
  <2>3. QED
    BY <2>1, <2>2
<1> HIDE DEF p
<1>2. /\ Pending(r) \in Seq(S) /\ Len(Pending(r)) = Count(r)
      /\ \A k \in 1 .. Count(r) : Pending(r)[k] = <<Item(r, k - 1).of, Item(r, k - 1).last>>
  BY PendingSound
<1>3. /\ Pending(p) \in Seq(S) /\ Len(Pending(p)) = Count(p)
      /\ \A k \in 1 .. Count(p) : Pending(p)[k] = <<Item(p, k - 1).of, Item(p, k - 1).last>>
  BY <1>1, PendingSound
<1> HIDE DEF S
<1>4. Count(r) \in Nat
  BY FollowedSound, Sizes
<1>5. \A k \in 1 .. Count(r) : k - 1 \in 0 .. Count(r) - 1 /\ k \in 1 .. Count(p)
  BY <1>1, <1>4
<1>6. \A k \in 1 .. Len(Pending(r)) : Pending(p)[k] = Pending(r)[k]
  BY <1>1, <1>2, <1>3, <1>5
<1>7. SubSeq(Pending(p), 1, Len(Pending(r))) = Pending(r)
  BY <1>1, <1>2, <1>3, <1>4, <1>6, PutAtEnd
<1>8. Len(Pending(p)) = Len(Pending(r)) + 1
  BY <1>1, <1>2, <1>3
<1>9. QED
  BY <1>7, <1>8 DEF Longer, p

LEMMA AskIsPut ==
  ASSUME NEW r \in Ring, RingShape(r), Count(r) = 0, RingTrbs > 4, NEW i \in 1 .. 13
  PROVE  Longer(Pending(r), Pending(PushedAll(r, Order[i])))
<1> DEFINE p == PushedAll(r, Order[i])
           S == Called \X BOOLEAN
<1>1. p \in Ring /\ RingShape(p) /\ Count(p) = Order[i].trbs /\ Order[i].trbs \in 1 .. 3
  BY PushedAllSound, OrderSound
<1> HIDE DEF p
<1>2. Pending(r) \in Seq(S) /\ Len(Pending(r)) = 0
  BY PendingSound
<1>3. Pending(p) \in Seq(S) /\ Len(Pending(p)) = Order[i].trbs
  BY <1>1, PendingSound
<1> HIDE DEF S
<1>4. SubSeq(Pending(p), 1, Len(Pending(r))) = Pending(r)
  BY <1>1, <1>2, <1>3, PutAtEnd
<1>5. QED
  BY <1>1, <1>2, <1>3, <1>4 DEF Longer, p

LEMMA AdvanceIsTake ==
  ASSUME NEW r \in Ring, RingShape(r), Ready(r)
  PROVE  Shorter(Pending(r), Pending(Advanced(r)))
<1> DEFINE a == Advanced(r)
           S == Called \X BOOLEAN
<1>1. /\ a \in Ring /\ RingShape(a) /\ Count(a) = Count(r) - 1
      /\ \A k \in 0 .. Count(a) - 1 : Item(a, k) = Item(r, k + 1)
  BY AdvanceSound
<1> HIDE DEF a
<1>2. /\ Pending(r) \in Seq(S) /\ Len(Pending(r)) = Count(r)
      /\ \A k \in 1 .. Count(r) : Pending(r)[k] = <<Item(r, k - 1).of, Item(r, k - 1).last>>
  BY PendingSound
<1>3. /\ Pending(a) \in Seq(S) /\ Len(Pending(a)) = Count(a)
      /\ \A k \in 1 .. Count(a) : Pending(a)[k] = <<Item(a, k - 1).of, Item(a, k - 1).last>>
  BY <1>1, PendingSound
<1> HIDE DEF S
<1>4. Count(r) \in Nat
  BY FollowedSound, Sizes
<1>5. \A k \in 1 .. Count(a) : /\ k - 1 \in 0 .. Count(a) - 1 /\ k + 1 \in 1 .. Count(r)
                               /\ (k - 1) + 1 = (k + 1) - 1
  BY <1>1, <1>4
<1>6. \A k \in 1 .. Len(Pending(a)) : Pending(a)[k] = Pending(r)[k + 1]
  <2> SUFFICES ASSUME NEW k \in 1 .. Count(a) PROVE Pending(a)[k] = Pending(r)[k + 1]
    BY <1>3
  <2>1. Item(a, k - 1) = Item(r, (k + 1) - 1)
    BY <1>1, <1>5
  <2>2. QED
    BY <1>2, <1>3, <1>5, <2>1
<1>7. Pending(r) # <<>> /\ Pending(a) = Tail(Pending(r))
  BY <1>1, <1>2, <1>3, <1>6, TakenFromFront
<1>8. QED
  BY <1>7 DEF Shorter, a

LEMMA SentIsPut ==
  ASSUME NEW e \in Events, EventShape(e), Room(e),
         NEW kind \in {"none", "command", "transfer", "port"}, NEW of \in Called, NEW ok \in BOOLEAN
  PROVE  Longer(Unread(e), Unread(Sent(e, kind, of, ok)))
<1> DEFINE s == Sent(e, kind, of, ok)
           S == {"none", "command", "transfer", "port"} \X Called \X BOOLEAN
<1>1. /\ s \in Events /\ EventShape(s) /\ Unseen(s) = Unseen(e) + 1 /\ Unseen(e) \in Nat
      /\ \A k \in 0 .. Unseen(e) - 1 : Told(s, k) = Told(e, k)
  BY SentSound, EventsTyped
<1> HIDE DEF s
<1>2. /\ Unread(e) \in Seq(S) /\ Len(Unread(e)) = Unseen(e)
      /\ \A k \in 1 .. Unseen(e) : Unread(e)[k] = <<Told(e, k - 1).kind, Told(e, k - 1).of, Told(e, k - 1).ok>>
  BY UnreadSound
<1>3. /\ Unread(s) \in Seq(S) /\ Len(Unread(s)) = Unseen(s)
      /\ \A k \in 1 .. Unseen(s) : Unread(s)[k] = <<Told(s, k - 1).kind, Told(s, k - 1).of, Told(s, k - 1).ok>>
  BY <1>1, UnreadSound
<1> HIDE DEF S
<1>4. \A k \in 1 .. Unseen(e) : k - 1 \in 0 .. Unseen(e) - 1 /\ k \in 1 .. Unseen(s)
  BY <1>1
<1>5. \A k \in 1 .. Len(Unread(e)) : Unread(s)[k] = Unread(e)[k]
  BY <1>1, <1>2, <1>3, <1>4
<1>6. SubSeq(Unread(s), 1, Len(Unread(e))) = Unread(e)
  BY <1>1, <1>2, <1>3, <1>5, PutAtEnd
<1>7. Len(Unread(s)) = Len(Unread(e)) + 1
  BY <1>1, <1>2, <1>3
<1>8. QED
  BY <1>6, <1>7 DEF Longer, s

LEMMA PolledIsTake ==
  ASSUME NEW e \in Events, EventShape(e), Visible(e)
  PROVE  Shorter(Unread(e), Unread(Polled(e)))
<1> DEFINE p == Polled(e)
           S == {"none", "command", "transfer", "port"} \X Called \X BOOLEAN
<1>1. /\ p \in Events /\ EventShape(p) /\ Unseen(p) = Unseen(e) - 1 /\ Unseen(e) \in Nat
      /\ \A k \in 0 .. Unseen(p) - 1 : Told(p, k) = Told(e, k + 1)
  BY PolledSound, EventsTyped
<1> HIDE DEF p
<1>2. /\ Unread(e) \in Seq(S) /\ Len(Unread(e)) = Unseen(e)
      /\ \A k \in 1 .. Unseen(e) : Unread(e)[k] = <<Told(e, k - 1).kind, Told(e, k - 1).of, Told(e, k - 1).ok>>
  BY UnreadSound
<1>3. /\ Unread(p) \in Seq(S) /\ Len(Unread(p)) = Unseen(p)
      /\ \A k \in 1 .. Unseen(p) : Unread(p)[k] = <<Told(p, k - 1).kind, Told(p, k - 1).of, Told(p, k - 1).ok>>
  BY <1>1, UnreadSound
<1> HIDE DEF S
<1>4. \A k \in 1 .. Unseen(p) : /\ k - 1 \in 0 .. Unseen(p) - 1 /\ k + 1 \in 1 .. Unseen(e)
                                /\ (k - 1) + 1 = (k + 1) - 1
  BY <1>1
<1>5. \A k \in 1 .. Len(Unread(p)) : Unread(p)[k] = Unread(e)[k + 1]
  <2> SUFFICES ASSUME NEW k \in 1 .. Unseen(p) PROVE Unread(p)[k] = Unread(e)[k + 1]
    BY <1>3
  <2>1. Told(p, k - 1) = Told(e, (k + 1) - 1)
    BY <1>1, <1>4
  <2>2. QED
    BY <1>2, <1>3, <1>4, <2>1
<1>6. Unread(e) # <<>> /\ Unread(p) = Tail(Unread(e))
  BY <1>1, <1>2, <1>3, <1>5, TakenFromFront
<1>7. QED
  BY <1>6 DEF Shorter, p

(* A step that does to every ring what a queue allows is a step of queues. *)
LEMMA QueueStep ==
  ASSUME \A q \in Rings : \/ Pending(ring'[q]) = Pending(ring[q])
                          \/ Longer(Pending(ring[q]), Pending(ring'[q]))
                          \/ Shorter(Pending(ring[q]), Pending(ring'[q])),
         \/ Unread(event') = Unread(event)
         \/ Longer(Unread(event), Unread(event'))
         \/ Shorter(Unread(event), Unread(event')),
         ~posted /\ posted' => \E q \in Rings : Longer(Pending(ring[q]), Pending(ring'[q]))
  PROVE  Queued!Next
<1> DEFINE queue == [q \in Rings \cup {"event"} |-> IF q = "event" THEN Unread(event) ELSE Pending(ring[q])]
<1>1. "event" \notin Rings
  BY DEF Rings
<1>2. /\ \A q \in Rings : queue[q] = Pending(ring[q]) /\ queue'[q] = Pending(ring'[q])
      /\ queue["event"] = Unread(event) /\ queue'["event"] = Unread(event')
  BY <1>1
<1> HIDE DEF queue
<1>3. \A q : Longer(queue[q], queue'[q]) => Queued!Put(queue[q], queue'[q])
  BY DEF Longer, Queued!Put
<1>4. \A q : Shorter(queue[q], queue'[q]) => Queued!Take(queue[q], queue'[q])
  BY DEF Shorter, Queued!Take
<1>5. \A q \in Rings \cup {"event"} : \/ queue'[q] = queue[q]
          \/ Queued!Put(queue[q], queue'[q]) \/ Queued!Take(queue[q], queue'[q])
  BY <1>2, <1>3, <1>4
<1>6. ~posted /\ posted' => \E q \in Rings \cup {"event"} : Queued!Put(queue[q], queue'[q])
  BY <1>2, <1>3
<1>7. QED
  BY <1>2, <1>5, <1>6 DEF Queued!Next, queue

LEMMA SamePending ==
  ASSUME UNCHANGED <<ring, event>>, posted' => posted
  PROVE  Queued!Next
BY QueueStep

LEMMA TellIsPut ==
  ASSUME Typed, Shapes,
         NEW kind \in {"none", "command", "transfer", "port"}, NEW of \in Called, NEW ok \in BOOLEAN,
         event' = event \/ (Room(event) /\ event' = Sent(event, kind, of, ok))
  PROVE  Unread(event') = Unread(event) \/ Longer(Unread(event), Unread(event'))
<1>1. event \in Events /\ EventShape(event)
  BY DEF Typed, Shapes
<1>2. CASE event' = event
  BY <1>2
<1>3. CASE Room(event) /\ event' = Sent(event, kind, of, ok)
  BY <1>1, <1>3, SentIsPut
<1>4. QED
  BY <1>2, <1>3

LEMMA AsksIsPut ==
  ASSUME IInv, RingTrbs > 4, NEW name, Asks(name)
  PROVE  Queued!Next
<1>0. PICK q : q = Now.in
  OBVIOUS
<1>1. /\ at \in 1 .. 13 /\ q \in Rings
      /\ ring' = [ring EXCEPT ![q] = PushedAll(@, Now)] /\ event' = event
  BY <1>0, OrderSound DEF Asks, Idle, IInv, Typed, Now
<1>2. ring[q] \in Ring /\ RingShape(ring[q]) /\ Count(ring[q]) = 0
  BY <1>0, AsksSound
<1>3. ring'[q] = PushedAll(ring[q], Order[at]) /\ \A x \in Rings : x # q => ring'[x] = ring[x]
  BY <1>1 DEF IInv, Typed, Now
<1>4. Longer(Pending(ring[q]), Pending(ring'[q]))
  BY <1>1, <1>2, <1>3, AskIsPut
<1>5. QED
  BY <1>1, <1>3, <1>4, QueueStep

LEMMA PollIsTake ==
  ASSUME IInv, RingTrbs > 4, Poll
  PROVE  Queued!Next
<1>1. Shorter(Unread(event), Unread(event'))
  BY PolledIsTake DEF Poll, IInv, Typed, Shapes
<1>2. posted /\ at \in 1 .. 13 /\ ring \in [Rings -> Ring]
  BY OrderSound DEF Poll, IInv, Typed
<1>3. CASE ring' = ring
  BY <1>1, <1>2, <1>3, QueueStep
<1>4. CASE Now.name = "HidRead" /\ ring' = [ring EXCEPT !["hid"] = Pushed(@, "HidRead", TRUE)]
  <2>1. at = HidRead /\ Now.in = "hid" /\ "HidRead" \in Called
    BY <1>2, <1>4, OrderSound DEF Now
  <2>2. at # Ended /\ Under("hid") /\ "hid" \in Rings
    BY <1>2, <2>1, OrderSound DEF Under, HidRead, Rings
  <2>3. ring["hid"] \in Ring /\ RingShape(ring["hid"]) /\ Count(ring["hid"]) <= 1
    BY <2>2 DEF IInv, Typed, Shapes, HidTurn
  <2>4. Count(ring["hid"]) < Link - 1
    <3>1. Count(ring["hid"]) \in 0 .. Link
      BY <2>3, FollowedSound
    <3>2. QED
      BY <2>3, <3>1, Sizes DEF Link
  <2>5. ring'["hid"] = Pushed(ring["hid"], "HidRead", TRUE) /\ \A x \in Rings : x # "hid" => ring'[x] = ring[x]
    BY <1>2, <1>4, <2>2
  <2>6. Longer(Pending(ring["hid"]), Pending(ring'["hid"]))
    BY <2>1, <2>3, <2>4, <2>5, PushIsPut
  <2>7. QED
    BY <1>1, <1>2, <2>5, <2>6, QueueStep
<1>5. QED
  BY <1>3, <1>4 DEF Poll

LEMMA ExecuteIsTake ==
  ASSUME IInv, NEW q \in Rings, Execute(q)
  PROVE  Queued!Next
<1>1. Typed /\ Shapes /\ ring[q] \in Ring /\ RingShape(ring[q]) /\ ring \in [Rings -> Ring]
  BY DEF IInv, Typed, Shapes
<1>2. Ready(ring[q]) /\ ring' = [ring EXCEPT ![q] = Advanced(@)] /\ posted' = posted
  BY DEF Execute
<1>3. ring'[q] = Advanced(ring[q]) /\ \A x \in Rings : x # q => ring'[x] = ring[x]
  BY <1>1, <1>2
<1>4. Shorter(Pending(ring[q]), Pending(ring'[q]))
  BY <1>1, <1>2, <1>3, AdvanceIsTake
<1>5. First(ring[q]).of \in Called /\ KindOf(q) \in {"none", "command", "transfer", "port"}
  BY <1>1, <1>2, AdvanceSound DEF Trb, KindOf
<1>6. PICK ok \in BOOLEAN :
        event' = event \/ (Room(event) /\ event' = Sent(event, KindOf(q), First(ring[q]).of, ok))
  BY DEF Execute, KindOf
<1>7. Unread(event') = Unread(event) \/ Longer(Unread(event), Unread(event'))
  BY <1>1, <1>5, <1>6, TellIsPut
<1>8. QED
  BY <1>2, <1>3, <1>4, <1>7, QueueStep

LEMMA PortTellsIsPut ==
  ASSUME IInv, NEW p \in Ports, PortChange(p) \/ PortResets(p)
  PROVE  Queued!Next
<1>1. /\ UNCHANGED <<ring, posted>>
      /\ event' = event \/ (Room(event) /\ event' = Sent(event, "port", "port", TRUE))
  BY DEF PortChange, PortResets, Tells, steps
<1>2. "port" \in Called /\ Typed /\ Shapes
  BY DEF Called, IInv
<1>3. Unread(event') = Unread(event) \/ Longer(Unread(event), Unread(event'))
  BY <1>1, <1>2, TellIsPut
<1>4. QED
  BY <1>1, <1>3, QueueStep

(* Every step of driver or controller puts entries behind the others, takes *)
(* the first, or leaves a ring as it is.                                   *)
LEMMA StepIsQueueStep ==
  ASSUME IInv, RingTrbs > 4, [Next]_vars
  PROVE  Queued!Next
<1>1. CASE Early
  <2>1. UNCHANGED asked
    BY <1>1, EarlyTyped DEF IInv
  <2>2. QED
    BY <2>1, SamePending DEF asked
<1>2. CASE Deadline \/ NotPosted \/ TimeOut \/ UNCHANGED vars
  <2>1. UNCHANGED <<ring, event>> /\ (posted' => posted)
    <3>1. CASE Deadline
      BY <3>1 DEF Deadline, steps
    <3>2. CASE NotPosted
      BY <3>2 DEF NotPosted, steps
    <3>3. CASE TimeOut
      BY <3>3 DEF TimeOut
    <3>4. CASE UNCHANGED vars
      BY <3>4 DEF vars
    <3>5. QED
      BY <1>2, <3>1, <3>2, <3>3, <3>4
  <2>2. QED
    BY <2>1, SamePending
<1>3. CASE Asked
  <2>1. \E name : Asks(name)
    BY <1>3 DEF Asked, EnableSlot, AddressDevive, GetDeviceDescriptor, EvaluateContext, GetConfigDescriptor,
                SetConfiguration, SetBootProtocol, ConfigureHidEndpoint, QueueHidRead
  <2>2. QED
    BY <2>1, AsksIsPut
<1>4. CASE Poll
  BY <1>4, PollIsTake
<1>5. CASE \E q \in Rings : Execute(q)
  BY <1>5, ExecuteIsTake
<1>6. CASE \E p \in Ports : PortChange(p) \/ PortResets(p)
  BY <1>6, PortTellsIsPut
<1>7. QED
  BY <1>1, <1>2, <1>3, <1>4, <1>5, <1>6 DEF Next, Driver, Early

LEMMA EmptyQueues ==
  ASSUME Init
  PROVE  Queued!Init
<1>1. IInv
  BY InitSound
<1>2. /\ \A q \in Rings : ring[q] = NewRing
      /\ event = NewEvents /\ posted = FALSE
  BY DEF Init
<1>3. \A q \in Rings : Pending(ring[q]) = <<>>
  <2> SUFFICES ASSUME NEW q \in Rings PROVE Pending(ring[q]) = <<>>
    OBVIOUS
  <2>1. Count(ring[q]) = 0
    BY <1>2, Sizes DEF NewRing, Count
  <2>2. Pending(ring[q]) \in Seq(Called \X BOOLEAN) /\ Len(Pending(ring[q])) = 0
    BY <1>1, <2>1, PendingSound DEF IInv, Typed, Shapes
  <2>3. QED
    BY <2>2, EmptySeq
<1>4. Unread(event) = <<>>
  <2>1. Unseen(event) = 0
    BY <1>2 DEF NewEvents, Unseen
  <2> DEFINE S == {"none", "command", "transfer", "port"} \X Called \X BOOLEAN
  <2>2. Unread(event) \in Seq(S) /\ Len(Unread(event)) = 0
    BY <1>1, <2>1, UnreadSound DEF IInv, Typed, Shapes
  <2> HIDE DEF S
  <2>3. QED
    BY <2>2, EmptySeq
<1>5. QED
  BY <1>2, <1>3, <1>4 DEF Queued!Init

(* Driver and controller, who tell each other who owns an entry by its     *)
(* cycle bit only, implement queues: no entry is seen twice, lost, out of  *)
(* order or before it is written (PostCommand, PushEp0, QueueHidRead,      *)
(* PollEvent), for rings of every length that has room for what one step   *)
(* asks.                                                                   *)
THEOREM RingsImplementQueues ==
  ASSUME RingTrbs > 4
  PROVE  Spec => RingsAreQueues
<1>1. Init => Queued!Init
  BY EmptyQueues
<1>2. Spec => []IInv
  BY InvariantSound
<1>3. IInv /\ [Next]_vars => Queued!Next
  BY StepIsQueueStep
<1>4. QED
  BY <1>1, <1>2, <1>3, PTL DEF Spec, RingsAreQueues, Queued!Spec

=============================================================================

----------------------------- MODULE TrbQueues ------------------------------
(***************************************************************************)
(* What the rings between driver and USB controller are for: each is a     *)
(* queue.  One side puts a few entries behind the others, the other side   *)
(* takes the first.                                                        *)
(***************************************************************************)
EXTENDS Integers, Sequences, FiniteSets

CONSTANTS Queues, AtMost   \* names; how many entries one call puts in

VARIABLES
  queue,
  waits   \* the side that asks waits for an answer

(* From one step to the next, at a name. *)
Put(old, new) ==
  \E n \in 1 .. AtMost : Len(new) = Len(old) + n /\ SubSeq(new, 1, Len(old)) = old

Take(old, new) == old # <<>> /\ new = Tail(old)

Init == queue = [q \in Queues |-> <<>>] /\ waits = FALSE

(* A step of the controller may take a transfer and put an event.  Nobody  *)
(* waits without having put something where the other side sees it.        *)
Next ==
  /\ \A q \in Queues :
       LET old == queue[q]
           new == queue'[q]
       IN  new = old \/ Put(old, new) \/ Take(old, new)
  /\ (~waits /\ waits') => \E q \in Queues : Put(queue[q], queue'[q])

Spec == Init /\ [][Next]_<<queue, waits>>

=============================================================================

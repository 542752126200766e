-------------------------- MODULE CompletionChannel --------------------------
(***************************************************************************)
(* What a completion queue is for: the controller puts completions in, the *)
(* driver takes them out, each one once and in the order they were put in. *)
(***************************************************************************)
EXTENDS Sequences

CONSTANT Completions

VARIABLES
  chan,   \* completions posted and not yet taken
  taken   \* the completion taken last, in a sequence of at most one

Init == chan = <<>> /\ taken = <<>>

Post(c) == chan' = Append(chan, c) /\ UNCHANGED taken

Take ==
  /\ chan # <<>>
  /\ taken' = <<Head(chan)>>
  /\ chan' = Tail(chan)

Next == Take \/ \E c \in Completions : Post(c)

Spec == Init /\ [][Next]_<<chan, taken>>

=============================================================================

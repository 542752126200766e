----------------------------- MODULE TextBuffer -----------------------------
(***************************************************************************)
(* What an editor promises: a text with a position in it, and keys that    *)
(* move, insert at the position, or take one character away next to it.    *)
(* One loss is admitted: a line that is joined to a line without room for  *)
(* it loses its end.                                                       *)
(***************************************************************************)
EXTENDS Integers, Sequences

CONSTANTS NL    \* the character that ends a line

VARIABLES text, pos, shown

vars == <<text, pos, shown>>

Upto(p) == SubSeq(text, 1, p)
Behind(p) == SubSeq(text, p + 1, Len(text))

Init == text = <<>> /\ pos = 0 /\ shown = FALSE

(* A text is opened: position at its start. *)
Show == ~shown /\ shown' = TRUE /\ pos' = 0

Hide == shown /\ shown' = FALSE /\ UNCHANGED <<text, pos>>

Move == shown /\ pos' \in 0 .. Len(text) /\ UNCHANGED <<text, shown>>

(* One key inserts up to three characters. *)
Insert ==
  /\ shown
  /\ \E k \in 1 .. 3 :
       /\ Len(text') = Len(text) + k
       /\ SubSeq(text', 1, pos) = Upto(pos)
       /\ SubSeq(text', pos + k + 1, Len(text')) = Behind(pos)
       /\ pos' \in pos + 1 .. pos + k
  /\ UNCHANGED shown

(* The character before or behind the position. *)
Erase ==
  /\ shown
  /\ \E p \in {pos - 1, pos} \cap (0 .. Len(text) - 1) :
       text' = Upto(p) \o Behind(p + 1) /\ pos' = p
  /\ UNCHANGED shown

(* The end of line there; of the line behind it, only the first k remain.  *)
Join ==
  /\ shown
  /\ \E p \in {pos - 1, pos} \cap (0 .. Len(text) - 1) :
       \E end \in p + 1 .. Len(text) : \E k \in p + 1 .. end :
         /\ text[p + 1] = NL
         /\ \A i \in p + 2 .. end : text[i] # NL
         /\ end = Len(text) \/ text[end + 1] = NL
         /\ text' = Upto(p) \o SubSeq(text, p + 2, k) \o Behind(end)
         /\ pos' = p
  /\ UNCHANGED shown

Next == Show \/ Hide \/ Move \/ Insert \/ Erase \/ Join

Spec == Init /\ [][Next]_vars

=============================================================================

----------------------------- MODULE MCKeyboard -----------------------------
(* Model checking of Keyboard. *)
EXTENDS Keyboard

Pk(name, code, ext, mod) == [name |-> name, code |-> code, ext |-> ext, mod |-> mod]

(* Keys that share a flag, keys that differ by E0 alone, and keys for the  *)
(* other ways ReadKey goes.                                                *)
AllKeys ==
  {Pk("LShift", "lshift", FALSE, "shift"), Pk("RShift", "rshift", FALSE, "shift"),
   Pk("AltGr", "alt", TRUE, "altgr"), Pk("Alt", "alt", FALSE, "none"),
   Pk("RCtrl", "ctrl", TRUE, "ctrl"),
   Pk("up", "up", TRUE, "none"), Pk("Pad8", "up", FALSE, "none"),
   Pk("s", "s", FALSE, "none"), Pk("8", "8", FALSE, "none")}

(* Any three of them; the two shift keys may stand for each other. *)
Named(p, name) == \E k \in p : k.name = name
Threes == {p \in SUBSET AllKeys : Cardinality(p) = 3 /\ (Named(p, "RShift") => Named(p, "LShift"))}

=============================================================================

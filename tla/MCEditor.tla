------------------------------ MODULE MCEditor ------------------------------
(* Model checking of Editor. *)
EXTENDS Editor

a == "a"
AllBytes == {a, "b", " ", "(", ")", "{", "}", CR, NL}
AllFiles ==
  {Unreadable, <<>>, <<a>>, <<a, CR, NL, a>>, <<a, "(", a, a>>, <<NL, a, NL>>, <<NL, NL, a>>,
   <<NL, a, NL, NL, a>>, <<a, a, a, NL, a, "b">>, <<a, a, NL, "b", "b">>,
   [i \in 1 .. MaxLines * MaxCols + 1 |-> a]}
=============================================================================

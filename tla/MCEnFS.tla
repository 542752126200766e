------------------------------- MODULE MCEnFS -------------------------------
(* Model checking of EnFS. *)
EXTENDS EnFS, TLC

Symmetry == Permutations(Names) \cup Permutations(Values)

=============================================================================

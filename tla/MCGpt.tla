-------------------------------- MODULE MCGpt -------------------------------
(* Model checking of Gpt. *)
EXTENDS Gpt

(* Every array of well-formed entries in the first chunk, apart or not. *)
FirstChunkTables ==
  LET parts == {p \in Entry : p.start <= p.end}
  IN  {[i \in Index |-> IF i \in ChunkOf(0) THEN t[i] ELSE Free] : t \in [ChunkOf(0) -> parts]}

=============================================================================

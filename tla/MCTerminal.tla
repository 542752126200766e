----------------------------- MODULE MCTerminal -----------------------------
(* Model checking of Terminal. *)
EXTENDS Terminal, TLC

Table == (<<"e">> :> "echo") @@ (<<"c">> :> "clear") @@ (<<"h">> :> "help") @@ (<<"n">> :> "neenor")
OneGame == {<<"g">>}
=============================================================================

------------------------------- MODULE MCGames ------------------------------
(* Model checking of Games. *)
EXTENDS Games, MCScripts, MCSources

Temps == <<"$0", "$1", "$2", "$3">>

AllPlayed ==
  ({Marked(s) : s \in ArithScripts} \X Calm)
    \cup ((FlowScripts \cup CallScripts \cup LongScripts) \X Calm)
    \cup (WaitLoops \X Busy)
    \cup (ArenaScripts({-1, 2, 7}) \X Calm) \cup (ArenaScripts({2}) \X Poor)

NamesOfKeys == ("a" :> 97) @@ ("esc" :> 263)

(* Scripts of two lines, one of every form, and straight ones. *)
AllListings == ([1 .. 2 -> FormLines] \X Calm) \cup (WorldScripts \X Busy)

AllSources == AllTrees \X Patient
=============================================================================

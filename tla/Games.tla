-------------------------------- MODULE Games -------------------------------
(***************************************************************************)
(* A game from its source on: the parser makes lines of it, the            *)
(* interpreter plays them (play), and then, compiled (make), the processor *)
(* does, in the same world.                                                *)
(***************************************************************************)
EXTENDS Play, Lowering
LOCAL INSTANCE SequencesExt

CONSTANTS
  CodeCap, StackMax,
  Longest,   \* bound: so many milliseconds of compiled code are looked at
  Sources,   \* trees, each with the world it is played in
  Listings   \* scripts that are loaded from their text, each with its world

ASSUME GamesAssumption ==
  {CodeCap, StackMax, Longest} \subseteq Nat \ {0} /\ \A g \in Sources \cup Listings : g[2] \in Worlds

VARIABLES
  source,    \* the tree the lines come from, or {} if they do not
  listed,    \* the script whose text they were loaded from, or {}
  parsed,    \* what the parser left of it besides lines
  code, n

N == INSTANCE Native

loaded == <<source, listed, parsed, code>>
gvars == <<svars, loaded, n>>

Besides(p) == [why |-> p.why, names |-> p.names]

(* If Load complains nothing is run. *)
LoadedAs(p, w) ==
  /\ parsed = Besides(p) /\ world = w
  /\ lines = IF Good(p) THEN p.lines ELSE <<>>
  /\ m = IF Good(p) THEN Fresh ELSE [Fresh EXCEPT !.loop = "over"]

(* CmdPlay and CmdMake: a source, or a listing, or a script as it would    *)
(* have been loaded.                                                       *)
GamesInit ==
  /\ \/ Init /\ source = {} /\ listed = {} /\ parsed = Besides(Reading(<<>>))
     \/ \E g \in Sources : \E p \in {ParserLoad(Written(g[1]))} :
          LoadedAs(p, g[2]) /\ source = {g[1]} /\ listed = {}
     \/ \E g \in Listings : \E p \in {ScriptLoad(Listing(g[1]))} :
          LoadedAs(p, g[2]) /\ source = {} /\ listed = {g[1]}
  /\ code = IF Good(parsed) THEN N!Compile(lines) ELSE <<>>
  /\ n = N!Loaded

Interpret == Steps /\ UNCHANGED <<loaded, n>>
Execute == Over /\ n.now < Longest /\ N!Steps /\ UNCHANGED <<source, listed, parsed, m>>
Finished == Over /\ (N!Over \/ n.now >= Longest) /\ UNCHANGED gvars

GamesNext == Interpret \/ Execute \/ Finished

(* One thread, without interrupts. *)
GamesSpec == GamesInit /\ [][GamesNext]_gvars /\ WF_gvars(Interpret) /\ WF_gvars(Execute)

---------------------------------------------------------------------------
(* Compiled code does what the interpreter does: the same variables at the *)
(* end, the same frames shown (the interpreter also shows what was drawn   *)
(* after the last flip), the same divide errors.  Scripts whose run strays *)
(* are exempt: see the README for what each of the strays is.  Compiled    *)
(* code runs wild for those only that return without a call or call too    *)
(* deep, which the interpreter may not have come to when ESC ended the     *)
(* game.                                                                   *)
SameOutcome ==
  /\ (Over /\ n.phase # "refused" /\ N!Over /\ m.strays = {}) =>
       /\ (m.loop = "trap") = (n.phase = "trap")
       /\ m.loop = "over" =>
            /\ n.vars = m.vars
            /\ m.frames = IF Len(m.frames) = Len(n.frames) THEN n.frames
                          ELSE Append(n.frames, n.canvas)
  /\ n.phase = "wild" => m.strays \cap {"return", "depth", "fuel", "start", "wait"} # {}

(* Until it runs wild, compiled code runs inside of itself, with its stack *)
(* aligned where it calls the functions of the kernel.                     *)
RunsInside == N!RunsInside

JustLoaded == m \in {Fresh, [Fresh EXCEPT !.loop = "over"]}

(* A well-formed source is refused only if a statement has more operators  *)
(* than there are temporaries, or a name is too long; a listing only if    *)
(* there is no room for its strings.                                       *)
RefusedOnlyAtLimits ==
  ~Good(parsed) =>
    /\ \A src \in source :
         \/ LongNamed(src)
         \/ /\ parsed.why = "expression too complex"
            /\ \E ss \in {src.decls, src.body} \cup {src.subs[i].body : i \in DOMAIN src.subs} :
                 AllOps(ss) > Len(TempNames)
    /\ \A script \in listed : 3 * Cardinality(Texts(script, Len(script))) > StringPool

(* A game that ends by itself leaves in its variables what its source      *)
(* means, and has drawn what it means, whatever temporaries the parser     *)
(* shared between the expressions and however it nested its jumps -- unless *)
(* a variable of its own begins with a dollar and stands left of an        *)
(* operator, or is one of the temporaries.  A listing is loaded as the     *)
(* script it lists.                                                        *)
MeaningKept ==
  /\ JustLoaded =>
       /\ RefusedOnlyAtLimits
       /\ \A script \in listed : Good(parsed) => SameScript(lines, script, parsed.names)
  /\ (m.loop = "over" /\ n = N!Loaded /\ Good(parsed) /\ m.now < Horizon) =>
       \A src \in {s \in source : ~Clobbers(s)} :
         LET means == Meaning(src, world.residue)
         IN  means.done =>
               /\ \A x \in Names : Known(parsed.names, x) => m.vars[Index(parsed.names, x)] = means.v[x]
               /\ FlattenSeq(m.frames) = means.drawn

=============================================================================

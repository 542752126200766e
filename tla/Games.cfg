SPECIFICATION GamesSpec
CONSTANTS
  Slots = 9
  Half <- Halves
  ArenaSlots = 5
  RandNext <- Rand
  Keys = {97, 263}
  CanvasMax = 9
  Horizon = 8
  Fuel = 8
  CallDepth = 2
  Played <- AllPlayed
  TempNames <- Temps
  MaxLines = 40
  MaxVars = 9
  MaxLabels = 4
  StringPool = 8
  NameLength = 5
  KeyCode <- NamesOfKeys
  Patience = 8
  Sources <- AllSources
  Listings <- AllListings
  CodeCap = 90
  StackMax = 3
  Longest = 12
INVARIANTS
  TypeOK
  ArenaSound
  ReturnsBehindCalls
  SameOutcome
  RunsInside
  MeaningKept
PROPERTIES
  EscEndsPlay

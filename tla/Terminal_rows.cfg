SPECIFICATION TerminalSpec
CONSTANTS
  MaxLine = 2
  MaxCols = 4
  NameMax = 2
  Typable = {"e", "c", "h", "n", "g", " "}
  Commands <- Table
  Games <- OneGame
  GameLines = 2
INVARIANTS
  RunsWhatWasTyped
  ArgumentsArrive

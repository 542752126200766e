SPECIFICATION GptSpec
CONSTANTS
  NumEntries = 6
  PerChunk = 3
  FirstUsable = 1
  LastUsable = 8
  Align = 2
  MaxFaults = 2
  Tables <- FirstChunkTables
INVARIANTS
  NothingForgotten
  GapsRight
PROPERTIES
  PartsApart
CHECK_DEADLOCK FALSE

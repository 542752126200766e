SPECIFICATION Spec
CONSTANTS
  FrameCount = 10
  LowFrames = 2
  Maps <- HoleyMaps
  MaxTables = 3
  HeapFrames = 2
  CodeSizes = {1, 2, 3}
  ArenaFrames = 2
INVARIANTS
  BlocksSound
  NothingLost
  CounterExact
  GamesLeaveNothing

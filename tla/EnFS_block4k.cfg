SPECIFICATION FairSpec
CONSTANTS
  Names = {a, b}
  NoName = NoName
  Values = {u}
  MaxFiles = 2
  PerSector = 2
  Sectors = 4
  MaxLen = 2
  Chunk = 1
  MaxFaults = 1
  CountMod = 8
INVARIANTS
  RemovedStaysRemoved
PROPERTIES
  ImplementsFileStore
  CommandReturns

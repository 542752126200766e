SPECIFICATION Spec
CONSTANTS
  Names = {a, b}
  NoName = NoName
  Values = {u, v}
  MaxFiles = 2
  PerSector = 1
  Sectors = 5
  MaxLen = 1
  Chunk = 1
  MaxFaults = 2
  CountMod = 8
SYMMETRY Symmetry
INVARIANTS
  ReadsBack
  CrashDurable
  MetadataSound

SPECIFICATION Spec
CONSTANTS
  Names = {a, b}
  NoName = NoName
  Values = {u}
  MaxFiles = 2
  PerSector = 2
  Sectors = 4
  MaxLen = 2
  Chunk = 1
  MaxFaults = 0
  CountMod = 8
PROPERTIES
  FrfrWipesData

SPECIFICATION BootSpec
CONSTANTS
  MapSizes = {3, 5}
  PoolGrowth = 2
  MaxCommands = 4
INVARIANTS
  MemoryHandedOver
  CrashesOnlyHalfReady
  MountedOnDrive

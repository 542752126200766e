SPECIFICATION Spec
CONSTANTS
  Players <- Threes
  MaxCodes = 2
INVARIANTS
  NoGhostKey
  DownIsHeld
  FlagsFollow
PROPERTIES
  TypedAsMeant

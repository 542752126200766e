SPECIFICATION FairSpec
CONSTANTS
  Entries = 3
  MaxCommands = 8
  MaxTimeouts = 3
INVARIANTS
  OwnCompletion
  PhaseSound
PROPERTIES
  ImplementsChannel
  SubmitReturns

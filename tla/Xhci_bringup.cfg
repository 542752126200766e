SPECIFICATION FairSpec
CONSTANTS
  RingTrbs = 5
  EventTrbs = 3
  MaxPorts = 1
  Usb3 = {}
INVARIANTS
  AnswersOwn
PROPERTIES
  RingsAreQueues
  PortsStayEnabled
  BringUpEnds

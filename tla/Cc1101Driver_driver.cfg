SPECIFICATION Spec
CONSTANTS
  FifoSize = 5
  LengthLimit = 3
  Arrivals = 3
  Sends = 2
INVARIANTS
  SendsOwnFrame
  DoesAsAsked
PROPERTY
  ReturnsPackets
CHECK_DEADLOCK FALSE

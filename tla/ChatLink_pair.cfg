SPECIFICATION Spec
CONSTANTS
  n1 = n1
  n2 = n2
  n3 = n3
  None = None
  Nodes <- Pair
  MessagesOf <- PairMessages
  StartTokens <- PairTokens
  MaxToken = 7
  MaxAttempts = 5
  TokenWindow = 1
  FifoFrames = 2
  Conditions = {"rough", "calm"}
INVARIANTS
  TypeOK
  ToleratesLosses
PROPERTIES
  Implements
CHECK_DEADLOCK FALSE

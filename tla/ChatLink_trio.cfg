SPECIFICATION FairSpec
CONSTANTS
  n1 = n1
  n2 = n2
  n3 = n3
  None = None
  Nodes <- Trio
  MessagesOf <- TrioMessages
  StartTokens <- TrioTokens
  MaxToken = 3
  MaxAttempts = 2
  TokenWindow = 2
  FifoFrames = 2
  Conditions = {"rough"}
PROPERTIES
  Implements
  SendsConclude
CHECK_DEADLOCK FALSE

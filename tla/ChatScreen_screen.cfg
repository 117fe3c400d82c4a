SPECIFICATION Spec
CONSTANTS
  MessageLimit = 3
  NameLimit = 2
  CommandLimit = 2
  FeedLimit = 7
INVARIANTS
  LayersAgree
PROPERTIES
  ToldOnce
  ShownIsUsed
  EscPeels
CHECK_DEADLOCK FALSE

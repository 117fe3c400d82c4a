SPECIFICATION FairSpec
CONSTANTS
  s1 = s1
  p1 = p1
  NoSend = NoSend
  SendIds <- OneSend
  PeerTokens <- OneToken
  UiCommands <- AllCommands
  CommandCapacity = 1
  EventCapacity = 2
  MaxAttempts = 2
  TokenWindow = 1
  DropLimit = 1
INVARIANTS
  NoSendForgotten
  OneOutcome
  LossIsReported
  UsedOnlyWhenOpen
  NeverDeaf
  StateEventsTruthful
  EndsClosed
PROPERTIES
  SendConcludes
  StopReturnsWhenInitialized

SPECIFICATION FairSpec
CONSTANTS
  s1 = s1
  p1 = p1
  NoSend = NoSend
  SendIds <- OneSend
  PeerTokens <- OneToken
  UiCommands <- ModeCommands
  CommandCapacity = 1
  EventCapacity = 1
  MaxAttempts = 1
  TokenWindow = 1
  DropLimit = 1
PROPERTIES
  StopReturns

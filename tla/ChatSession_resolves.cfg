SPECIFICATION SessionFairSpec
CONSTANTS
  t1 = t1
  NoSend = NoSend
  Peer = Peer
  SendIds <- MCOneSend
  PeerTokens <- MCNoTokens
  UiCommands <- MCUiCommands
  CommandCapacity = 1
  EventCapacity = 2
  MaxAttempts = 1
  TokenWindow = 1
  DropLimit = 1
  HistoryLimit = 1
  EventsPerTick = 2
PROPERTIES
  ScreenSettles
  MessagesResolve
CHECK_DEADLOCK FALSE

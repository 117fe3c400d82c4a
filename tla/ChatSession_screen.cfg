SPECIFICATION SessionSpec
CONSTANTS
  t1 = t1
  NoSend = NoSend
  Peer = Peer
  SendIds <- MCSendIds
  PeerTokens <- MCNoTokens
  UiCommands <- MCUiCommands
  CommandCapacity = 1
  EventCapacity = 3
  MaxAttempts = 1
  TokenWindow = 1
  DropLimit = 1
  HistoryLimit = 1
  EventsPerTick = 1
INVARIANTS
  ScreenTruthful
  StuckOnlyAfterOverflow
  StatusIsTheOutcome
  HistoryMatchesPending
CHECK_DEADLOCK FALSE

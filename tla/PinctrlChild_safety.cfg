SPECIFICATION MCSpec
CONSTANT PinFns <- MCPinFns
INVARIANTS LinuxTypeOK PinsAreRemembered RailIsRemembered WholeOrNothing
PROPERTIES RestoredWhenReleased PowerUsedAsSpecified KeepsContract

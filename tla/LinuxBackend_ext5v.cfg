SPECIFICATION LinuxSpec
CONSTANT PinFns <- MCPinFns
INVARIANT Ext5vRestored

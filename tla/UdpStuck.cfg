SPECIFICATION Spec
CONSTANTS
  Msgs <- MCMsgs  HostLook = "word"  StampLook = "time"  OwnName = "daq01"
  HostSpec <- MCGroup  Port = 5140  Multicast = TRUE  OutSpec <- MCAny
  RecvSpec <- MCGroup  RecvPort = 5140  RecvMulticast = TRUE  RecvOutSpec <- MCAny
  Numeric <- MCNumeric  Dns <- MCDns  Interfaces <- MCInterfaces
  ErrorMax = 3  Backoff = 2  Calm = 2  MaxAttempts = 5
  Configured = {r1}  Loadable = {r1}
  Room = 15  HasMark <- MCHasMark  Foreign <- MCLogLine  Incoming <- MCIncoming  BufferSize = 1  MaxArrivals = 2
PROPERTY StopReturns
CHECK_DEADLOCK FALSE

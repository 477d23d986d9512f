SPECIFICATION Spec
CONSTANTS
  MaxFd = 7
  Garbage = {0, 3}
  MaxMsgs = 2
  MaxKeys = 3
  MaxConns = 2
  Sent = {1, 5}
INVARIANTS TypeOK  TopNotOlder LaunchedOnce  NoWaitWithMutex SessionLive
PROPERTY LcdLostOnlyInCreate

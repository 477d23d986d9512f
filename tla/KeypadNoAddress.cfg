SPECIFICATION Spec
CONSTANTS
  MaxFd = 8
  Garbage = {0}
  MaxMsgs = 1
  MaxKeys = 2
  MaxConns = 1
  Sent = {5}
INVARIANT LaunchOnlyWithAddress

SPECIFICATION Spec
CONSTANTS
  Clients = {c1, c2}
  BACKLOG = 2
  MaxFd = 3
  MaxBytes = 1
  MaxPackets = 1
CHECK_DEADLOCK FALSE
INVARIANTS EveryFdChecked

SPECIFICATION Spec
CONSTANTS
  Times = {0}
  MaxPackets = 1
  MaxPipe = 1
  MaxKills = 0
CHECK_DEADLOCK FALSE
INVARIANT UnknownDoesNothing

SPECIFICATION FairSpec
CONSTANTS
  Times = {0, 50, 100, 200}
  MaxPackets = 3
  MaxPipe = 2
  MaxKills = 1
CHECK_DEADLOCK FALSE
INVARIANTS TypeOK StopAwaited FirstStartAgrees
PROPERTIES Halts RestartHalts

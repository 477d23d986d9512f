SPECIFICATION FairSpec
CONSTANTS
  Clients = {c1, c2, c3}
  BACKLOG = 2
  MaxFd = 3
  MaxBytes = 1
  MaxPackets = 2
CHECK_DEADLOCK FALSE
INVARIANTS TypeOK AmountCovers SlotsApart CutOffByClose ReplyToCause
PROPERTIES Served PoolSpec

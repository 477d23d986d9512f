SPECIFICATION Spec
CONSTANTS
  W = 6
  Start = 4
  Stop = 3
  Cap = 6
  Clients = {c1, c2}
  Data = {3, 4, 5}
  MaxLen = 1
  MaxFrames = 3
CHECK_DEADLOCK FALSE
INVARIANTS TypeOK CopyWithinFrame StaleSizeHarmless RunsOnOnlyWrapped Delivered

SPECIFICATION Spec
CONSTANTS
  Procs = {p1, p2}
  Pairs <- MCPairs
  MaxOpens = 2
  MaxCalls = 2
SYMMETRY Symmetry
CHECK_DEADLOCK FALSE
INVARIANTS TypeOK CountsHolders PatternWhole 

SPECIFICATION Spec
CONSTANTS
  Entries <- MCEntries
  MaxLines = 4
  Section <- MCSection
  KeyName <- MCKey
  Letters = {"s", "t", "k", "m", "u", "v", "w", "x", "y", "z"}
  LineLen = 5
  BufLen = 4
CHECK_DEADLOCK FALSE
INVARIANTS TypeOK 

SPECIFICATION Spec
CONSTANTS
  Threads = {"key", "socket", "main"}
  Columns = {0, 1}
  Keys = {"none", "F1", "F4"}
  MaxFaults = 1
  Port <- MCPort
  Address1 <- MCAddress
  Connect <- MCConnect
  Working <- MCWorking
  Restart <- MCRestart
  Welcome <- MCWelcome
  Chunk <- MCChunk
  Title <- MCTitle
  By <- MCBy
  Texts <- MCTexts
  MaxKeys = 2
  MaxSessions = 2
  MaxChunks = 1
  MaxStarts = 2
CHECK_DEADLOCK FALSE
INVARIANTS TypeOK InStep KeyFromKeys SessionOwn
PROPERTY LineSpec

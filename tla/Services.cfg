SPECIFICATION Spec
CONSTANTS
  MaxLen = 4
  MaxMaxn = 8
  DEFALUT_BYTE_ARRAY_SZIE = 3
  DICTMINSZ = 2
  HashSize = 4
  Grow = 2
  Int8Bits = 2
  Procs = {1, 2, 3}
  MaxMsgs = 5
  MaxRestarts = 2
  MaxRows = 3
  MaxPort = 4
  MaxCells = 4
  MaxConns = 3
  ASCIILINESZ = 14
  MAX_IP_SIZE = 2
  PortRoom = 2
INVARIANTS ContainersSound RecordsKept SharedSafe TransfersHonest OwnersBalanced
CHECK_DEADLOCK FALSE

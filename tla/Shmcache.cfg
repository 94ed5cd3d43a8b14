SPECIFICATION Spec
CONSTANTS
  NKeys = 5
  Capacity = 2
  NVals = 3
  EntrySize <- MCEntrySize
  StripSize = 6
  StripPerSeg = 1
  MaxSeg = 4
  MaxKeys = 5
  Discard = 1
  MaxFail = 3
  Procs = {1, 2, 3}
  Configs <- MCConfigs
INVARIANTS OneOwner TableConsistent TornNotUsed
PROPERTIES LockGranted ImplementsMap

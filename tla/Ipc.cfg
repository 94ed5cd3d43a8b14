SPECIFICATION Spec
CONSTANTS
  Clients = {0, 1}
  MAX_IPC_NUMNER = 2
  Limits <- MCLimits
CHECK_DEADLOCK FALSE
INVARIANTS AnswerIsMine EntriesLive
PROPERTY UnbindProcessed

SPECIFICATION Spec
CONSTANTS
  Plans <- MCPlans
  MemSize = 2000
CHECK_DEADLOCK FALSE
INVARIANTS SuccessIsCurrent OnlyAsked StreamInSync
PROPERTY CallReturns

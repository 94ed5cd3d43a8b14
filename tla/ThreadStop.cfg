SPECIFICATION FairSpec
CONSTANTS
  Stations = {a, b}
  Early = {t}
  Spurious = {b}
INVARIANTS NoUseAfterFree NoLostWakeup
PROPERTY ExitReturns
CHECK_DEADLOCK FALSE

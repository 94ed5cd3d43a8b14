SPECIFICATION FairSpec
CONSTANTS
  Stations = {}
  Early = {t}
  Spurious = {}
PROPERTY CloseReturns
CHECK_DEADLOCK FALSE

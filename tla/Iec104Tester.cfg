SPECIFICATION FairSpec
CONSTANTS
  Conns = {c1, c2}
  NoConn = NoConn
  SnMod = 16
  CIRCLE_TESTER_U = 1
  TESTER_U_TIMEOUT = 1
  CONNECT_TIMEOUT = 1
  ClockBack = 0
  YxFrames = 1
  YcFrames = 0
  YmFrames = 0
  SponTypes = {"M_SP"}
  MaxSpon = 0
  ClockSteps = {0}
  SleepOutlastsParse = TRUE
  MasterOps = {"yk0"}
  MaxCmds = 0
  MaxDisturb = 0
  CutLinks = TRUE
PROPERTIES HealthyLinkKept DeadLinkNoticed

SPECIFICATION Spec
CONSTANTS
  Conns = {c1, c2}
  NoConn = NoConn
  SnMod = 16
  CIRCLE_TESTER_U = 1
  TESTER_U_TIMEOUT = 0
  CONNECT_TIMEOUT = 1
  ClockBack = 0
  YxFrames = 1
  YcFrames = 0
  YmFrames = 1
  SponTypes = {"M_SP"}
  MaxSpon = 1
  ClockSteps = {0}
  SleepOutlastsParse = TRUE
  MasterOps = {"call_all", "call_pulse", "yk0", "yk1", "yt"}
  MaxCmds = 1
  MaxDisturb = 1
  CutLinks = FALSE
INVARIANTS LinkSound RejectOnlyAfterRace AckOnlySent SelectBeforeExecute ExecutedOnce
SYMMETRY Symmetry

SPECIFICATION FairSpec
CONSTANTS
  Conns = {c1, c2}
  NoConn = NoConn
  SnMod = 8
  CIRCLE_TESTER_U = 1
  TESTER_U_TIMEOUT = 0
  CONNECT_TIMEOUT = 1
  ClockBack = 0
  YxFrames = 1
  YcFrames = 1
  YmFrames = 1
  SponTypes = {"M_SP", "M_ME", "M_TB"}
  MaxSpon = 0
  ClockSteps <- NoMoves
  SleepOutlastsParse = TRUE
  PeerFrames <- FewFrames
  MaxPeer = 1
PROPERTY WaitingServed

SPECIFICATION Spec
CONSTANTS
  Conns = {c1, c2}
  NoConn = NoConn
  SnMod = 5
  CIRCLE_TESTER_U = 1
  TESTER_U_TIMEOUT = 0
  CONNECT_TIMEOUT = 1
  ClockBack = 1
  YxFrames = 1
  YcFrames = 1
  YmFrames = 1
  SponTypes = {"M_SP", "M_ME", "M_TB"}
  MaxSpon = 1
  ClockSteps <- ClockMoves
  SleepOutlastsParse = TRUE
  PeerFrames <- AnyFrames
  MaxPeer = 2
INVARIANTS TypeOK NoLeak AckCurrent NumberedFromZero
SYMMETRY Symmetry

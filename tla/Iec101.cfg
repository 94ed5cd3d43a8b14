SPECIFICATION Spec
CONSTANTS
  YxFrames = 1
  YcnFrames = 1
  YcfFrames = 0
  YmFrames = 1
  MaxQ = 2
  MaxSpon = 1
  MasterOps = {"call_all", "call_pulse", "yk", "yk2", "yt"}
  MaxCmds = 1
  MaxYt = 1
  MaxLoss = 1
  MaxBeats = 0
INVARIANTS SidesAgree CommandsSafe
PROPERTIES CallAllSettles Connects

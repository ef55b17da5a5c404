CONSTANTS
  s0 = s0
  s1 = s1
  Settings <- MCSettings
  Configs <- MCConfigs
  ZeroCfg <- MCZero
  MaxCounter = 0
  NoCfg = NoCfg
  Words = 2
  Blank = Blank
  Junk = Junk
  Callers = {"collector", "wifi"}
SPECIFICATION ClientSpec
INVARIANTS SavedMeansStored
CHECK_DEADLOCK FALSE

CONSTANTS
  s0 = s0
  s1 = s1
  Settings <- MCOneSetting
  Configs <- MCConfigs
  ZeroCfg <- MCZero
  MaxCounter = 0
  NoCfg = NoCfg
  Words = 1
  Blank = Blank
  Junk = Junk
  Callers = {"collector", "wifi"}
SPECIFICATION ClientSpec
INVARIANTS NoSkippedPacket
CHECK_DEADLOCK FALSE

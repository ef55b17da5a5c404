CONSTANTS
  BUFFER_TEMP_SIZE = 2
  Degrees <- SomeDegrees
  DATA_PACKET_BUFFER_SIZE = 2
  Readings <- SomeReadings
  Temps <- OneTemp
  Pressures <- OnePressure
  Rounds = 2
  Names <- TwoNames
SPECIFICATION FairSpec
INVARIANTS
  FailedAreSubstituted
  MeanOfLast
  LcdInSync
  PageWhole
PROPERTY DisplayDrains
CHECK_DEADLOCK FALSE

CONSTANTS
  Order <- MCOrder
  Spec_sensors = {"so2"}
  Values = {0, 1}
  QueueLength = 3
  Bursts = 2
SPECIFICATION FairSpec
INVARIANTS  SampleWhole
PROPERTIES AnswerHeard KeepsMeasuring

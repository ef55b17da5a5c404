CONSTANTS
  RxNum = 2
  TxNum = 2
  Pbufs = 2
  MaxFrames = 3
  Networks <- EveryNetwork
SPECIFICATION FairSpec
INVARIANTS WholeFrames InOrder
PROPERTIES ReceptionResumes

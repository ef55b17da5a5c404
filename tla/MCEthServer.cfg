CONSTANTS
  MaxClients = 2
  NumSockets = 4
  MaxPending = 1
SPECIFICATION FairSpec
INVARIANTS ServerTypeOK OneSlotEach Tracked EachOnce
PROPERTIES NoReuseWhileWriting PacketTaken GoneDropped

CONSTANTS
  MaxTries = 1
SPECIFICATION LinkFairSpec
INVARIANTS AddressInForce TriesReadable
PROPERTIES AddressEventually

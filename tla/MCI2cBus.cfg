SPECIFICATION BusSpec
INVARIANTS
  BusReleased

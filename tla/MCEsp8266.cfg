CONSTANTS
  Conns = {c1, c2}
  Nobody = nobody
  MaxBursts <- Bursts
SPECIFICATION Spec
INVARIANTS RightAnswer
PROPERTIES OkIsMeant

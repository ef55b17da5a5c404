CONSTANTS
  Configs = {c0, c1, c2}
  ZeroCfg = c0
  NoCfg = NoCfg
  Words = 2
  Blank = Blank
  Junk = Junk
  Callers = {t}
SPECIFICATION FairSpec
INVARIANTS StoreTypeOK Durable BothCopies
PROPERTIES WriteCompletes CopiesSpec

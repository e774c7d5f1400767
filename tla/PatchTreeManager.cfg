CONSTANTS
  Threads = {t1, t2, t3}
  LastPatch = 4
  MaxLoaded = 2
SPECIFICATION Spec
SYMMETRY Interchangeable
CHECK_DEADLOCK FALSE
INVARIANTS TypeOK OneObject NothingForgotten ListIsLoaded CacheBounded

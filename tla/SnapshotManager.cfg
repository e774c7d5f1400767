CONSTANTS
  Threads = {t1, t2}
  LastSnapshot = 3
  MaxInserted = 1
  MaxLoaded = 2
  Uses <- Safe
SPECIFICATION Spec
SYMMETRY Interchangeable
INVARIANTS TypeOK OneDictionary InsertsKept CacheBounded

CONSTANTS
  Threads = {t1, t2}
  LastSnapshot = 1
  MaxInserted = 1
  MaxLoaded = 2
  Uses <- Racing
SPECIFICATION Spec
CHECK_DEADLOCK FALSE
INVARIANT DictionaryReturned

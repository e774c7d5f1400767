CONSTANTS
  MaxValue = 99
  Triples <- MCTwoTriples
  Subject <- MCTwoSubjects
  Predicate <- MCTwoPredicates
  Object <- MCTwoObjects
  Kinds = {"s__"}
  MinPatchId = 1
  LastAppended = 6
  MinAdditionCount = 9
  ValidDeltasOnly = TRUE
SPECIFICATION Spec
INVARIANT ChangesRelateToSnapshot
PROPERTY ImplementsStore

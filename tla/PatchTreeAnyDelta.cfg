CONSTANTS
  MaxValue = 99
  Triples <- MCTwoTriples
  Subject <- MCTwoSubjects
  Predicate <- MCTwoPredicates
  Object <- MCTwoObjects
  Kinds = {"s__", "_p_"}
  MinPatchId = 62
  LastAppended = 65
  MinAdditionCount = 9
  ValidDeltasOnly = FALSE
SPECIFICATION FairSpec
INVARIANTS Exclusive StoredExact
PROPERTIES PublishedStable ReadsStable AppendReturns

CONSTANTS
  MaxValue = 99
  Triples <- MCTriples
  Subject <- MCSubject
  Predicate <- MCPredicate
  Object <- MCObject
  Kinds = {"s__"}
  MinPatchId = 1
  LastAppended = 4
  MinAdditionCount = 9
  ValidDeltasOnly = TRUE
SPECIFICATION Spec
INVARIANT DeletionCountExact

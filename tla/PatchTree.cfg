CONSTANTS
  MaxValue = 99
  Triples <- MCTriples
  Subject <- MCSubject
  Predicate <- MCPredicate
  Object <- MCObject
  Kinds = {"s__", "_po", "__o", "___"}
  MinPatchId = 1
  LastAppended = 3
  MinAdditionCount = 2
  ValidDeltasOnly = TRUE
SPECIFICATION Spec
INVARIANTS TypeOK ListCallsDefined AdditionCountExact DeletionCountExactUnlessReturned DeltaExact ReconstructedExact MergeIsJoin VersionsExact CountsUnlessReturned ResultsFitUnlessReturned

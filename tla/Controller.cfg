CONSTANTS
  Triples = {1, 2}
  LastPatch = 4
  Uses <- MCUses
SPECIFICATION Spec
INVARIANTS TypeOK DeltaAcrossChainsExact VersionsExactUnlessFresh StrategyKept MaxPatchIdIsLatest
PROPERTY ImplementsStore

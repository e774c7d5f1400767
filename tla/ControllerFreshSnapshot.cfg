CONSTANTS
  Triples = {1, 2}
  LastPatch = 4
  Uses <- MCUses
SPECIFICATION Spec
INVARIANT VersionsOfTripleExact

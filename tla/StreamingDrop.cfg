CONSTANT MaxElements = 2
SPECIFICATION Spec
CHECK_DEADLOCK FALSE
INVARIANT ClosedStreamInserted

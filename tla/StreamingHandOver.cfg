CONSTANT MaxElements = 8
SPECIFICATION FairSpec
CHECK_DEADLOCK FALSE
INVARIANT TypeOK
PROPERTIES CloseReturnsUnlessBlocking FoundElementsTaken

SPECIFICATION FairSpec
CONSTANTS
    MaxGen = 3
    MaxPosted = 1
    Resolves = TRUE
INVARIANTS ReturnsOnlyHalted AlwaysTries AttemptIsTimed
PROPERTIES ImplementsNativeSession StopReturns AttemptEnds
\* connect() may have returned for good.
CHECK_DEADLOCK FALSE

SPECIFICATION FairSpec
CONSTANTS
    MaxStart = 2
    MaxStop = 0
    Revocable = FALSE
    AlwaysVisible = FALSE
PROPERTIES StopEndsSession CleanupCompletes
CHECK_DEADLOCK FALSE

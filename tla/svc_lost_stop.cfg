SPECIFICATION FairSpec
CONSTANTS
    MaxStart = 1
    MaxStop = 1
    Revocable = FALSE
    AlwaysVisible = FALSE
PROPERTY StopIsHonoured
CHECK_DEADLOCK FALSE

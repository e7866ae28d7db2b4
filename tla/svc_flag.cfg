SPECIFICATION Spec
CONSTANTS
    MaxStart = 2
    MaxStop = 0
    Revocable = FALSE
    AlwaysVisible = FALSE
PROPERTY ReplacementKeepsService
CHECK_DEADLOCK FALSE

\* Two starts and two taps: connect, then connect again, stop or switch.
SPECIFICATION UiSpec
CONSTANTS
    MaxStart = 2
    MaxStop = 2
    Revocable = FALSE
    AlwaysVisible = FALSE
    MaxTap = 2
    MaxUpdates = 1
INVARIANTS ActiveIsReal RunningIsShown ShownIsLevel
\* Nobody may ask anything of the service any more.
CHECK_DEADLOCK FALSE

CONSTANTS
    Nets = {wifi, cell}
    None = None
    Events = {"network", "screen", "pause", "resume", "again"}
    ScreenOffPause = TRUE
    NetChange = TRUE
    MaxEvents = 6
SPECIFICATION FairSpec
INVARIANTS FollowsDevice 
 
\* The budget of events may run out.
CHECK_DEADLOCK FALSE

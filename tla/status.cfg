SPECIFICATION Spec
CONSTANTS
    MaxLogEntries = 2
    Minute = 2
    Hour = 4
    PeriodsToKeep = 1
    Reporters = {1, 2}
    MaxClock = 9
    MaxEvents = 4
    MaxBytes = 2
INVARIANTS TypeOK LogIsOrdered HistoryThins DiffsAddUp
\* The clock and the budgets run out.
CHECK_DEADLOCK FALSE

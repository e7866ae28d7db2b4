\* Two deaths of the process, and a connect for each process or all in one.
SPECIFICATION Spec
CONSTANTS
    MaxBoot = 3
    MaxTap = 3
    Tries = 3
INVARIANTS StartFindsProfile StartIsCurrent RestartRecovers
\* The bounds on connects and deaths stop the model.
CHECK_DEADLOCK FALSE

SPECIFICATION Spec
CONSTANTS
    Cell = {1, 2}
    Requests <- Renewals
    ForwardRules = TRUE
    Default <- AtTwo
    Day = 3
    Soon = 1
    MaxJobs = 2
    Signals = {}
    MaxId = 3
    MaxTime = 4
CHECK_DEADLOCK FALSE
PROPERTY KeptUntilDue

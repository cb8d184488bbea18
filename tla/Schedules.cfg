SPECIFICATION FairSpec
CONSTANTS
    MaxRuns = 1
    MaxFailures = 2
    MaxManual = 1
    MaxCommands = 2
    Budget <- SchedulesBudget
INVARIANTS TypeOK LeaseReleased ActiveHasNext RunLimit
PROPERTIES StartsAreOwed EndedStaysEnded DueIsAnswered
CHECK_DEADLOCK FALSE

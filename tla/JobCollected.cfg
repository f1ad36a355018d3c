SPECIFICATION GCSpec
CONSTANTS
    Nodes = {1, 2, 3}
    NoJob = NoJob
    Options <- Sync2
    Commands = {"ACKJOB"}
    Faults = {"lose", "crash"}
    MaxInFlight = 8
    MaxDeliveries = 0
    MaxCrashes = 1
    Budgets <- MCBudgets
    MaxDelayed = 0
PROPERTY CollectionEnds
CHECK_DEADLOCK FALSE

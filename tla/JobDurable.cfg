SPECIFICATION DurableSpec
CONSTANTS
    Nodes = {1, 2, 3}
    NoJob = NoJob
    Options <- Sync2
    Commands = {}
    Faults = {"crash", "lose"}
    MaxInFlight = 2
    MaxDeliveries = 0
    MaxCrashes = 1
INVARIANTS Durability WaitReplHasClient
PROPERTY RequeueKeepsQueue
CHECK_DEADLOCK FALSE

SPECIFICATION AckedSpec
CONSTANTS
    Nodes = {1, 2, 3}
    NoJob = NoJob
    Options <- SyncOrAsync2
    Commands = {"GETJOB", "FASTACK", "ACKJOB", "DELJOB"}
    Faults = {"expire"}
    MaxInFlight = 2
    MaxDeliveries = 1
    MaxCrashes = 0
INVARIANTS NoPhantomAck AtMostOnce
CHECK_DEADLOCK FALSE

SPECIFICATION OneSpec
CONSTANTS
  Nodes = {1, 2, 3}
  NoJob = NoJob
  Options <- Sync2
  Commands = {"GETJOB", "ACKJOB", "NEEDJOBS"}
  Faults = {}
  MaxInFlight = 3
  MaxDeliveries = 1
  MaxCrashes = 0
PROPERTIES AckedNeverRequeued
CHECK_DEADLOCK FALSE

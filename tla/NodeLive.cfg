SPECIFICATION MCSpec
CONSTANTS
    Null = Null
    q1 = q1
    c1 = c1
    j1 = j1
    k1 = k1
    Types = {"close", "fsync"}
    MaxJobs = 3
    Waits = TRUE
INVARIANTS InOrderOnce ZeroMeansDone
PROPERTIES EveryJobDone ClientsServed LogProgresses
CHECK_DEADLOCK FALSE

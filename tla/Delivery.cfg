SPECIFICATION MCSpec
CONSTANTS
    a = a
    b = b
    q1 = q1
    q2 = q2
    c1 = c1
    c2 = c2
    Null = Null
    Off = Off
    Nodes = {a, b}
    Jobs = {1, 2}
    AtMostOnce = {1}
    Producers = {a}
    Consumers = {a, b}
    Watched = {}
    Ticks = {1000, 2000}
    Prompt = TRUE
    MaxIdle = 300
    Events = {"requeue", "pause", "leave", "disconnect", "forget"}
    MaxEvents = 1
    MaxClients = 1
    MaxTime = 3000
INVARIANTS OneCopy ServedInTime QueuesAgree AwakeInTime  IdsAgree
PROPERTIES  NoPingPong
SYMMETRY Symmetry
CHECK_DEADLOCK FALSE

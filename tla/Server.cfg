SPECIFICATION MCSpec
CONSTANTS
    Off = Off
    j1 = j1
    j2 = j2
    k1 = k1
    k2 = k2
INVARIANTS    CommandsExecuted  
    
CHECK_DEADLOCK FALSE

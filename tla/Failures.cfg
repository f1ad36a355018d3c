SPECIFICATION MCSpec
CONSTANTS
    o1 = o1
    o2 = o2
    o3 = o3
    Observers = {o1, o2}
    Failures = {{o1, o2}}
    Errors = {"refused"}
    Timeout = 1
    Timely = FALSE
    Losses = FALSE
INVARIANTS FailNeedsMajority MinorityNeverFails

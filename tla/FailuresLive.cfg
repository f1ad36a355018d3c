SPECIFICATION LiveSpec
CONSTANTS
    Observers = {o1, o2}
    Failures = {{o1, o2}}
    Errors = {"silent", "refused"}
    Timeout = 1
    Timely = TRUE
    Losses = TRUE
    o1 = o1
    o2 = o2
    o3 = o3
PROPERTY ObserversAgree

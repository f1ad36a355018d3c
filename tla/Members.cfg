SPECIFICATION MCSpec
CONSTANTS
    a = a
    b = b
    x = x
    Servers = {a, b}
    Names = {a, b, x}
    Addresses = {a, b}
    Known <- Strangers
    Admin = {"meet", "forget", "soft", "hard", "restart"}
    MaxAdmin = 3
    MaxNodes = 3
    MaxPackets = 2
    Expire = TRUE
    Careful = {}
INVARIANTS KnownOnce ReachableAlive SizeFresh  ForgottenStaysOutQuietly
SYMMETRY Symmetry
CHECK_DEADLOCK FALSE

SPECIFICATION LiveSpec
CONSTANTS
    Servers = {a, b, c}
    Names = {a, b, c}
    Addresses = {a, b, c}
    Known <- Row
    Admin = {}
    MaxAdmin = 0
    MaxNodes = 3
    MaxPackets = 1
    Expire = FALSE
    Careful = {}
    a = a
    b = b
    c = c
    x = c
PROPERTY EventuallyFullMesh
CHECK_DEADLOCK FALSE

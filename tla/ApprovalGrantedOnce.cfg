SPECIFICATION GuardSpec
CHECK_DEADLOCK FALSE
CONSTANTS
    Processes = {a, b}
    Identities = {i1, i2}
    MaxRows = 2
    MaxFiles = 1
    NoProcess = NoProcess
    NoIdentity = NoIdentity
PROPERTIES
    GrantedOncePerStore

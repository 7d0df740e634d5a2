SPECIFICATION StoresSpec
SYMMETRY Interchangeable
CHECK_DEADLOCK FALSE
CONSTANTS
    a = a
    b = b
    Callers = {a, b}
    Nobody = Nobody
    Nothing = Nothing
    r1 = r1
    r2 = r2
    q1 = q1
    q2 = q2
    Commands <- MCCommands
    Processes = {a, b}
    Identities = {i1, i2}
    MaxRows = 1
    MaxFiles = 2
    NoProcess = NoProcess
    NoIdentity = NoIdentity
    Subjects = {s1, s2}
    Windows = {d1, d2}
    ReservationIds = {x1, x2, x3}
    QuotaLimit = 1
    SlotCapacity = 2
    NoReservation = NoReservation
    None = None
    Modes <- MCModes
    ModeCapacity <- MCModeCapacity
    TotalCapacity = 2
    Symbols <- MCSymbols
    CanonicalPair <- MCCanonicalPair
    Clients = {a, b}
    MaxCalls = 3
    Endings <- MCEndings
    Entry <- MCEntry
    Published <- MCPublished
    Token = "k1"
    Stamp <- MCStamp
INVARIANTS
    ChainsAreLegal
    ScansArePaidFor
    SlotsAreAccounted
    RefillMatchesHistory
    SignalRefilledOnce
    RepairStaysPossible
    ReportsAreTrue
PROPERTIES
    StorePromiseKept
    RecoveryReadIsCurrent
    GrantedOnceUnlessOverlapping

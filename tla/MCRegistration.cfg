SPECIFICATION RegistrationSpec
SYMMETRY Interchangeable
CHECK_DEADLOCK FALSE
CONSTANTS
    None = None
    a = a
    b = b
    Runners = {a, b}
    Times = {1, 2}
    MaxRuns = 2
    Modes = {"SWING", "SCALP"}
    Symbols <- MCSymbols
    CanonicalPair <- MCCanonicalPair
    ModeCapacity <- MCModeCapacity
    TotalCapacity = 3
    SignalMode = "SCALP"
    SignalSymbol = "BTC/USDT"
    OtherRequests <- MCOthers
    MaxRevision = 2
    Tools <- MCTools
    Earlier <- MCEarlier
    Publications <- MCPublications
    Operators = {a, b}
    EntryTimes = {1, 2}
    FirstEntryTime = 0
    MaxFilledRevision = 7
INVARIANTS
    RegisteredIsDelivered
    ReportedIsRegistered
    RegistrationStaysPossible
    NoRedelivery
    EntryFollowsRegistration
    ExitsAreTrue

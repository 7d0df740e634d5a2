SPECIFICATION Spec
CONSTANTS
    None = None
    c1 = c1
    c2 = c2
    Modes <- MCModes
    ModeCapacity <- MCModeCapacity
    TotalCapacity = 2
    Symbols <- MCSymbols
    CanonicalPair <- MCCanonicalPair
    Callers = {c1, c2}
    Requests <- MCReusingRequests
    LifecycleIds = {"t1", "t2"}
    Outcomes = {"CLOSED_PROFIT", "EXPIRED"}
    Evidence = {"e1"}
    MaxRevision = 4
PROPERTIES
    HistoryIsAppendOnly

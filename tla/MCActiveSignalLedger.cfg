SPECIFICATION Spec
SYMMETRY Interchangeable
CONSTANTS
    None = None
    c1 = c1
    c2 = c2
    t1 = t1
    t2 = t2
    t3 = t3
    Modes <- MCModes
    ModeCapacity <- MCModeCapacity
    TotalCapacity = 2
    Symbols <- MCSymbols
    CanonicalPair <- MCCanonicalPair
    Callers = {c1, c2}
    Requests <- MCRequests
    LifecycleIds = {t1, t2, t3}
    Outcomes = {"CLOSED_PROFIT", "EXPIRED"}
    Evidence = {"e1"}
    MaxRevision = 6
INVARIANTS
    TypeOK
    CapacityRespected
    PublicationLineage
    GuardsKeepDocumentValid
    HistoryIsAPath
PROPERTIES
    TerminalIsFinal
    HistoryIsAppendOnly
    NoStaleDecision

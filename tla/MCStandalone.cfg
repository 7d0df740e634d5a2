SPECIFICATION StandaloneSpec
CHECK_DEADLOCK FALSE
CONSTANTS
    a = a
    b = b
    Callers = {a, b}
    MaxCalls = 2
    LockAttempts = 2
    Absent = Absent
    Unlocked = Unlocked
    Orphaned = Orphaned
    NoValue = NoValue
    Cap <- MCCap
    MaxCallCount = 5
    MaxRunCalls = 3
    MaxCallTokens = 4
    Requests <- MCRequests
    Escalations <- MCEscalations
    Plans <- MCPlans
    Usages <- MCUsages
    MaxRuns = 2
    Sides = {"LONG", "SHORT"}
    Ranges <- MCRanges
    ValidUntil = 1
    MaxTime = 3
    NoTime = NoTime
    Runs = {a, b}
    Symbols = {"ETH"}
    Votes = {"SUPPORT", "OPPOSE"}
    Lookback = 4
    MaxClock = 4
    NoFile = NoFile
    None = None
    Workers = {a, b}
    Tokens = {k1, k2}
    Releases <- MCReleases
    Seconds = {0, 1}
    Fractions = {0, 5}
    MaxRevision = 5
    MaxAttempts = 2
INVARIANTS
    MutualExclusion
    WithinLimits
    EveryAttemptIsCharged
    ReportsMatchLedger
    PreflightSuffices
    VerdictsAgree
    LatestClaimHolds
PROPERTIES
    PromiseKept
    EveryCallEnds
    NothingAfterStop
    DecidedOnce

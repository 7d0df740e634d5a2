SPECIFICATION Spec
CHECK_DEADLOCK FALSE
CONSTANTS
    None = None
    Modes <- MCModes
    ModeCapacity <- MCModeCapacity
    TotalCapacity = 2
    Symbols <- MCSymbols
    CanonicalPair <- MCCanonicalPair
    MaxUpdates = 2
    MaxFailures = 1
    Texts <- MCTexts
    Publications <- MCPublications
    Endings <- MCEndings
INVARIANTS
    AcceptedIsApplied
    AnsweredOnceAfterDeciding
    NothingPassedInSilence
PROPERTIES
    EffectIsFinal
    EveryUpdateIsSettled

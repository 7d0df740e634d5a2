SPECIFICATION PaperSpec
CONSTANTS
    Sides = {"LONG", "SHORT"}
    Ranges <- MCRanges
    ValidUntil = 1
    MaxTime = 3
    NoTime = NoTime
CHECK_DEADLOCK FALSE
PROPERTY ExpiryIsFinal

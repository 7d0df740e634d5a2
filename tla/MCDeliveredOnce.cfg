SPECIFICATION Spec
SYMMETRY Interchangeable
CHECK_DEADLOCK FALSE
CONSTANTS
    None = None
    a = a
    b = b
    Runners = {a, b}
    Times = {1, 2}
    MaxRuns = 2
INVARIANT DeliveredOnce

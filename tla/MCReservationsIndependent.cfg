SPECIFICATION ReservationSpec
SYMMETRY Interchangeable
CONSTANTS
    a = a
    b = b
    Callers = {a, b}
    Nobody = Nobody
    Nothing = Nothing
    r1 = r1
    r2 = r2
    q1 = q1
    q2 = q2
    Commands <- MCCommands
PROPERTIES
    ReservationsAreIndependent

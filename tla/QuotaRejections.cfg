SPECIFICATION QuotaSpec
CONSTANTS
    Subjects = {s1, s2}
    Windows = {d1, d2}
    ReservationIds = {x1, x2, x3}
    QuotaLimit = 1
    SlotCapacity = 2
    NoReservation = NoReservation
INVARIANTS
    RejectionsAreFree

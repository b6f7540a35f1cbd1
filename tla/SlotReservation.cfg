SPECIFICATION FairSpec
CONSTANTS
    Bookings = {b1, b2}
    Slots = {s1, s2}
    Workers = {w1, w2}
    Nobody = Nobody
    NoSlot = NoSlot
    NoRow = NoRow
    DefaultCapacity = 1
    MaxCapacity = 1
PROPERTIES
    ReservationIsAtomic
    RequestsEnd

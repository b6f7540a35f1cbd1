\* Two customers, two services in slots of two areas, two workers.
SPECIFICATION Spec
CONSTANTS
    Customers = {ann, bob}
    Services = {clean, paint}
    Workers = {w1, w2}
    Slots = {1, 2}
    Areas = {north, south}
    AreaOf <- MCAreaOf
    Requests <- MCRequests
    Nobody = Nobody
    NoSequence = NoSequence
    MaxSerial = 2
    ann = ann
    bob = bob
    clean = clean
    paint = paint
    north = north
    south = south
SYMMETRY Interchangeable
INVARIANTS
    NumbersAreNew
    OneAnswerPerKey
    SlotsNeverDeadlock
PROPERTY SelectionBookedOnce

\* Two jobs, one technician, two operators assigning.
SPECIFICATION Spec
CONSTANTS
    Technicians = {t1}
    Bookings = {b1, b2}
    Slots = {morning, noon, evening}
    Workers = {w1, w2}
    Nobody = Nobody
    morning = morning
    noon = noon
    evening = evening
    Overlap <- MCOverlap
    Covers <- MCCovers
    Absence <- MCAbsence
    Forms <- MCForms
SYMMETRY Interchangeable
INVARIANTS
    DoubleBookedOnlyByMove
PROPERTY AssignedWhileFit

\* Two payment attempts, one refund, two technicians, an offline payment.
SPECIFICATION Spec
CONSTANTS
    Orders = {o1, o2}
    Refunds = {r1}
    Technicians = {t1, t2}
    Nobody = Nobody
    NoOrder = NoOrder
    Total = 3
    Advance = 2
    ManualAmounts = {1, 4}
    RequireBalance = TRUE
SYMMETRY Interchangeable
INVARIANTS
    ServiceIsPaidOrConverted
    AssignmentMatchesBooking
    SettledWhenDone
    AdvanceCountedOnce
PROPERTIES
    InvoiceOnlyWhenSettled
    ImplementsSeatClaim
    ImplementsJobClaim
\* A closed booking is a real end.
CHECK_DEADLOCK FALSE

\* One payment, two refunds of any part of it.
SPECIFICATION Spec
CONSTANTS
    Orders = {o1}
    Refunds = {r1, r2}
    Technicians = {t1}
    Nobody = Nobody
    NoOrder = NoOrder
    Total = 3
    Advance = 2
    ManualAmounts = {2}
    RequireBalance = TRUE
SYMMETRY Interchangeable
INVARIANTS
    RefundPendingIsReal
    RefundsWithinPayment
    RefundedMeansReturned
CHECK_DEADLOCK FALSE

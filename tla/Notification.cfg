SPECIFICATION Spec
CONSTANTS
    n1 = n1
    n2 = n2
    Requests = {r1}
    Notifications = {n1, n2, n3}
    Operators = {o1}
    EventsOf <- TwoEvents
    Nobody = Nobody
    MaxAttempts = 1
INVARIANTS CommittedEventsOnly CancelledIsNotDelivered
PROPERTIES ReportsAreKept 

CONSTANTS
    None = None
    Leads = {l1, l2}
    Bookings = {b1, b2}
    Workers = {w1, w2}
    Edits = {"CONTACTED", "LOST"}
SPECIFICATION Spec
SYMMETRY Symmetry
INVARIANT OneActiveLead
 
 
CHECK_DEADLOCK FALSE   \* the bounds end the behaviour: rows, bookings and races run out

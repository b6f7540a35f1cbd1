CONSTANTS
    Unset = Unset
    Users = {u1, u2, u3}
    Root = u1
    Groups = {"Finance", "Super Admin"}
    Workers = {w1, w2}
    MaxRequests = 3
SPECIFICATION StaffSpec
SYMMETRY Symmetry
INVARIANT SomebodyAdministers
PROPERTY ProfilesAreKept
CHECK_DEADLOCK FALSE   \* MaxRequests ends the behaviour

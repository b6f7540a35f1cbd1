CONSTANTS
    None = None
    Gone = Gone
    Bookings = {b1, b2}
    Workers = {w1, w2, w3}
    Prices = {0, 3}
    Values = {2, 50, 150}
    Fee = 1
    FeePerUnit = TRUE
    Seeds <- MCSeeds
    CoreSeed <- MCCoreSeed
    ItemSets <- MCItemSets
    MaxRequests = 3
SPECIFICATION StorefrontSpec
SYMMETRY Symmetry
 
INVARIANT AmountMatchesTerms
INVARIANT ReferencedServiceStays
INVARIANT ReviewIsStillDue
PROPERTY PackageIsOneRequest
CHECK_DEADLOCK FALSE   \* MaxRequests ends the behaviour

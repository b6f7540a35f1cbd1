CONSTANTS
    Absent = Absent
    Addresses = {a1, a2, a3}
    Services = {s1, s2}
    Workers = {w1, w2}
    Core = {s1}
    Launch = TRUE
    FallbackSet = TRUE
    MaxRequests = 4
SPECIFICATION LocationsSpec
INVARIANT OneDefault
INVARIANT AreaSellsWhatWasAsked
PROPERTY LookupsEnd
CHECK_DEADLOCK FALSE   \* MaxRequests ends the behaviour

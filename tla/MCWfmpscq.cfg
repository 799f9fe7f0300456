CONSTANTS
    NumWriter = 3
    NumSlots = 3
    MAXID = 3
    FaaAdds = TRUE
    MaxCalls = 4
SPECIFICATION Spec
INVARIANT TypeOK
INVARIANT LowestAtStart
INVARIANT BoundedBypass
PROPERTY WritersAreFifo
PROPERTY RefusedIfEmpty

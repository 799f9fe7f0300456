CONSTANTS
    NumWriter = 2
    NumSlots = 3
    MAXID = 15
    FaaAdds = FALSE
    MaxCalls = 4
SPECIFICATION Spec
INVARIANT LowestAtStart

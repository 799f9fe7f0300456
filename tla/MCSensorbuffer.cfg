CONSTANTS
    NumBuffer = 2
    SlotWords = 2
    StoreDepth = 1
    MaxUpdates = 4
SPECIFICATION FairSpec
INVARIANT TypeOK
INVARIANT WholeIfOrdered
INVARIANT FreshAtCall
INVARIANT LatestIsValid
PROPERTY ReadReturns

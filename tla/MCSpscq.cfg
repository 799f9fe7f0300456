CONSTANTS
    NumSlots = 3
    SlotWords = 2
    Word <- MCWord
    Zero <- MCZero
SPECIFICATION FairSpec
INVARIANT TypeOK
INVARIANT CopyIsFaithful
PROPERTY ImplementsFifo
PROPERTY RetrySucceeds

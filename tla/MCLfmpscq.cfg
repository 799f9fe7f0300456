CONSTANTS
    NumSlots = 4
    MaxUser = 3
    Producer = {1, 2}
    m1 = m1
    m2 = m2
    Message <- MCMessage
    Sends <- MCSends
    NoMessage = none
    MaxCalls = 4
SPECIFICATION LockFreeSpec
INVARIANT TypeOK
INVARIANT OneOwner
INVARIANT ProtectedNotReused
PROPERTY FifoUnlessOvertaken
PROPERTY CallsReturn

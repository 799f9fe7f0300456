CONSTANTS
    NumSlots = 3
    MaxUser = 2
    m0 = m0
    m1 = m1
    Message <- MCMessage
    Sends <- MCSends
    NoMessage = none
    MaxCalls = 3
SPECIFICATION LockFreeSpec
INVARIANT TypeOK
INVARIANT OneOwner
INVARIANT ProtectedNotReused
PROPERTY EmptyWasEmpty
PROPERTY ImplementsFifo
PROPERTY CallsReturn

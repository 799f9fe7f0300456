CONSTANTS
    a = a
    b = b
    c = c
    d = d
    User <- MCUser
    numUser = 4
    Kind = {"mutex", "flag", "barrier"}
    Padding = 8
SPECIFICATION ObjectFairSpec
INVARIANT TypeOK
INVARIANT ResetIsAlone
INVARIANT MutualExclusion
PROPERTY ImplementsBarrier
PROPERTY InitializedOnce
PROPERTY LockComesBack
PROPERTY WaitsEnd
\* A user that died keeps the object's lock, and the others spin for ever.
CHECK_DEADLOCK FALSE

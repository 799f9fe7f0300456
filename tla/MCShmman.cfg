CONSTANTS
    Proc = {p1, p2}
    MAX_SHMSEG = 2
    MAX_SVSHMSEG = 1
    FtokIds = 2
    MIN_SVSHMSEGSIZE = 1
    PageSize = 16
    Size <- MCSize
    Beginnings = {"alone"}
    MaxCnt = 1
SPECIFICATION FairSpec
INVARIANT TypeOK
INVARIANT SegmentsDisjoint
INVARIANT SameMemory
INVARIANT CountIsUsers
PROPERTY LockComesBack
PROPERTY FinalizeLeavesNothing
\* A process that returned from a failed create, or died in it, holds the lock for
\* ever; and all processes may have died, or left this life.
CHECK_DEADLOCK FALSE

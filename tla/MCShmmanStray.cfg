CONSTANTS
    Proc = {p1, p2}
    MAX_SHMSEG = 2
    MAX_SVSHMSEG = 1
    FtokIds = 2
    MIN_SVSHMSEGSIZE = 1
    PageSize = 16
    Size <- MCSize
    Beginnings = {"alone"}
    MaxCnt = 1
SPECIFICATION Spec
INVARIANT NoStrayWrite
CHECK_DEADLOCK FALSE

CONSTANTS
    Proc = {p, q}
    Build = {"arm_zeros", "arm_sign", "x86", "x86_AMD64"}
    Register = 4
    Narrow = 2
    Arg <- MCArg
    MaxLost = 1
SPECIFICATION LockFreeSpec
PROPERTY ImplementsAtomic
PROPERTY CallsReturn

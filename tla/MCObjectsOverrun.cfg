CONSTANTS
    a = a
    b = b
    c = c
    d = d
    User <- MCPair
    numUser = 2
    Kind = {"mutex"}
    Padding = 4
SPECIFICATION ObjectSpec
PROPERTY InitializedOnce
CHECK_DEADLOCK FALSE

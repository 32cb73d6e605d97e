SPECIFICATION FairSpec
CONSTANTS
    root = root
    child = child
    a = a
    b = b
    d = d
    None = None
    Containers = {root}
    Line <- OneLine
    Types = {a, b, d}
    Deps <- AUsesB
    Late <- BAsksD
    Async = {b}
    PerChild = {}
    Callers = {p, q}
    MaxMade = 2
    MaxClears = 1
CHECK_DEADLOCK FALSE
PROPERTY EveryCallSettles

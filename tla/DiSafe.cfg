SPECIFICATION Spec
CONSTANTS
    root = root
    child = child
    a = a
    b = b
    d = d
    None = None
    Containers = {root, child}
    Line <- TreeLine
    Types = {a, b}
    Deps <- AUsesB
    Late <- None3
    Async = {b}
    PerChild = {a}
    Callers = {p, q}
    MaxMade = 3
    MaxClears = 1
SYMMETRY CallerSymmetry
CHECK_DEADLOCK FALSE
INVARIANTS PromiseIsLive OneCreationAtATime HandedOutIsCached
PROPERTY ImplementsStore

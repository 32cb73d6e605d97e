SPECIFICATION AllSpec
CONSTANTS
    NoService = NoService
    Names = {x, y}
    Callers = {p, q, r}
    MaxBuilt = 3
    root = root
    child = child
    a = a
    b = b
    n = n
    None = None
    Containers = {root, child}
    Line <- TreeLine
    MaxMade = 3
    Impls = {a, b, n}
    PerChild = {b}
    Fresh = {n}
    FileCalls = {c1, c2}
    FileName = f
    NewName = g
    NoFile = NoFile
    MaxArchiveFiles = 2
    MaxLogFiles = 4
    StartEntries = {e1, e2}
    LoggerNames = {"A", "B"}
    LogTargets = {"t", "u"}
    Rules <- StartRules
    Requests = {r1, r2}
    Sids = {sid1, sid2}
    Users = {u1}
    NoUser = none
    NoRow = norow
    Lifetime = 1
    DbLifetime = 2
    MaxNow = 2
CHECK_DEADLOCK FALSE
INVARIANTS CacheFilledOnce LookupsAgree NothingLost EveryEntryIsSomewhere ArchivesKept EndedStaysAway
PROPERTY LateCallersGetTheirs

SPECIFICATION FairSpec
CONSTANTS
    j1 = j1
    j2 = j2
    k1 = k1
    k2 = k2
    X = X
    Y = Y
    c1 = c1
    c2 = c2
    ch1 = ch1
    None = None
    Jobs = {j1, j2}
    Class <- XAndY
    Conns <- OneConn
    Channels <- OneChannel
    Consumers = {k1, k2}
    Listens <- SameChannel
    HasCallback = {k1, k2}
    MaxDeliver = 2
    MaxLost = 1
CHECK_DEADLOCK FALSE
INVARIANTS AckedIsRecorded
PROPERTY EveryJobSettles

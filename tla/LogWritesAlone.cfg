SPECIFICATION ServicesSpec
CONSTANTS
    MaxBufferSize = 2
    MaxEntries = 3
    MaxWaiting = 2
    BufferSize = 2
    MaxMessages = 3
    MaxPushes = 2
    Renders = {r1}
    Ports = {p1}
    NoPort = none
    Policies = {q1, q2}
    Middlewares = 1
    MaxParams = 3
    Sockets = {s1}
    Disposals = {d1}
    MaxListens = 1
    Props = {p}
    Polls = {poll1}
    MaxValue = 0
    MaxLoads = 1
CHECK_DEADLOCK FALSE
INVARIANT WritesAlone

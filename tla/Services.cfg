SPECIFICATION FairServicesSpec
CONSTANTS
    MaxBufferSize = 2
    MaxEntries = 3
    MaxWaiting = 2
    BufferSize = 2
    MaxMessages = 3
    MaxPushes = 2
    Renders = {r1, r2}
    Ports = {p1}
    NoPort = none
    Policies = {q1, q2}
    Middlewares = 1
    MaxParams = 3
    Sockets = {s1, s2}
    Disposals = {d1, d2}
    MaxListens = 2
    Props = {p}
    Polls = {poll1, poll2}
    MaxValue = 1
    MaxLoads = 2
CHECK_DEADLOCK FALSE
INVARIANTS InOrderUnlessOverlapped OkIsEarned
PROPERTIES BufferIsFlushed ReceivedInTheEnd EveryRenderEnds EveryRequestAnswered ServerGoesDown WatchedFollows

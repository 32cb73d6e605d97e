SPECIFICATION FairAllSpec
CONSTANTS
    k1 = k1
    k2 = k2
    k3 = k3
    k4 = k4
    r1 = r1
    r2 = r2
    r3 = r3
    r4 = r4
    A = A
    B = B
    None = None
    NoCall = NoCall
    Calls = {k1, k2, k3, k4}
    SyncThrow = {k4}
    Procs = {r1, r3, r4}
    Tenants = {A, B}
    Tenant <- TwoApps
    Stacking = {}
    NoOptions = {r4}
CHECK_DEADLOCK FALSE
PROPERTIES EveryCallEnds WaitEnds EveryRunEnds

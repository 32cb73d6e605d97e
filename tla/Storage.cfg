SPECIFICATION StorageSpec
CONSTANTS
    Txs = {t1, t2}
    Others = {o1, o2}
    TxConns = {c1, c2}
    Db = c1
    NoTx = none
    Apps = {a1, a2}
    Last = 2
    Nobody = none
    MaxStarts = 3
    ModelCalls = {k1, k2}
    ModelColumns = {a, b}
    ForeignKey = b
    ColumnValues = {0, 1}
    NoValue = none
    MaxAssigns = 2
    Items = {i1, i2}
    Owner = owner
    Stranger = stranger
    NoItem = none
    Syncs = {s1, s2}
    MaxKey = 3
    MaxEdits = 1
    MaxPart = 2
    MaxCalls = 5
    NoQuery = none
    Heads = {h1, h2}
    RelRows = {x1, x2}
    NoHead = none
    Awaits = {w1, w2}
    MaxWrites = 1
    Records = {m1, m2}
    Inserts = {n1, n2}
    NoRecord = none
    Mixed = mixed
    LastRow = 4
    StaleKeys = {1, 3}
    MaxSends = 3
    WriteColumns = {id, a}
    KeyColumn = id
    NoColumn = none
    NoWrite = nothing
    MaxRows = 2
    MaxSteps = 4
    Tables = {t, u}
    Target = t
    Columns = {a, b}
    ColumnTypes = {int, text}
    NoTable = none
    MaxParts = 2
    MaxSchemaCalls = 2
    MaxLate = 1
    UserCalls = {k1, k2}
    Roles = {role}
    NoCopy = none
    MaxActions = 3
CHECK_DEADLOCK FALSE
INVARIANTS AtomicUnlessShared RecordMatchesSchema  StatementFits KeyNamesOwnRow WriteFits EveryChangeStands
PROPERTIES  RecompilesTheSame PopulatedExactly ResolvedAsAsked

SPECIFICATION Spec
CONSTANTS
    b1 = b1
    b2 = b2
    b3 = b3
    b4 = b4
    t1 = t1
    t2 = t2
    Batches = {b1, b2, b3}
    Tables = {t1, t2}
    TableOf <- TwoTables
    TimeOf <- SameWindow
    Interval = 10
    Requests <- WithPair
    Unwritable = {}
    Backend = "local"
    Handlers = {h1, h2}
    Ticker = ticker
    OpLimit = 1
    MaxCrashes = 1
    MaxFaults = 1
INVARIANTS
    TypeOK
    FreshSequence
    BufferedReplayable
    AckedSafe
    CollisionNeedsCause
    IInv
PROPERTIES
    RowsKept
SYMMETRY HandlerSymmetry
CHECK_DEADLOCK FALSE

SPECIFICATION Spec
CONSTANTS
    b1 = b1
    b2 = b2
    b3 = b3
    b4 = b4
    t1 = t1
    t2 = t2
    Batches = {b1, b2, b3}
    Tables = {t1}
    TableOf <- OneTable
    TimeOf <- Times
    Interval = 10
    Requests <- Singles
    Unwritable = {}
    Backend = "http"
    Handlers = {h1, h2}
    Ticker = ticker
    OpLimit = 2
    MaxCrashes = 0
    MaxFaults = 0
INVARIANTS
    NamesNeverCollide
SYMMETRY HandlerSymmetry
CHECK_DEADLOCK FALSE

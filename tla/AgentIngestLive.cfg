SPECIFICATION FairSpec
CONSTANTS
    b1 = b1
    b2 = b2
    b3 = b3
    b4 = b4
    t1 = t1
    t2 = t2
    Batches = {b1, b2, b3, b4}
    Tables = {t1}
    TableOf <- TableOfFour
    TimeOf <- TimesOfFour
    Interval = 10
    Requests <- PairThenTwo
    Unwritable = {b4}
    Backend = "http"
    Handlers = {h1}
    Ticker = ticker
    OpLimit = 2
    MaxCrashes = 1
    MaxFaults = 1
PROPERTIES
    AckedDelivered
CHECK_DEADLOCK FALSE

SPECIFICATION Spec
CONSTANTS
    r0 = r0  r1 = r1  r2 = r2
    cpu = cpu  mem = mem
    a1 = a1  a2 = a2
    MinTime = 0
    MaxTime = 3
    Slots = {q1, q2}
    Tables = {cpu, mem}
    Rows = {r0, r1, r2}
    Agents = {a1}
    RowTable <- MCRowTable
    RowAgent <- MCRowAgent
    RowTime <- MCRowTime
    Requests <- MCRequests
    Starts <- MCStarts
    Moving = {r1}
    MaxQueries = 2
    MaxDrops = 1
    Nobody = Nobody
INVARIANTS
    TypeOK
    CatalogRestored
    
    BufferPure
    NothingMissed
    
SYMMETRY SlotSymmetry
CHECK_DEADLOCK FALSE

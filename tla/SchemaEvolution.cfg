SPECIFICATION Spec
CONSTANTS
    Names = {"host", "data-center", "data_center", "a", "b"}
    Values = {"x", "", "f", "big"}
    TypeOf <- MCTypeOf
    TooBig = {"big"}
    Empty = {""}
    ColumnName <- MCColumnName
    Windows = {1, 2}
    Requests <- MCRequests
    MaxWrites = 3
    MaxRestarts = 1
INVARIANTS
    TypeOK
    WellRead
    ReadingStable
    ColumnsAgree
    IndexExact
CHECK_DEADLOCK FALSE

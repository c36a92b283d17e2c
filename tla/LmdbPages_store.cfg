\* Two keys, one with big values, one reader, transactions nested once.
SPECIFICATION MCSpec
CONSTANTS
    Key = {"a", "b"}
    BigKey = {"b"}
    Reader = {"r"}
    MDB_IDL_UM_MAX = 9
    MaxPg = 26
    MaxTxn = 5
    MaxOps = 3
    MaxFaults = 1
    MaxReads = 1
    Depth = 2
    NOMETASYNC = TRUE
    Made = 2
INVARIANTS PageAccounting AssertionsHold
PROPERTY ImplementsStore

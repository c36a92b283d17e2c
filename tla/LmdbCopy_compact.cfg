SPECIFICATION Spec
CONSTANTS
    Sources <- MCSources
    MDB_WBUF = 3
INVARIANTS
    BuffersApart
    CopyFaithful
PROPERTY
    CopyEnds
CHECK_DEADLOCK FALSE

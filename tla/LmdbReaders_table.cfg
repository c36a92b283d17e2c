\* Two processes with a reader each; both may write.
SPECIFICATION Spec
CONSTANTS
    p1 = p1
    p2 = p2
    r1 = r1
    r2 = r2
    Proc = {p1, p2}
    Rtx = {r1, r2}
    Home <- MCHome
    MaxReaders = 2
    MaxTxn = 2
    DieExclusive = {}
INVARIANTS PinRespected SnapshotsIntact SlotsExclusive WriterFollowsNewest
PROPERTY TxnidGrows
SYMMETRY Alike
